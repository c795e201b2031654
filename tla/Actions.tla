------------------------------ MODULE Actions ------------------------------
(***************************************************************************)
(* Structured actions and decisions (crates/guardian-core/src/lib.rs) and  *)
(* the normalisation of a tool call into an action (`build_action`,        *)
(* crates/guardian-mcp-gateway/src/lib.rs).                                *)
(*                                                                         *)
(* An Option is a set of at most one element.  A tool name is the set of   *)
(* keywords `infer_kind` looks for that it contains; the host, path and    *)
(* other arguments a policy reads are the policy's business (PolicyEngine) *)
(* and are not part of the classification.                                 *)
(***************************************************************************)
EXTENDS Naturals

None == {}
Some(x) == {x}
Option(S) == {None} \cup {Some(x) : x \in S}
\* Option::or.
OrElse(o, p) == IF o # None THEN o ELSE p

ActionKind == {"FileRead", "FileWrite", "Exec", "HttpRequest", "Email", "Payment",
               "Delete", "Other"}
Capability == {"Payment", "Credential", "Exfiltration", "IrreversibleDelete",
               "Messaging", "Filesystem", "Network", "Other"}

\* `Capability::is_critical` and `Action::is_critical`.
CriticalCapability == {"Payment", "Credential", "Exfiltration", "IrreversibleDelete"}
IsCritical(action) == action.capability \cap CriticalCapability # {}

\* The words `infer_kind` searches a tool name for, by the kind they suggest, in
\* the order it tries them.
KindWords ==
    <<[kind |-> "Payment", words |-> {"payment", "transfer", "pay"}],
      [kind |-> "Delete", words |-> {"delete", "remove"}],
      [kind |-> "Email", words |-> {"email", "mail"}],
      [kind |-> "Exec", words |-> {"exec", "shell", "bash", "run"}],
      [kind |-> "HttpRequest", words |-> {"http", "fetch", "request"}],
      [kind |-> "FileWrite", words |-> {"write", "create", "edit"}],
      [kind |-> "FileRead", words |-> {"read", "open"}]>>

InferKind(tool) ==
    LET hits == {n \in DOMAIN KindWords : tool \cap KindWords[n].words # {}}
    IN IF hits = {} THEN "Other"
       ELSE KindWords[CHOOSE n \in hits : \A m \in hits : n <= m].kind

InferCapability(kind) ==
    CASE kind = "Payment" -> Some("Payment")
      [] kind = "Delete" -> Some("IrreversibleDelete")
      [] kind = "Email" -> Some("Messaging")
      [] kind = "HttpRequest" -> Some("Network")
      [] kind \in {"FileRead", "FileWrite"} -> Some("Filesystem")
      [] OTHER -> None

\* `build_action`: the adapter's hints win over the inferred class.
BuildAction(call) ==
    LET kind == IF call.kind # None THEN CHOOSE k \in call.kind : TRUE
                ELSE InferKind(call.tool)
    IN [kind |-> kind,
        capability |-> OrElse(call.capability, InferCapability(kind)),
        args |-> call.args]
-----------------------------------------------------------------------------
Decision == {"allow", "ask", "deny"}

\* `Decision::restrictiveness`.
Restrictiveness(d) == CASE d = "allow" -> 0 [] d = "ask" -> 1 [] d = "deny" -> 2

\* `Decision::most_restrictive`: on a tie the first is kept.
MostRestrictive(d, other) ==
    IF Restrictiveness(other) > Restrictiveness(d) THEN other ELSE d

\* The decisions and critical flags `CompiledPolicy::evaluate` may return, whatever the
\* policy: the floor flags an action of a critical category and never allows it.
Outcomes(critical) ==
    IF critical THEN {"ask", "deny"} \X {TRUE} ELSE Decision \X BOOLEAN
=============================================================================
