-------------------------- MODULE MCPolicyEngine --------------------------
(* Every policy of up to three rules drawn from a palette in which decisions, *)
(* caps, flags, errors and duplicate ids meet, against calls whose class is   *)
(* hinted or inferred and whose arguments are at, under and over the limits.  *)
EXTENDS PolicyEngine, SequencesExt

NoCap == [amount_max |-> None, count_max |-> None, currency |-> None]
R(id, when, decision, critical, sandbox, cap) ==
    [id |-> id, when |-> when, decision |-> decision, critical |-> critical,
     sandbox |-> sandbox, cap |-> cap]

Palette ==
    {R("allow", "true", "allow", FALSE, TRUE, NoCap),
     R("pay200", "true", "allow", FALSE, FALSE, [NoCap EXCEPT !.amount_max = Some(200)]),
     R("batch", "true", "allow", TRUE, FALSE,
       [NoCap EXCEPT !.count_max = Some(2), !.currency = Some("EUR")]),
     R("ask", "true", "ask", FALSE, FALSE, NoCap),
     R("denybig", "true", "deny", TRUE, FALSE, [NoCap EXCEPT !.amount_max = Some(0)]),
     R("deny", "error", "deny", TRUE, TRUE, NoCap),
     R("off", "false", "ask", TRUE, TRUE, NoCap),
     R("allow", "invalid", "allow", FALSE, FALSE, NoCap)}

MCPolicies ==
    [version : {1}, default : {"ask", "deny"}, rules : BoundedSeq(Palette, 3)]
    \cup [version : {1, 2}, default : Decision, rules : BoundedSeq(Palette, 1)]

Number(n) == [json |-> "number", f |-> Some(n)]
Text(o) == [json |-> "string", f |-> o]
Absent == [json |-> "absent", f |-> None]
C(tool, kind, capability, amount, count, currency) ==
    [tool |-> tool, kind |-> kind, capability |-> capability,
     args |-> [amount |-> amount, count |-> count, currency |-> currency]]

MCToolCalls ==
    {C({"read"}, None, None, Absent, Absent, None),
     C({"exec"}, Some("Other"), None, Number(200), Number(2), Some("EUR")),
     C({"write"}, None, None, Number(201), Number(3), Some("USD")),
     C({"fetch"}, None, Some("Exfiltration"), Text(Some(-1)), Absent, None),
     C({"pay", "read"}, None, None, Text(None), Number(0), Some("EUR")),
     C({"mail"}, None, None, Text(Some(NaN)), Text(Some(1)), Some("EUR"))}
=============================================================================
