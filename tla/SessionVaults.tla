--------------------------- MODULE SessionVaults ---------------------------
(***************************************************************************)
(* Data protection in the gateway: the list of protected values and the    *)
(* per-session data vaults (crates/guardian-mcp-gateway/src/lib.rs, with   *)
(* crates/guardian-broker/src/vault.rs), under calls that run concurrently *)
(* with the cockpit adding and removing values.                            *)
(*                                                                         *)
(* The list and the vaults have a lock each, taken one after the other and *)
(* never together, so `with_vault` and `add_protected` are two steps.  A   *)
(* call begins here where `handle` has authorised it.  Its arguments carry *)
(* at most one token, in a string, and its answer at most one sensitive    *)
(* value, which has a place: a string of the JSON result, one of its       *)
(* object keys or numbers, or the text of an error.  A token id is random, *)
(* so a token is the session and the value it was minted for.              *)
(***************************************************************************)
EXTENDS Naturals, Sequences

CONSTANTS
    Calls,       \* bound: how many calls are in flight at a time
    Sessions,
    NoSession,   \* of a call that is not in flight
    Values,      \* sensitive values
    Short,       \* those too short for `learn`
    Cards        \* those the built-in card detector finds

ASSUME NoSessionAssumption == NoSession \notin Sessions
ASSUME ValuesAssumption ==
    Short \subseteq Values /\ Cards \subseteq Values /\ "not begun" \notin Values

VARIABLES
    data_protection, \* the list of protected values
    vaults,          \* of each session: [open, known, minted]
    detector,        \* is there a PII sidecar?
    pc, session, args, seed, sent, result, found,   \* the calls
    adding,          \* the value an `add_protected` is on its way to the vaults with
    since,           \* history: the values protected ever since a session began,
    shown            \* and where the last step showed its session one of them

vars == <<data_protection, vaults, detector, pc, session, args, seed, sent, result, found,
          adding, since, shown>>
callVars == <<pc, session, args, seed, sent, result, found>>

Protected == {data_protection[n] : n \in DOMAIN data_protection}
Tokens == Sessions \X Values
NotBegun == {"not begun"}

\* Where a value stands in a result: in a string, or in an object key or a number.
Places == {"string", "key or number"}
Results == Values \X Places

\* `DataVault::learn`.
Learn(known, vs) == known \cup (vs \ Short)

Vault(c) == vaults[session[c]]
-----------------------------------------------------------------------------
\* The configured list is the one that protecting its values before the first call gives.
Init ==
    /\ data_protection = <<>>
    /\ vaults = [s \in Sessions |-> [open |-> FALSE, known |-> {}, minted |-> {}]]
    /\ detector \in BOOLEAN
    /\ pc = [c \in Calls |-> "idle"]
    /\ session = [c \in Calls |-> NoSession]
    /\ args = [c \in Calls |-> {}]
    /\ seed = [c \in Calls |-> {}]
    /\ sent = [c \in Calls |-> {}]
    /\ result = [c \in Calls |-> {}]
    /\ found = [c \in Calls |-> {}]
    /\ adding = {}
    /\ shown = {}
    /\ since = [s \in Sessions |-> NotBegun]
-----------------------------------------------------------------------------
(* The tail of `handle`. *)

ShowNothing == shown' = {}

Tokenization == data_protection # <<>> \/ detector

\* `tokenization_on`: with nothing to protect the call is forwarded as it is.  An
\* agent sends any token that any session was given.
Start(c, s, token) ==
    /\ pc[c] = "idle"
    /\ token = {} \/ \E t \in Sessions : \E v \in vaults[t].minted : token = {<<t, v>>}
    /\ session' = [session EXCEPT ![c] = s]
    /\ args' = [args EXCEPT ![c] = token]
    /\ sent' = [sent EXCEPT ![c] = IF Tokenization THEN {} ELSE token]
    /\ pc' = [pc EXCEPT ![c] = IF Tokenization THEN "seed" ELSE "plain"]
    /\ since' = [since EXCEPT ![s] = IF @ = NotBegun THEN Protected \ adding ELSE @]
    /\ ShowNothing
    /\ UNCHANGED <<data_protection, vaults, detector, seed, result, found, adding>>

\* `with_vault`, first lock: the list is cloned.  The clone matters only if the vault
\* is yet to be made, and no vault is ever closed: it is dropped if the vault is there,
\* and the later uses of `with_vault` in the same call are single steps.
Seed(c) ==
    /\ pc[c] = "seed"
    /\ seed' = [seed EXCEPT ![c] = IF Vault(c).open THEN {} ELSE Protected]
    /\ pc' = [pc EXCEPT ![c] = "vault"]
    /\ ShowNothing
    /\ UNCHANGED <<data_protection, vaults, detector, session, args, sent, result, found,
                   adding, since>>

\* ... second lock: the vault of the session, made on first use.
Opened(c) ==
    IF Vault(c).open THEN Vault(c)
    ELSE [open |-> TRUE, known |-> Learn({}, seed[c]), minted |-> {}]

\* Fault: one vault serves all sessions.
BadDetokenize(c, token) ==
    IF \E s \in Sessions : token[2] \in vaults[s].minted THEN token[2] ELSE token

\* `detokenize`: a token this vault did not mint is left as it is.
Detokenize(c, token) ==
    IF token[1] = session[c] /\ token[2] \in Opened(c).minted THEN token[2] ELSE token

Outbound(c) ==
    /\ pc[c] = "vault"
    /\ vaults' = [vaults EXCEPT ![session[c]] = Opened(c)]
    /\ sent' = [sent EXCEPT ![c] = {Detokenize(c, token) : token \in args[c]}]
    /\ pc' = [pc EXCEPT ![c] = "forwarded"]
    /\ seed' = [seed EXCEPT ![c] = {}]
    /\ ShowNothing
    /\ UNCHANGED <<data_protection, detector, session, args, result, found, adding,
                   since>>

Finish(c) ==
    /\ pc' = [pc EXCEPT ![c] = "idle"]
    /\ session' = [session EXCEPT ![c] = NoSession]
    /\ args' = [args EXCEPT ![c] = {}]
    /\ seed' = [seed EXCEPT ![c] = {}]
    /\ sent' = [sent EXCEPT ![c] = {}]
    /\ result' = [result EXCEPT ![c] = {}]

\* The agent sees these values, in their places, as they are.
Show(c, seen) ==
    shown' = {x \in seen : x[1] \in since[session[c]]}

\* The upstream's result goes to the agent untouched.
ReturnPlain(c, answer) ==
    /\ pc[c] = "plain"
    /\ Show(c, answer)
    /\ Finish(c)
    /\ UNCHANGED <<data_protection, vaults, detector, found, adding, since>>

\* The upstream fails: its error text, whatever it holds, goes to the agent untouched,
\* with tokenization as without.
UpstreamFails(c, text) ==
    /\ pc[c] \in {"plain", "forwarded"}
    /\ Show(c, text \X {"error"})
    /\ Finish(c)
    /\ UNCHANGED <<data_protection, vaults, detector, found, adding, since>>

\* The sidecar, if there is one, reads the whole result and finds the sensitive value or
\* misses it.
Return(c, answer, finds) ==
    /\ pc[c] = "forwarded"
    /\ finds \subseteq (IF detector THEN {x[1] : x \in answer} ELSE {})
    /\ result' = [result EXCEPT ![c] = answer]
    /\ args' = [args EXCEPT ![c] = {}]
    /\ sent' = [sent EXCEPT ![c] = {}]
    /\ found' = [found EXCEPT ![c] = finds]
    /\ pc' = [pc EXCEPT ![c] = IF finds # {} THEN "learn" ELSE "returned"]
    /\ ShowNothing
    /\ UNCHANGED <<data_protection, vaults, detector, session, seed, adding, since>>

\* `with_vault(learn)` of what was found; the vault is there already.
LearnFound(c) ==
    /\ pc[c] = "learn"
    /\ vaults' = [vaults EXCEPT ![session[c]].known = Learn(@, found[c])]
    /\ found' = [found EXCEPT ![c] = {}]
    /\ pc' = [pc EXCEPT ![c] = "returned"]
    /\ ShowNothing
    /\ UNCHANGED <<data_protection, detector, session, args, seed, sent, result, adding,
                   since>>

\* What the span search finds: learned values, and card numbers by their checksum.
Spans(text, known) == text \cap (known \cup Cards)

\* `tokenize_json` looks into strings, however deep; keys and numbers are copied.
InStrings(answer) == {v \in Values : <<v, "string">> \in answer}

\* Fault: only cards are looked for.
BadTokenized(c) == Spans(InStrings(result[c]), {})

\* The part of the result that is replaced by tokens.
Tokenized(c) == Spans(InStrings(result[c]), Vault(c).known)

\* `with_vault(tokenize_json)`, and the call returns.
Inbound(c) ==
    /\ pc[c] = "returned"
    /\ vaults' = [vaults EXCEPT ![session[c]].minted = @ \cup Tokenized(c)]
    /\ Show(c, result[c] \ (Tokenized(c) \X {"string"}))
    /\ Finish(c)
    /\ UNCHANGED <<data_protection, detector, found, adding, since>>
-----------------------------------------------------------------------------
(* The cockpit. *)

\* `add_protected`: the list, unless the value is on it ...
AddList(v) ==
    /\ adding = {}
    /\ v \notin Protected
    /\ data_protection' = Append(data_protection, v)
    /\ adding' = {v}
    /\ ShowNothing
    /\ UNCHANGED <<vaults, detector, callVars, since>>

\* ... then every vault there is.
AddVaults ==
    /\ adding # {}
    /\ vaults' = [s \in Sessions |->
                      IF vaults[s].open
                      THEN [vaults[s] EXCEPT !.known = Learn(@, adding)] ELSE vaults[s]]
    /\ adding' = {}
    /\ ShowNothing
    /\ UNCHANGED <<data_protection, detector, callVars, since>>

\* `remove_last_protected`.
RemoveLast ==
    /\ data_protection # <<>>
    /\ data_protection' = SubSeq(data_protection, 1, Len(data_protection) - 1)
    /\ since' = [s \in Sessions |-> since[s] \ {data_protection[Len(data_protection)]}]
    /\ ShowNothing
    /\ UNCHANGED <<vaults, detector, callVars, adding>>
-----------------------------------------------------------------------------
OneAtMost(S) == {{}} \cup {{v} : v \in S}

Handle(c) ==
    \/ \E s \in Sessions, token \in OneAtMost(Tokens) : Start(c, s, token)
    \/ Seed(c)
    \/ Outbound(c)
    \/ \E text \in OneAtMost(Values) : UpstreamFails(c, text)
    \/ \E answer \in OneAtMost(Results) :
           ReturnPlain(c, answer) \/ \E finds \in OneAtMost(Values) : Return(c, answer, finds)
    \/ LearnFound(c)
    \/ Inbound(c)

Next ==
    \/ \E c \in Calls : Handle(c)
    \/ \E v \in Values : AddList(v)
    \/ AddVaults
    \/ RemoveLast

Spec == Init /\ [][Next]_vars
-----------------------------------------------------------------------------
\* What an upstream should get for a token of session s in a call of session `home`.
Resolved(home, s, v) == IF s = home THEN v ELSE <<s, v>>

\* "A token only resolves in the session that minted it" (lib.rs:213): what reaches an
\* upstream in the place of a token in a string is its value exactly if the call belongs
\* to the token's session and tokenization was on when the call was authorised, however
\* many calls of that and of other sessions run meanwhile and whatever is protected or not.
TokensResolveAtHome ==
    \A c \in Calls : \A s \in Sessions : \A v \in Values :
        (pc[c] = "forwarded" /\ args[c] = {<<s, v>>}) =>
            sent[c] = {Resolved(session[c], s, v)}

\* A value that was protected before the session's first call and has been ever since
\* is never shown to the session as it is in a string of a result, unless it is too short
\* to be learned: `tokenize_json` promises "every string inside a JSON value"
\* (vault.rs:136).  That is all the code does: a protected value that an upstream puts in
\* an object key, in a number or in the text of an error is shown.
ProtectedIsTokenized ==
    \A x \in shown : x[2] = "string" => x[1] \in Short
-----------------------------------------------------------------------------
(* The inductive invariant the proofs rest on. *)

PCs == {"idle", "plain", "seed", "vault", "forwarded", "learn", "returned"}

TypeOK ==
    /\ data_protection \in Seq(Values)
    /\ vaults \in [Sessions -> [open : BOOLEAN, known : SUBSET Values, minted : SUBSET Values]]
    /\ detector \in BOOLEAN
    /\ pc \in [Calls -> PCs]
    /\ session \in [Calls -> Sessions \cup {NoSession}]
    /\ args \in [Calls -> SUBSET Tokens]
    /\ seed \in [Calls -> SUBSET Values]
    /\ DOMAIN sent = Calls
    /\ result \in [Calls -> SUBSET Results]
    /\ found \in [Calls -> SUBSET Values]
    /\ adding \subseteq Values
    /\ since \in [Sessions -> (SUBSET Values) \cup {NotBegun}]
    /\ shown \subseteq Values \X (Places \cup {"error"})

\* A call in flight has a session, which has begun; past its first use of the vault the
\* vault is there; and one that is forwarded as it is began with nothing to protect.
CallsAgree ==
    \A c \in Calls : pc[c] # "idle" =>
        /\ session[c] \in Sessions
        /\ since[session[c]] # NotBegun
        /\ pc[c] \in {"forwarded", "learn", "returned"} => Vault(c).open
        /\ pc[c] = "plain" => since[session[c]] = {}

\* A token was minted by the vault it names, which keeps it.
TokensAreMinted ==
    \A c \in Calls : \A t \in args[c] : t[2] \in vaults[t[1]].minted

\* A vault that is not there has minted nothing, and a session has none before it begins.
VaultsAgree ==
    \A s \in Sessions :
        /\ ~vaults[s].open => vaults[s].minted = {}
        /\ since[s] = NotBegun => ~vaults[s].open

\* A value protected since the session began is on the list, in the clone that a vault
\* about to be made is seeded with, and known to the vault once it is there.
SinceIsKnown ==
    /\ \A s \in Sessions : since[s] # NotBegun =>
           /\ since[s] \subseteq Protected
           /\ vaults[s].open => since[s] \subseteq vaults[s].known \cup Short
    /\ \A c \in Calls :
           (pc[c] = "vault" /\ ~Vault(c).open) => since[session[c]] \subseteq seed[c]

IInv ==
    /\ TypeOK
    /\ CallsAgree
    /\ TokensAreMinted
    /\ VaultsAgree
    /\ SinceIsKnown
    /\ TokensResolveAtHome
    /\ ProtectedIsTokenized
=============================================================================
