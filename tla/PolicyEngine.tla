---------------------------- MODULE PolicyEngine ----------------------------
(***************************************************************************)
(* The deterministic policy engine (crates/guardian-policy/src/schema.rs   *)
(* and engine.rs): a policy is loaded or rejected, then an action is       *)
(* evaluated rule by rule.  One behaviour is one policy and one call,      *)
(* chosen freely; each iteration of the rule loop is one step, so that the *)
(* loop is checked, and proved, against what the policy as a whole means.  *)
(*                                                                         *)
(* A rule's CEL condition is what it evaluates to for the call: "true",    *)
(* "false", "error" (an absent field, a non-boolean), or "invalid" if it   *)
(* does not compile.  Reasons and explanations are wording.                *)
(***************************************************************************)
EXTENDS Actions, Integers, Sequences

CONSTANTS
    Policies,  \* the policies considered: records with version, default, rules
    ToolCalls, \* the calls considered: records with tool, kind, capability, args
    NaN        \* the float that is not a number

Float == Int \cup {NaN}

ASSUME NaNAssumption == NaN \notin Int

\* What parsing the TOML gives: `policy.rules` is a list of rules with id, `when`,
\* decision, flags and cap; the limits of a cap are numbers.
Parsed(p) ==
    /\ p.default \in Decision
    /\ p.rules \in Seq({p.rules[n] : n \in DOMAIN p.rules})
    /\ \A n \in DOMAIN p.rules :
           /\ p.rules[n].decision \in Decision
           /\ p.rules[n].critical \in BOOLEAN
           /\ p.rules[n].sandbox \in BOOLEAN
           /\ p.rules[n].cap.amount_max \in SUBSET Int
           /\ p.rules[n].cap.count_max \in SUBSET Int

ASSUME PoliciesAssumption == \A p \in Policies : Parsed(p)

\* A JSON argument is [json, f]: `f` is the number it is, or the number the string
\* parses to as an f64, if any.  A currency is an Option, taken up to ASCII case.
ASSUME ToolCallsAssumption ==
    \A c \in ToolCalls :
        c.args.amount.f \in SUBSET Float /\ c.args.count.f \in SUBSET Float

VARIABLES
    policy, call, action,
    pc,          \* "load", "rejected", "loop", "floor", "done"
    i,           \* the rule the loop looks at next
    outcome,     \* EvalOutcome
    matchedAny

vars == <<policy, call, action, pc, i, outcome, matchedAny>>
-----------------------------------------------------------------------------
(* Loading: `validate_structure` and `compile`. *)

DistinctIds(rules) ==
    \A m, n \in DOMAIN rules : m # n => rules[m].id # rules[n].id

ValidStructure(p) ==
    /\ p.version = 1
    /\ p.default # "allow"
    /\ DistinctIds(p.rules)

Compiles(p) == \A n \in DOMAIN p.rules : p.rules[n].when # "invalid"
-----------------------------------------------------------------------------
(* Evaluating one rule. *)

\* Anything but the boolean true is no match.
RuleMatches(rule) == rule.when = "true"

\* `arg_number`: a JSON number, or a string that parses as an f64 (which "NaN" does).
ArgNumber(arg) == IF arg.json \in {"number", "string"} THEN arg.f ELSE None

\* The f64 comparison `x > max`: false of NaN.
Greater(x, max) == x # NaN /\ x > max

\* Faults (definitions named Bad...) that the properties below must detect; no
\* specification uses them.  Here: a missing argument passes the cap.
BadOverLimitMissingPasses(limit, arg) ==
    \E max \in limit : \E x \in ArgNumber(arg) : Greater(x, max)

\* Over the limit, or no number to compare with it.
OverLimit(limit, arg) ==
    \E max \in limit : \A x \in ArgNumber(arg) : Greater(x, max)

CapViolated(cap, a) ==
    \/ OverLimit(cap.amount_max, a.args.amount)
    \/ OverLimit(cap.count_max, a.args.count)
    \/ cap.currency # None /\ a.args.currency # cap.currency

ApplyCap(rule, a, decision) ==
    IF CapViolated(rule.cap, a) THEN MostRestrictive(decision, "ask") ELSE decision

RuleDecision(rule, a) == ApplyCap(rule, a, rule.decision)
-----------------------------------------------------------------------------
Init ==
    /\ policy \in Policies
    /\ call \in ToolCalls
    /\ action = BuildAction(call)
    /\ pc = "load"
    /\ i = 1
    /\ outcome = [decision |-> policy.default, matched_rule |-> None,
                  sandbox |-> FALSE, critical |-> FALSE]
    /\ matchedAny = FALSE

Load ==
    /\ pc = "load"
    /\ pc' = IF ValidStructure(policy) /\ Compiles(policy) THEN "loop" ELSE "rejected"
    /\ UNCHANGED <<policy, call, action, i, outcome, matchedAny>>

SkipRule ==
    /\ pc = "loop"
    /\ i <= Len(policy.rules)
    /\ ~RuleMatches(policy.rules[i])
    /\ i' = i + 1
    /\ UNCHANGED <<policy, call, action, pc, outcome, matchedAny>>

\* Fault: on a tie the later rule takes over.
BadCombineTieToLater(rule, o, any) ==
    LET d == RuleDecision(rule, action)
        wins == ~any \/ Restrictiveness(d) >= Restrictiveness(o.decision)
    IN [decision |-> IF wins THEN d ELSE o.decision,
        matched_rule |-> IF wins THEN Some(rule.id) ELSE o.matched_rule,
        sandbox |-> o.sandbox \/ rule.sandbox,
        critical |-> o.critical \/ rule.critical]

\* The outcome after a matching rule.
Combine(rule, o, any) ==
    LET d == RuleDecision(rule, action)
        wins == ~any \/ MostRestrictive(o.decision, d) # o.decision
    IN [decision |-> IF wins THEN d ELSE o.decision,
        matched_rule |-> IF wins THEN Some(rule.id) ELSE o.matched_rule,
        sandbox |-> o.sandbox \/ rule.sandbox,
        critical |-> o.critical \/ rule.critical]

MatchRule ==
    /\ pc = "loop"
    /\ i <= Len(policy.rules)
    /\ RuleMatches(policy.rules[i])
    /\ outcome' = Combine(policy.rules[i], outcome, matchedAny)
    /\ matchedAny' = TRUE
    /\ i' = i + 1
    /\ UNCHANGED <<policy, call, action, pc>>

EndLoop ==
    /\ pc = "loop"
    /\ i > Len(policy.rules)
    /\ pc' = "floor"
    /\ UNCHANGED <<policy, call, action, i, outcome, matchedAny>>

\* The critical-category floor.
FloorOutcome(o, a) ==
    IF ~IsCritical(a) THEN o
    ELSE [o EXCEPT !.critical = TRUE,
                   !.decision = IF @ = "allow" THEN "ask" ELSE @,
                   !.matched_rule = IF o.decision = "allow"
                                    THEN Some("critical-category-floor") ELSE @]

Floor ==
    /\ pc = "floor"
    /\ outcome' = FloorOutcome(outcome, action)
    /\ pc' = "done"
    /\ UNCHANGED <<policy, call, action, i, matchedAny>>

Next == Load \/ SkipRule \/ MatchRule \/ EndLoop \/ Floor

Spec == Init /\ [][Next]_vars
-----------------------------------------------------------------------------
(* What a policy means, without the loop. *)

RuleIds(p) == {p.rules[n].id : n \in DOMAIN p.rules} \cup {"critical-category-floor"}

TypeOK ==
    /\ policy \in Policies
    /\ call \in ToolCalls
    /\ action = BuildAction(call)
    /\ pc \in {"load", "rejected", "loop", "floor", "done"}
    /\ i \in 1..(Len(policy.rules) + 1)
    /\ outcome \in [decision : Decision, matched_rule : Option(RuleIds(policy)),
                    sandbox : BOOLEAN, critical : BOOLEAN]
    /\ matchedAny \in BOOLEAN

\* The rules before n that match.
Matched(n) == {m \in 1..(n - 1) : RuleMatches(policy.rules[m])}

EffectiveDecision(m) == RuleDecision(policy.rules[m], action)

\* w is the first of the most restrictive matching rules before n.
Winner(w, n) ==
    /\ w \in Matched(n)
    /\ \A m \in Matched(n) :
           /\ Restrictiveness(EffectiveDecision(m)) <= Restrictiveness(EffectiveDecision(w))
           /\ m < w => Restrictiveness(EffectiveDecision(m)) < Restrictiveness(EffectiveDecision(w))

\* The outcome o of the rules before n, before the floor.
Means(o, n) ==
    /\ o.sandbox = (\E m \in Matched(n) : policy.rules[m].sandbox)
    /\ o.critical = (\E m \in Matched(n) : policy.rules[m].critical)
    /\ Matched(n) = {} => o.decision = policy.default /\ o.matched_rule = None
    /\ Matched(n) # {} =>
           \E w \in Matched(n) :
               /\ Winner(w, n)
               /\ o.decision = EffectiveDecision(w)
               /\ o.matched_rule = Some(policy.rules[w].id)

\* Most-restrictive-wins (docs/policy-schema.md, section 4), whatever the order of
\* the rules: the default if nothing matched, otherwise the decision of the most
\* restrictive matching rule, capped, floored to `ask` for a critical action that
\* every rule allows; the first rule that decides is named, and the sandbox and
\* critical flags are those of all matching rules.
EvaluatesToMeaning ==
    pc = "done" =>
        LET n == Len(policy.rules) + 1 IN
        /\ outcome.sandbox = (\E m \in Matched(n) : policy.rules[m].sandbox)
        /\ outcome.critical =
               (IsCritical(action) \/ \E m \in Matched(n) : policy.rules[m].critical)
        /\ Matched(n) = {} =>
               outcome.decision = policy.default /\ outcome.matched_rule = None
        /\ Matched(n) # {} =>
               \E w \in Matched(n) :
                   /\ Winner(w, n)
                   /\ IF IsCritical(action) /\ EffectiveDecision(w) = "allow"
                      THEN /\ outcome.decision = "ask"
                           /\ outcome.matched_rule = Some("critical-category-floor")
                      ELSE /\ outcome.decision = EffectiveDecision(w)
                           /\ outcome.matched_rule = Some(policy.rules[w].id)

\* The decision is that of the set of matching rules: where a rule stands in the file,
\* and how often it is repeated, does not change what is allowed.
OrderIsIrrelevant ==
    pc = "done" =>
        LET decisions == {EffectiveDecision(m) : m \in Matched(Len(policy.rules) + 1)} IN
        outcome.decision =
            CASE decisions = {} -> policy.default
              [] "deny" \in decisions -> "deny"
              [] decisions = {"allow"} /\ ~IsCritical(action) -> "allow"
              [] OTHER -> "ask"

\* Whatever the policy, an evaluation ends in one of the outcomes the gateway and the
\* egress proxy are modelled to get: a critical action is flagged, and not allowed.
OutcomeIsExpected ==
    pc = "done" => <<outcome.decision, outcome.critical>> \in Outcomes(IsCritical(action))

\* The limit was verified: the argument is a number (by JSON type or by parsing) that is
\* known not to exceed it.
Within(limit, arg) ==
    \A max \in limit :
        arg.json \in {"number", "string"} /\ \E x \in arg.f : x # NaN /\ x <= max

\* The argument is a string that parses as the float that is not a number.
IsNaN(arg) == arg.json \in {"number", "string"} /\ NaN \in arg.f

Allowed == pc = "done" /\ outcome.decision = "allow"

\* A silent allow has a reason: some rule matched, every matching rule allows and has
\* its caps met by arguments that are there, and the action is not in a critical
\* category, whatever the policy says.  The one exception is an argument that is NaN,
\* which no cap stops (CapsAreVerified).
AllowIsUnanimous ==
    Allowed =>
        LET n == Len(policy.rules) + 1
            args == action.args
        IN
        /\ Matched(n) # {}
        /\ \A m \in Matched(n) :
               LET rule == policy.rules[m] IN
               /\ rule.decision = "allow"
               /\ Within(rule.cap.amount_max, args.amount) \/ IsNaN(args.amount)
               /\ Within(rule.cap.count_max, args.count) \/ IsNaN(args.count)
               /\ rule.cap.currency # None => args.currency = rule.cap.currency
        /\ ~IsCritical(action)

\* What `cap_violated` says of itself (engine.rs:183): a limit that cannot be verified,
\* its argument "missing or non-numeric", is treated as a violation, so no action is
\* allowed silently unless the limits of every rule that matches it are verified.  The
\* code does not do this: "NaN" parses as an f64 and is not greater than any limit.
CapsAreVerified ==
    Allowed => \A m \in Matched(Len(policy.rules) + 1) :
        LET cap == policy.rules[m].cap IN
        /\ Within(cap.amount_max, action.args.amount)
        /\ Within(cap.count_max, action.args.count)

\* The loop invariant the proofs rest on: the outcome so far is the meaning of the
\* rules so far.
LoopInv ==
    /\ pc # "load" => policy.default # "allow" \/ pc = "rejected"
    /\ pc \in {"load", "rejected"} => i = 1 /\ ~matchedAny
    /\ pc \in {"floor", "done"} => i = Len(policy.rules) + 1
    /\ pc # "done" => matchedAny = (Matched(i) # {}) /\ Means(outcome, i)

IInv == TypeOK /\ LoopInv /\ EvaluatesToMeaning

=============================================================================
