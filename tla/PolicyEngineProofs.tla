------------------------- MODULE PolicyEngineProofs -------------------------
(***************************************************************************)
(* The rule loop of `evaluate` computes the meaning of the policy, for     *)
(* every policy and every call: IInv is inductive, and a silent allow is   *)
(* never given to a critical action nor against a rule that objects.       *)
(***************************************************************************)
EXTENDS PolicyEngine, TLAPS

\* The rules of a policy are a sequence.
LEMMA RulesAreSequence ==
    ASSUME policy \in Policies
    PROVE  /\ Len(policy.rules) \in Nat
           /\ DOMAIN policy.rules = 1..Len(policy.rules)
BY PoliciesAssumption DEF Parsed

\* The decision of a rule, capped, is a decision, and an allow only if the rule
\* says allow and the cap is met.
LEMMA EffectiveDecisionType ==
    ASSUME policy \in Policies, NEW m \in 1..Len(policy.rules)
    PROVE  /\ EffectiveDecision(m) \in Decision
           /\ EffectiveDecision(m) = "allow" =>
                  /\ policy.rules[m].decision = "allow"
                  /\ ~CapViolated(policy.rules[m].cap, action)
<1>1. policy.rules[m].decision \in Decision
  BY RulesAreSequence, PoliciesAssumption DEF Parsed
<1> QED
  BY <1>1 DEF EffectiveDecision, RuleDecision, ApplyCap, MostRestrictive,
              Restrictiveness, Decision

\* `most_restrictive` changes the decision only for a strictly more restrictive one.
LEMMA MostRestrictiveChanges ==
    ASSUME NEW d \in Decision, NEW e \in Decision
    PROVE  /\ Restrictiveness(d) \in 0..2
           /\ MostRestrictive(d, e) # d <=> Restrictiveness(e) > Restrictiveness(d)
BY DEF MostRestrictive, Restrictiveness, Decision

\* One more rule: the rules before it, and itself if it matches.
LEMMA MatchedStep ==
    ASSUME NEW n \in Nat \ {0}
    PROVE  /\ Matched(1) = {}
           /\ Matched(n) \subseteq 1..(n - 1)
           /\ Matched(n + 1) = IF RuleMatches(policy.rules[n])
                               THEN Matched(n) \cup {n} ELSE Matched(n)
BY DEF Matched

\* The heart of the loop: what Combine makes of the outcome so far is the meaning
\* of the rules up to and including the matching rule i.
LEMMA CombineMeans ==
    ASSUME policy \in Policies, i \in 1..Len(policy.rules),
           outcome.decision \in Decision,
           outcome.sandbox \in BOOLEAN, outcome.critical \in BOOLEAN,
           RuleMatches(policy.rules[i]),
           matchedAny = (Matched(i) # {}), Means(outcome, i)
    PROVE  Means(Combine(policy.rules[i], outcome, matchedAny), i + 1)
<1> DEFINE o == Combine(policy.rules[i], outcome, matchedAny)
           wins == ~matchedAny \/ MostRestrictive(outcome.decision, EffectiveDecision(i))
                                      # outcome.decision
<1>1. Matched(i + 1) = Matched(i) \cup {i} /\ Matched(i) \subseteq 1..(i - 1)
  <2>1. i \in Nat \ {0}
    BY RulesAreSequence
  <2> QED
    BY <2>1, MatchedStep
<1>2. /\ o.decision = IF wins THEN EffectiveDecision(i) ELSE outcome.decision
      /\ o.matched_rule = IF wins THEN Some(policy.rules[i].id) ELSE outcome.matched_rule
      /\ o.sandbox = (outcome.sandbox \/ policy.rules[i].sandbox)
      /\ o.critical = (outcome.critical \/ policy.rules[i].critical)
  <2>1. policy.rules[i].sandbox \in BOOLEAN /\ policy.rules[i].critical \in BOOLEAN
    BY RulesAreSequence, PoliciesAssumption DEF Parsed
  <2>2. o = [decision |-> IF wins THEN EffectiveDecision(i) ELSE outcome.decision,
             matched_rule |-> IF wins THEN Some(policy.rules[i].id) ELSE outcome.matched_rule,
             sandbox |-> outcome.sandbox \/ policy.rules[i].sandbox,
             critical |-> outcome.critical \/ policy.rules[i].critical]
    BY Zenon DEF Combine, EffectiveDecision
  <2> HIDE DEF o, wins
  <2> QED
    BY <2>1, <2>2
<1>3. \A m \in Matched(i + 1) :
          EffectiveDecision(m) \in Decision /\ Restrictiveness(EffectiveDecision(m)) \in 0..2
  BY <1>1, EffectiveDecisionType, MostRestrictiveChanges, RulesAreSequence
<1> HIDE DEF o
<1>4. /\ o.sandbox = (\E m \in Matched(i + 1) : policy.rules[m].sandbox)
      /\ o.critical = (\E m \in Matched(i + 1) : policy.rules[m].critical)
  <2>1. /\ outcome.sandbox = (\E m \in Matched(i) : policy.rules[m].sandbox)
        /\ outcome.critical = (\E m \in Matched(i) : policy.rules[m].critical)
    BY DEF Means
  <2>2. policy.rules[i].sandbox \in BOOLEAN /\ policy.rules[i].critical \in BOOLEAN
    BY RulesAreSequence, PoliciesAssumption DEF Parsed
  <2> QED
    BY <1>1, <1>2, <2>1, <2>2
<1>5. \E w \in Matched(i + 1) :
          /\ Winner(w, i + 1)
          /\ o.decision = EffectiveDecision(w)
          /\ o.matched_rule = Some(policy.rules[w].id)
  <2>1. CASE ~matchedAny
    <3>1. Matched(i + 1) = {i}
      BY <1>1, <2>1
    <3>2. Winner(i, i + 1)
      BY <1>3, <3>1 DEF Winner
    <3> QED
      BY <1>2, <2>1, <3>1, <3>2
  <2>2. CASE matchedAny
    <3>1. PICK w \in Matched(i) :
              /\ Winner(w, i)
              /\ outcome.decision = EffectiveDecision(w)
              /\ outcome.matched_rule = Some(policy.rules[w].id)
      BY <2>2 DEF Means
    <3>2. wins <=> Restrictiveness(EffectiveDecision(i)) > Restrictiveness(EffectiveDecision(w))
      BY <1>1, <1>3, <2>2, <3>1, MostRestrictiveChanges
    <3>3. CASE wins
      <4>1. Winner(i, i + 1)
        BY <1>1, <1>3, <3>1, <3>2, <3>3 DEF Winner
      <4> QED
        BY <1>1, <1>2, <3>3, <4>1
    <3>4. CASE ~wins
      <4>1. Winner(w, i + 1)
        BY <1>1, <1>3, <3>1, <3>2, <3>4 DEF Winner
      <4> QED
        BY <1>1, <1>2, <3>1, <3>4, <4>1
    <3> QED
      BY <3>3, <3>4
  <2> QED
    BY <2>1, <2>2
<1> QED
  BY <1>1, <1>4, <1>5 DEF Means, o
\* The meaning depends on the policy and the action only, which no step changes.
LEMMA MeaningIsFixed ==
    ASSUME policy' = policy, action' = action
    PROVE  /\ Matched(i)' = Matched(i')
           /\ Means(outcome, i)' <=> Means(outcome', i')
<1>1. /\ Matched(i)' = Matched(i')
      /\ \A m : EffectiveDecision(m)' = EffectiveDecision(m)
  BY DEF Matched, EffectiveDecision
<1>2. \A w : Winner(w, i)' <=> Winner(w, i')
  BY <1>1 DEF Winner
<1> QED
  BY <1>1, <1>2 DEF Means
-----------------------------------------------------------------------------
\* IInv is inductive, action by action.
THEOREM PolicyInvariant == Spec => []IInv
<1> USE DEF IInv
<1>1. Init => IInv
  <2> SUFFICES ASSUME Init PROVE IInv
    OBVIOUS
  <2>1. TypeOK
    <3>1. policy.default \in Decision
      BY PoliciesAssumption DEF Init, Parsed
    <3> QED
      <4>1. i \in 1..(Len(policy.rules) + 1)
        BY RulesAreSequence DEF Init
      <4>2. outcome \in [decision : Decision, matched_rule : Option(RuleIds(policy)),
                        sandbox : BOOLEAN, critical : BOOLEAN]
        BY <3>1 DEF Init, Option
      <4> QED
        BY <4>1, <4>2 DEF Init, TypeOK
  <2>2. Matched(1) = {}
    BY DEF Matched
  <2>3. Means(outcome, i)
    <3>1. i = 1 /\ outcome = [decision |-> policy.default, matched_rule |-> None,
                             sandbox |-> FALSE, critical |-> FALSE]
      BY DEF Init
    <3> QED
      BY <2>2, <3>1 DEF Means
  <2> QED
    BY <2>1, <2>2, <2>3 DEF Init, LoopInv, EvaluatesToMeaning
<1>2. IInv /\ [Next]_vars => IInv'
  <2> SUFFICES ASSUME IInv, [Next]_vars PROVE IInv'
    OBVIOUS
  <2>1. Len(policy.rules) \in Nat /\ DOMAIN policy.rules = 1..Len(policy.rules)
    BY RulesAreSequence DEF TypeOK
  <2>2. CASE Load
    <3>1. TypeOK'
      BY <2>2 DEF Load, TypeOK, RuleIds
    <3>2. LoopInv'
      BY <2>2 DEF Load, TypeOK, LoopInv, ValidStructure, Matched, Means, Winner,
                  EffectiveDecision
    <3> QED
      BY <2>2, <3>1, <3>2 DEF Load, EvaluatesToMeaning
  <2>3. CASE SkipRule
    <3>1. TypeOK'
      <4>1. i + 1 \in 1..(Len(policy.rules) + 1)
        BY <2>1, <2>3 DEF SkipRule, TypeOK
      <4> QED
        BY <2>3, <4>1 DEF SkipRule, TypeOK, RuleIds
    <3>2. Matched(i + 1) = Matched(i)
      <4>1. i \in Nat \ {0}
        BY <2>1 DEF TypeOK
      <4> QED
        BY <2>3, <4>1, MatchedStep DEF SkipRule
    <3>3. Means(outcome, i + 1)
      <4>1. Means(outcome, i)
        BY <2>3 DEF SkipRule, LoopInv
      <4>2. \A w : Winner(w, i + 1) <=> Winner(w, i)
        BY <3>2 DEF Winner
      <4> QED
        BY <3>2, <4>1, <4>2, Zenon DEF Means
    <3>4. LoopInv'
      BY <2>1, <2>3, <3>2, <3>3, MeaningIsFixed DEF SkipRule, TypeOK, LoopInv
    <3> QED
      BY <2>3, <3>1, <3>4 DEF SkipRule, EvaluatesToMeaning
  <2>4. CASE MatchRule
    <3> DEFINE o == Combine(policy.rules[i], outcome, matchedAny)
    <3>1. i \in 1..Len(policy.rules) /\ i \in Nat \ {0}
      BY <2>1, <2>4 DEF MatchRule, TypeOK
    <3>2. /\ outcome.decision \in Decision
          /\ outcome.sandbox \in BOOLEAN
          /\ outcome.critical \in BOOLEAN
      BY DEF TypeOK
    <3>3. Means(o, i + 1)
      <4>1. matchedAny = (Matched(i) # {}) /\ Means(outcome, i)
        BY <2>4 DEF MatchRule, LoopInv
      <4> QED
        BY <2>4, <3>1, <3>2, <4>1, CombineMeans DEF MatchRule, TypeOK
    <3>4. Matched(i + 1) # {}
      BY <2>4, <3>1, MatchedStep DEF MatchRule
    <3>5. o \in [decision : Decision, matched_rule : Option(RuleIds(policy)),
                sandbox : BOOLEAN, critical : BOOLEAN]
      <4>1. EffectiveDecision(i) \in Decision
        BY <3>1, EffectiveDecisionType DEF TypeOK
      <4>2. /\ policy.rules[i].sandbox \in BOOLEAN
            /\ policy.rules[i].critical \in BOOLEAN
            /\ policy.rules[i].id \in RuleIds(policy)
        BY <2>1, <3>1, PoliciesAssumption DEF TypeOK, RuleIds, Parsed
      <4>3. /\ Some(policy.rules[i].id) \in Option(RuleIds(policy))
            /\ outcome.matched_rule \in Option(RuleIds(policy))
        BY <4>2 DEF TypeOK, Option
      <4> HIDE DEF IInv
      <4> QED
        BY <3>2, <4>1, <4>2, <4>3 DEF Combine, EffectiveDecision
    <3> HIDE DEF o
    <3>6. TypeOK'
      <4>1. i + 1 \in 1..(Len(policy.rules) + 1)
        BY <2>1, <3>1
      <4> QED
        BY <2>4, <4>1, <3>5 DEF MatchRule, TypeOK, RuleIds, o
    <3>7. LoopInv'
      <4>1. /\ pc' = "loop" /\ i' = i + 1 /\ outcome' = o /\ matchedAny' = TRUE
            /\ policy' = policy /\ action' = action
        BY <2>4 DEF MatchRule, o
      <4>2. Means(outcome, i)' /\ Matched(i)' # {}
        BY <3>3, <3>4, <4>1, MeaningIsFixed
      <4>3. policy.default # "allow"
        BY <2>4 DEF MatchRule, LoopInv
      <4> QED
        BY <4>1, <4>2, <4>3 DEF LoopInv
    <3> QED
      BY <2>4, <3>6, <3>7 DEF MatchRule, EvaluatesToMeaning
  <2>5. CASE EndLoop
    <3>1. TypeOK'
      BY <2>5 DEF EndLoop, TypeOK, RuleIds
    <3>2. LoopInv'
      BY <2>1, <2>5, MeaningIsFixed DEF EndLoop, TypeOK, LoopInv
    <3> QED
      BY <2>5, <3>1, <3>2 DEF EndLoop, EvaluatesToMeaning
  <2>6. CASE Floor
    <3>1. TypeOK'
      <4>1. "critical-category-floor" \in RuleIds(policy)
        BY DEF RuleIds
      <4>2. Some("critical-category-floor") \in Option(RuleIds(policy))
        BY <4>1 DEF Option
      <4>3. FloorOutcome(outcome, action) \in
                [decision : Decision, matched_rule : Option(RuleIds(policy)),
                 sandbox : BOOLEAN, critical : BOOLEAN]
        BY <4>2 DEF TypeOK, FloorOutcome, Decision
      <4> QED
        BY <2>6, <4>3 DEF Floor, TypeOK, RuleIds
    <3>2. LoopInv'
      BY <2>6 DEF Floor, LoopInv
    <3>3. EvaluatesToMeaning'
      <4> DEFINE n == Len(policy.rules) + 1
                 o == outcome'
      <4>1. /\ policy' = policy /\ action' = action /\ i = n
            /\ o = FloorOutcome(outcome, action)
            /\ Means(outcome, n)
            /\ policy.default # "allow"
        BY <2>6 DEF Floor, LoopInv
      <4>2. /\ Matched(n)' = Matched(n)
            /\ \A m : EffectiveDecision(m)' = EffectiveDecision(m)
        BY <4>1 DEF Matched, EffectiveDecision
      <4>3. \A w : Winner(w, n)' <=> Winner(w, n)
        BY <4>1, <4>2 DEF Winner
      <4>4. /\ o.sandbox = outcome.sandbox
            /\ IsCritical(action) => o.critical = TRUE
            /\ ~IsCritical(action) => o.critical = outcome.critical
            /\ IF IsCritical(action) /\ outcome.decision = "allow"
               THEN /\ o.decision = "ask"
                    /\ o.matched_rule = Some("critical-category-floor")
               ELSE /\ o.decision = outcome.decision
                    /\ o.matched_rule = outcome.matched_rule
        BY <4>1 DEF FloorOutcome, TypeOK
      <4> HIDE DEF n, o
      <4> QED
        BY <4>1, <4>2, <4>3, <4>4, ZenonT(60) DEF EvaluatesToMeaning, Means, TypeOK, n, o
    <3> QED
      BY <3>1, <3>2, <3>3
  <2>7. CASE UNCHANGED vars
    <3>1. TypeOK'
      BY <2>7 DEF vars, TypeOK, RuleIds
    <3>2. LoopInv'
      BY <2>7, Zenon DEF vars, LoopInv, Matched, Means, Winner, EffectiveDecision
    <3>3. EvaluatesToMeaning'
      BY <2>7, Zenon DEF vars, EvaluatesToMeaning, Matched, Winner, EffectiveDecision
    <3> QED
      BY <3>1, <3>2, <3>3
  <2> QED
    BY <2>2, <2>3, <2>4, <2>5, <2>6, <2>7 DEF Next
<1> QED
  BY <1>1, <1>2, PTL DEF Spec
\* The state is well typed, and an evaluation ends in the meaning of the policy.
THEOREM EvaluationIsMeaning == Spec => [](TypeOK /\ EvaluatesToMeaning)
<1>1. IInv => TypeOK /\ EvaluatesToMeaning
  BY DEF IInv
<1> QED
  BY <1>1, PolicyInvariant, PTL

\* A met cap has its arguments within the limits, or NaN.
LEMMA CapMet ==
    ASSUME policy \in Policies, call \in ToolCalls, action = BuildAction(call),
           NEW m \in 1..Len(policy.rules),
           ~CapViolated(policy.rules[m].cap, action)
    PROVE  LET cap == policy.rules[m].cap IN
           /\ Within(cap.amount_max, action.args.amount) \/ IsNaN(action.args.amount)
           /\ Within(cap.count_max, action.args.count) \/ IsNaN(action.args.count)
           /\ cap.currency # None => action.args.currency = cap.currency
<1>1. /\ action.args.amount.f \in SUBSET Float
      /\ action.args.count.f \in SUBSET Float
  BY ToolCallsAssumption DEF BuildAction
<1>2. /\ policy.rules[m].cap.amount_max \in SUBSET Int
      /\ policy.rules[m].cap.count_max \in SUBSET Int
  BY RulesAreSequence, PoliciesAssumption DEF Parsed
<1>3. ASSUME NEW limit \in SUBSET Int, NEW arg, arg.f \in SUBSET Float,
             ~OverLimit(limit, arg)
      PROVE  Within(limit, arg) \/ IsNaN(arg)
  <2> SUFFICES ASSUME NEW max \in limit, ~IsNaN(arg)
               PROVE  /\ arg.json \in {"number", "string"}
                      /\ \E x \in arg.f : x # NaN /\ x <= max
    BY DEF Within
  <2>1. PICK x \in ArgNumber(arg) : ~Greater(x, max)
    BY <1>3 DEF OverLimit
  <2>2. arg.json \in {"number", "string"} /\ x \in arg.f
    BY <2>1 DEF ArgNumber, None
  <2>3. x # NaN /\ x <= max
    BY <1>3, <2>1, <2>2 DEF Greater, Float, IsNaN
  <2> QED
    BY <2>2, <2>3
<1> QED
  BY <1>1, <1>2, <1>3 DEF CapViolated

\* A silent allow is unanimous, verified to be within its caps unless the argument is
\* NaN, and not critical: in particular no policy, however written, lets a critical
\* action through without a human.
THEOREM AllowsAreJustified == Spec => []AllowIsUnanimous
<1>1. IInv => AllowIsUnanimous
  <2> SUFFICES ASSUME IInv, pc = "done", outcome.decision = "allow",
                      NEW n, n = Len(policy.rules) + 1
               PROVE  /\ Matched(n) # {}
                      /\ \A m \in Matched(n) :
                             LET rule == policy.rules[m] IN
                             /\ rule.decision = "allow"
                             /\ Within(rule.cap.amount_max, action.args.amount)
                                    \/ IsNaN(action.args.amount)
                             /\ Within(rule.cap.count_max, action.args.count)
                                    \/ IsNaN(action.args.count)
                             /\ rule.cap.currency # None =>
                                    action.args.currency = rule.cap.currency
                      /\ ~IsCritical(action)
    BY DEF AllowIsUnanimous, Allowed
  <2>1. /\ policy \in Policies /\ call \in ToolCalls /\ action = BuildAction(call)
        /\ policy.default # "allow"
    BY DEF IInv, TypeOK, LoopInv
  <2>2. Matched(n) # {}
    BY <2>1 DEF IInv, EvaluatesToMeaning
  <2>3. PICK w \in Matched(n) :
            Winner(w, n) /\ EffectiveDecision(w) = "allow" /\ ~IsCritical(action)
    BY <2>2 DEF IInv, EvaluatesToMeaning
  <2>4. ASSUME NEW m \in Matched(n)
        PROVE  m \in 1..Len(policy.rules) /\ EffectiveDecision(m) = "allow"
    <3>1. m \in 1..Len(policy.rules)
      BY <2>1, RulesAreSequence DEF Matched
    <3>2. EffectiveDecision(m) \in Decision
      BY <2>1, <3>1, EffectiveDecisionType
    <3>3. Restrictiveness(EffectiveDecision(m)) <= Restrictiveness("allow")
      BY <2>3 DEF Winner
    <3> QED
      BY <3>1, <3>2, <3>3 DEF Restrictiveness, Decision
  <2>5. ASSUME NEW m \in Matched(n)
        PROVE  policy.rules[m].decision = "allow" /\ ~CapViolated(policy.rules[m].cap, action)
    BY <2>1, <2>4, EffectiveDecisionType
  <2> QED
    BY <2>1, <2>2, <2>3, <2>4, <2>5, CapMet
<1> QED
  BY <1>1, PolicyInvariant, PTL

\* The effective decisions of the matching rules, and the most restrictive of them.
LEMMA WinnerDecides ==
    ASSUME IInv, NEW n, n = Len(policy.rules) + 1, NEW w \in Matched(n), Winner(w, n)
    PROVE  LET decisions == {EffectiveDecision(m) : m \in Matched(n)} IN
           /\ decisions \subseteq Decision /\ EffectiveDecision(w) \in decisions
           /\ EffectiveDecision(w) = "deny" <=> "deny" \in decisions
           /\ EffectiveDecision(w) = "allow" <=> decisions = {"allow"}
<1> DEFINE decisions == {EffectiveDecision(m) : m \in Matched(n)}
<1>1. ASSUME NEW m \in Matched(n)
      PROVE  /\ EffectiveDecision(m) \in Decision
             /\ Restrictiveness(EffectiveDecision(m)) <= Restrictiveness(EffectiveDecision(w))
  <2>1. policy \in Policies /\ m \in 1..Len(policy.rules)
    BY RulesAreSequence DEF IInv, TypeOK, Matched
  <2>2. EffectiveDecision(m) \in Decision
    BY <2>1, EffectiveDecisionType
  <2> QED
    BY <2>2 DEF Winner
<1>2. \A d \in decisions : d \in Decision /\ Restrictiveness(d) <= Restrictiveness(EffectiveDecision(w))
  BY <1>1
<1>3. EffectiveDecision(w) \in decisions
  OBVIOUS
<1> HIDE DEF decisions
<1>4. "deny" \in decisions => EffectiveDecision(w) = "deny"
  BY <1>2, <1>3 DEF Restrictiveness, Decision
<1>5. EffectiveDecision(w) = "allow" => decisions = {"allow"}
  BY <1>2, <1>3 DEF Restrictiveness, Decision
<1> QED
  BY <1>2, <1>3, <1>4, <1>5 DEF decisions

\* The decision of any policy for any call is a function of which rules match, not of the
\* order in which the file lists them.
THEOREM RuleOrderIsIrrelevant == Spec => []OrderIsIrrelevant
<1>1. IInv => OrderIsIrrelevant
  <2> SUFFICES ASSUME IInv, pc = "done",
                      NEW n, n = Len(policy.rules) + 1,
                      NEW decisions, decisions = {EffectiveDecision(m) : m \in Matched(n)}
               PROVE  outcome.decision =
                          CASE decisions = {} -> policy.default
                            [] "deny" \in decisions -> "deny"
                            [] decisions = {"allow"} /\ ~IsCritical(action) -> "allow"
                            [] OTHER -> "ask"
    BY DEF OrderIsIrrelevant
  <2>1. CASE Matched(n) = {}
    <3>1. outcome.decision = policy.default
      BY <2>1 DEF IInv, EvaluatesToMeaning
    <3>2. decisions = {}
      BY <2>1
    <3> QED
      BY <3>1, <3>2
  <2>2. CASE Matched(n) # {}
    <3>1. PICK w \in Matched(n) :
              /\ Winner(w, n)
              /\ outcome.decision = IF IsCritical(action) /\ EffectiveDecision(w) = "allow"
                                    THEN "ask" ELSE EffectiveDecision(w)
      BY <2>2 DEF IInv, EvaluatesToMeaning
    <3>2. /\ EffectiveDecision(w) \in decisions /\ EffectiveDecision(w) \in Decision
          /\ EffectiveDecision(w) = "deny" <=> "deny" \in decisions
          /\ EffectiveDecision(w) = "allow" <=> decisions = {"allow"}
      BY <3>1, WinnerDecides
    <3> QED
      BY <3>1, <3>2 DEF Decision
  <2> QED
    BY <2>1, <2>2
<1> QED
  BY <1>1, PolicyInvariant, PTL

\* What the gateway and the egress proxy assume of an evaluation (Gateway!EvaluatesTo,
\* Proxy!EvaluatesTo) is what the engine does, for every policy and every call.
THEOREM EvaluationIsExpected == Spec => []OutcomeIsExpected
<1>1. IInv => OutcomeIsExpected
  <2> SUFFICES ASSUME IInv, pc = "done"
               PROVE  <<outcome.decision, outcome.critical>> \in Outcomes(IsCritical(action))
    BY DEF OutcomeIsExpected
  <2>1. outcome.decision \in Decision /\ outcome.critical \in BOOLEAN /\ policy.default # "allow"
    BY DEF IInv, TypeOK, LoopInv
  <2>2. IsCritical(action) => outcome.critical = TRUE /\ outcome.decision # "allow"
    <3> SUFFICES ASSUME IsCritical(action)
                 PROVE  outcome.critical = TRUE /\ outcome.decision # "allow"
      OBVIOUS
    <3>1. outcome.critical = TRUE
      BY DEF IInv, EvaluatesToMeaning
    <3>2. outcome.decision # "allow"
      BY <2>1 DEF IInv, EvaluatesToMeaning
    <3> QED
      BY <3>1, <3>2
  <2> QED
    BY <2>1, <2>2 DEF Outcomes, Decision
<1> QED
  BY <1>1, PolicyInvariant, PTL
=============================================================================
