--------------------------- MODULE CockpitProofs ---------------------------
(***************************************************************************)
(* The cockpit and the vaults its protect screen fills, for instances of   *)
(* any size.  First the cockpit: for any asks, restarts and cards, an      *)
(* answer handled before the next refresh reaches the action it was aimed  *)
(* at, and a panic that was heard leaves nothing it listed waiting.  Then  *)
(* the vaults: for any calls, sessions, values and changes of the list, a  *)
(* token resolves only in the session that minted it, and the strings of a *)
(* result show no protected value.  The two specifications share no state; *)
(* each theorem names its own.                                             *)
(***************************************************************************)
EXTENDS Cockpit, SessionVaults, FiniteSetTheorems, TLAPS

-----------------------------------------------------------------------------
(* The cockpit. *)

LEMMA RangeIs ==
  ASSUME NEW S, NEW s \in Seq(S)
  PROVE  /\ Range(s) \subseteq S
         /\ Range(<<>>) = {}
         /\ s # <<>> => /\ Head(s) \in S /\ Tail(s) \in Seq(S)
                        /\ Range(s) = {Head(s)} \cup Range(Tail(s))
<1>1. Range(s) \subseteq S
  BY DEF Range
<1>2. Range(<<>>) = {}
  BY DEF Range
<1>3. ASSUME s # <<>>
      PROVE  /\ Head(s) \in S /\ Tail(s) \in Seq(S)
             /\ Range(s) = {Head(s)} \cup Range(Tail(s))
  <2>1. Len(s) \in Nat \ {0} /\ DOMAIN s = 1..Len(s)
    BY <1>3
  <2>2. Head(s) = s[1] /\ Tail(s) \in Seq(S) /\ Len(Tail(s)) = Len(s) - 1
        /\ DOMAIN Tail(s) = 1..(Len(s) - 1)
    BY <1>3, <2>1
  <2>3. \A i \in 1..(Len(s) - 1) : Tail(s)[i] = s[i + 1]
    BY <1>3, <2>1
  <2>4. \A i \in 2..Len(s) : i - 1 \in 1..(Len(s) - 1) /\ Tail(s)[i - 1] = s[i]
    <3> SUFFICES ASSUME NEW i \in 2..Len(s)
                 PROVE  i - 1 \in 1..(Len(s) - 1) /\ Tail(s)[i - 1] = s[i]
      OBVIOUS
    <3>1. i - 1 \in 1..(Len(s) - 1) /\ (i - 1) + 1 = i
      BY <2>1
    <3> QED
      BY <2>3, <3>1
  <2>5. \A i \in 1..Len(s) : i = 1 \/ i \in 2..Len(s)
    BY <2>1
  <2>6. Range(s) \subseteq {Head(s)} \cup Range(Tail(s))
    <3> SUFFICES ASSUME NEW i \in 1..Len(s)
                 PROVE  s[i] \in {Head(s)} \cup Range(Tail(s))
      BY <2>1 DEF Range
    <3>1. CASE i = 1
      BY <2>2, <3>1
    <3>2. CASE i \in 2..Len(s)
      <4>1. Tail(s)[i - 1] \in Range(Tail(s))
        BY <2>2, <2>4, <3>2 DEF Range
      <4> QED
        BY <2>4, <3>2, <4>1
    <3> QED
      BY <2>5, <3>1, <3>2
  <2>7. {Head(s)} \cup Range(Tail(s)) \subseteq Range(s)
    <3>1. 1 \in 1..Len(s) /\ \A i \in 1..(Len(s) - 1) : i + 1 \in 1..Len(s)
      BY <2>1
    <3> QED
      BY <2>1, <2>2, <2>3, <3>1 DEF Range
  <2>8. Head(s) \in S
    BY <2>1, <2>2
  <2> QED
    BY <2>2, <2>6, <2>7, <2>8
<1> QED
  BY <1>1, <1>2, <1>3

\* What a poll lists is the map's entries, in some order.
LEMMA ListingIs ==
  ASSUME NEW S, IsFiniteSet(S), NEW s \in Listings(S)
  PROVE  s \in Seq(S) /\ Range(s) = S
BY FS_CardinalityType DEF Listings

\* The requests a handler makes; only an answer owes anything.
LEMMA CallsAre ==
  /\ <<>> \in Seq(Call) /\ Answering(<<>>) = {}
  /\ RefreshCalls \in Seq(Call) /\ Answering(RefreshCalls) = {}
  /\ <<[rpc |-> "protect"]>> \in Seq(Call) /\ Answering(<<[rpc |-> "protect"]>>) = {}
  /\ <<[rpc |-> "unprotect"]>> \in Seq(Call) /\ Answering(<<[rpc |-> "unprotect"]>>) = {}
<1>1. <<>> \in Seq(Call) /\ Answering(<<>>) = {}
  BY DEF Answering, Range
<1>2. ASSUME NEW call \in Call, call.rpc # "respond"
      PROVE  <<call>> \in Seq(Call) /\ Answering(<<call>>) = {}
  BY <1>2 DEF Answering, Range
<1>3. /\ [rpc |-> "pending"] \in Call /\ [rpc |-> "vault_status"] \in Call
      /\ [rpc |-> "protect"] \in Call /\ [rpc |-> "unprotect"] \in Call
  BY DEF Call
<1>4. RefreshCalls \in Seq(Call) /\ Answering(RefreshCalls) = {}
  BY <1>3 DEF RefreshCalls, Answering, Range
<1> QED
  BY <1>1, <1>2, <1>3, <1>4

LEMMA NoneOwed == ASSUME NEW calls, Answering(calls) = {} PROVE CallsAimed(calls)
BY DEF Answering, CallsAimed

LEMMA ThreeCalls ==
  ASSUME NEW S, NEW a \in S, NEW b \in S, NEW c \in S
  PROVE  /\ <<a>> \o <<b, c>> \in Seq(S)
         /\ Range(<<a>> \o <<b, c>>) = {a, b, c}
<1> DEFINE s == <<a>> \o <<b, c>>
<1>1. s \in Seq(S) /\ DOMAIN s = 1..3 /\ s[1] = a /\ s[2] = b /\ s[3] = c
  OBVIOUS
<1>2. 1..3 = {1, 2, 3}
  OBVIOUS
<1> HIDE DEF s
<1>3. Range(s) = {s[1], s[2], s[3]}
  BY <1>1, <1>2, Zenon DEF Range
<1> QED
  BY <1>1, <1>3 DEF s

LEMMA AnswerIs ==
  ASSUME NEW card \in Card, NEW allow \in BOOLEAN, NEW aim \in SUBSET Asks, NEW late \in BOOLEAN,
         late \/ aim = {card.action}
  PROVE  LET answer == [rpc |-> "respond", card |-> card, allow |-> allow, aim |-> aim,
                        late |-> late]
             calls == <<answer>> \o RefreshCalls
         IN calls \in Seq(Call) /\ Answering(calls) = {card} /\ CallsAimed(calls)
<1> DEFINE answer == [rpc |-> "respond", card |-> card, allow |-> allow, aim |-> aim,
                      late |-> late]
           calls == <<answer>> \o RefreshCalls
<1>1. /\ answer \in Call /\ answer.rpc = "respond" /\ answer.card = card
      /\ answer.late = late /\ answer.aim = aim
  BY DEF Call
<1>2. /\ [rpc |-> "pending"] \in Call /\ [rpc |-> "vault_status"] \in Call
  BY DEF Call
<1> DEFINE poll == [rpc |-> "pending"]
           count == [rpc |-> "vault_status"]
<1>3. poll.rpc # "respond" /\ count.rpc # "respond" /\ RefreshCalls = <<poll, count>>
  BY DEF RefreshCalls
<1> HIDE DEF answer, poll, count
<1>4. calls \in Seq(Call)
  BY <1>1, <1>2, <1>3, ThreeCalls DEF poll, count
<1>5. Range(calls) = {answer, poll, count}
  BY <1>1, <1>2, <1>3, ThreeCalls DEF poll, count
<1>6. Answering(calls) = {card}
  BY <1>1, <1>3, <1>5 DEF Answering
<1>7. CallsAimed(calls)
  BY <1>1, <1>3, <1>5 DEF CallsAimed
<1> QED
  BY <1>4, <1>6, <1>7 DEF answer

\* One request less to make.
LEMMA RpcIs ==
  ASSUME CockpitTypeOK, NEW name, NEW asked, NEW heard, Rpc(name, asked, heard)
  PROVE  /\ todo # <<>> /\ todo' \in Seq(Call) /\ Head(todo) \in Call
         /\ Head(todo).rpc = name
         /\ Answering(todo) = Answering(todo') \cup
                (IF name = "respond" THEN {Head(todo).card} ELSE {})
         /\ CallsAimed(todo) => CallsAimed(todo')
<1>1. todo \in Seq(Call) /\ todo # <<>> /\ todo' = Tail(todo) /\ Head(todo).rpc = name
  BY DEF CockpitTypeOK, Rpc
<1>2. Head(todo) \in Call /\ Tail(todo) \in Seq(Call)
      /\ Range(todo) = {Head(todo)} \cup Range(Tail(todo))
  BY <1>1, RangeIs
<1>3. Answering(todo) = Answering(Tail(todo)) \cup
          {c.card : c \in {d \in {Head(todo)} : d.rpc = "respond"}}
  BY <1>2, Zenon DEF Answering
<1>4. CallsAimed(todo) => CallsAimed(todo')
  BY <1>1, <1>2 DEF CallsAimed
<1>5. CASE name = "respond"
  BY <1>1, <1>2, <1>3, <1>4, <1>5
<1>6. CASE name # "respond"
  BY <1>1, <1>2, <1>3, <1>4, <1>6
<1> QED
  BY <1>5, <1>6

\* Outside the demo, every card known was made from an entry.
LEMMA SeenAreCards == ASSUME CockpitTypeOK, ~demo PROVE Seen \subseteq Card
<1>1. list \in Seq(Card) /\ doomed \in Seq(Card) /\ todo \in Seq(Call)
  BY DEF CockpitTypeOK
<1>2. Range(list) \subseteq Card /\ Range(doomed) \subseteq Card /\ Range(todo) \subseteq Call
  BY <1>1, RangeIs
<1>3. Answering(todo) \subseteq Card
  BY <1>2 DEF Answering, Call
<1> QED
  BY <1>2, <1>3 DEF Seen, Owed

\* An entry of the map is a genuine card.
LEMMA EntryIsGenuine ==
  ASSUME EntriesGenuine, NEW e \in queue, life \in Nat
  PROVE  CardGenuine(e) /\ up
BY DEF EntriesGenuine, CardGenuine

\* Nothing an answer's aim is read from has changed.
LEMMA AimsKept ==
  ASSUME AimsAgree, UNCHANGED <<demo, todo, panicking, key, list, selected, view>>
  PROVE  AimsAgree'
BY DEF AimsAgree, CallsAimed, Aimed, PointedAt, Drawn

\* While a handler runs, an answer in the buffer is late.
LEMMA AimsLate ==
  ASSUME AimsAgree, todo # <<>> \/ panicking, UNCHANGED <<demo, key>>,
         ~demo => CallsAimed(todo')
  PROVE  AimsAgree'
BY DEF AimsAgree

\* A step of the cockpit's that leaves the daemon alone, knows no card but those it
\* knew and those it is shown, and forgets none it owes to a panic.
LEMMA CockpitFrame ==
  ASSUME CockpitInv, UNCHANGED <<up, life, counter, queue, verdict, demo>>,
         astray' \subseteq astray, CockpitTypeOK', HandlersAgree', AimsAgree',
         ~demo => Seen' \subseteq Seen \cup queue,
         ~demo => \/ ~panic'.heard /\ panic'.shown \subseteq panic.shown
                  \/ panic' = panic /\ Owed \subseteq Owed'
  PROVE  CockpitInv'
<1> USE DEF CockpitInv
<1>1. EntriesGenuine'
  BY DEF EntriesGenuine
<1>2. CardsGenuine'
  <2> SUFFICES ASSUME ~demo, NEW c \in Seen' PROVE CardGenuine(c)'
    BY DEF CardsGenuine
  <2>1. CardGenuine(c)
    BY EntryIsGenuine DEF CardsGenuine, CockpitTypeOK
  <2> QED
    BY <2>1 DEF CardGenuine
<1>3. PanicAgrees'
  <2> SUFFICES ASSUME ~demo
               PROVE  /\ \A a \in panic'.shown : verdict[a] # "unasked"
                      /\ panic'.heard =>
                             \A a \in panic'.shown : Waiting(a) => \E c \in Owed' : c.action = a
    BY DEF PanicAgrees, Waiting
  <2> QED
    BY DEF PanicAgrees
<1>4. AnswersReachTheirCard'
  BY DEF AnswersReachTheirCard
<1> QED
  BY <1>1, <1>2, <1>3, <1>4

\* What is owed and seen follows from these.
LEMMA SeenKept ==
  ASSUME UNCHANGED <<list, doomed, todo>>
  PROVE  Seen' = Seen /\ Owed' = Owed
BY DEF Seen, Owed, Answering

LEMMA CockpitInitInv == CockpitInit => CockpitInv
<1> SUFFICES ASSUME CockpitInit PROVE CockpitInv
  OBVIOUS
<1>1. todo \in Seq(Call) /\ Answering(todo) = {}
  BY CallsAre DEF CockpitInit
<1>2. ~demo => list = <<>>
  BY DEF CockpitInit
<1>3. CockpitTypeOK
  <2>1. queue \in SUBSET Card /\ IsFiniteSet(queue)
    BY FS_EmptySet DEF CockpitInit
  <2>2. panic \in [shown : SUBSET Asks, heard : BOOLEAN]
    BY DEF CockpitInit, NoPanic
  <2>3. ~demo => list \in Seq(Card) /\ doomed \in Seq(Card) /\ key \in SUBSET Answer
    BY <1>2 DEF CockpitInit
  <2> QED
    BY <1>1, <2>1, <2>2, <2>3 DEF CockpitInit, CockpitTypeOK
<1>4. ~demo => Seen = {}
  BY <1>1, <1>2, RangeIs DEF Seen, Owed, CockpitInit
<1>5. HandlersAgree /\ EntriesGenuine /\ AnswersReachTheirCard
  BY DEF CockpitInit, HandlersAgree, EntriesGenuine, AnswersReachTheirCard
<1>6. CardsGenuine /\ PanicAgrees
  BY <1>4 DEF CockpitInit, CardsGenuine, PanicAgrees, NoPanic
<1>7. AimsAgree
  BY <1>1, NoneOwed DEF CockpitInit, AimsAgree
<1> QED
  BY <1>3, <1>5, <1>6, <1>7 DEF CockpitInv
-----------------------------------------------------------------------------
(* The daemon's side. *)

\* A new entry: its id is new in this life and its action was never asked before.
LEMMA AskStep == ASSUME CockpitInv, NEW a \in Asks, Ask(a) PROVE CockpitInv'
<1> USE DEF CockpitInv
<1> DEFINE new == [id |-> counter, action |-> a, life |-> life]
<1>1. queue' = queue \cup {new} /\ counter' = counter + 1 /\ up /\ up' = up /\ life' = life
      /\ verdict[a] = "unasked" /\ verdict' = [verdict EXCEPT ![a] = "waiting"]
      /\ UNCHANGED <<demo, list, todo, panicking, doomed, panic, astray, key, selected, view>>
  BY DEF Ask, listVars, panicVars, ghostVars, screenVars
<1>2. new \in Card /\ new.id = counter /\ new.action = a /\ new.life = life
  BY DEF CockpitTypeOK, Card
<1> HIDE DEF new
<1>3. CockpitTypeOK'
  <2>1. IsFiniteSet(queue')
    BY <1>1, FS_AddElement DEF CockpitTypeOK
  <2> QED
    BY <1>1, <1>2, <2>1 DEF CockpitTypeOK
<1>4. \A e \in queue : e.id < counter /\ e.action # a /\ e.life = life /\ e \in Card
  BY <1>1 DEF EntriesGenuine, CockpitTypeOK
<1>5. \A b \in Asks : verdict'[b] = IF b = a THEN "waiting" ELSE verdict[b]
  BY <1>1 DEF CockpitTypeOK
<1>6. EntriesGenuine'
  <2>1. \A e \in queue : e.action \in Asks /\ e.id \in Nat
    BY <1>4 DEF Card
  <2> QED
    BY <1>1, <1>2, <1>4, <1>5, <2>1 DEF EntriesGenuine, CockpitTypeOK
<1>7. CardsGenuine'
  <2> SUFFICES ASSUME ~demo, NEW c \in Seen PROVE CardGenuine(c)'
    BY <1>1, SeenKept DEF CardsGenuine
  <2>1. CardGenuine(c)
    BY DEF CardsGenuine
  <2>2. c.action # a
    BY <1>1, <2>1 DEF CardGenuine
  <2>3. verdict'[c.action] # "unasked"
    BY <1>1, <2>1, <2>2 DEF CardGenuine, CockpitTypeOK
  <2>4. c.life = life => c.id < counter /\ c.id \in Int
    <3>1. c \in Card
      BY SeenAreCards
    <3> QED
      BY <1>1, <2>1, <3>1 DEF CardGenuine, Card
  <2> QED
    BY <1>1, <1>2, <2>1, <2>2, <2>3, <2>4 DEF CardGenuine, CockpitTypeOK
<1>8. PanicAgrees'
  <2> SUFFICES ASSUME ~demo
               PROVE  /\ \A b \in panic.shown : verdict'[b] # "unasked"
                      /\ panic.heard =>
                             \A b \in panic.shown : Waiting(b)' => \E c \in Owed : c.action = b
    BY <1>1, SeenKept DEF PanicAgrees
  <2>1. \A b \in panic.shown : b \in Asks /\ verdict[b] # "unasked" /\ b # a
    BY <1>1 DEF PanicAgrees, CockpitTypeOK
  <2>2. \A b \in panic.shown : Waiting(b)' => Waiting(b)
    BY <1>1, <1>2, <2>1 DEF Waiting
  <2> QED
    BY <1>5, <2>1, <2>2 DEF PanicAgrees
<1>9. HandlersAgree' /\ AnswersReachTheirCard' /\ AimsAgree'
  BY <1>1, AimsKept DEF HandlersAgree, AnswersReachTheirCard
<1> QED
  BY <1>3, <1>6, <1>7, <1>8, <1>9

\* Entries leave the map, and those that do are told.
LEMMA EntriesLeave ==
  ASSUME CockpitInv, CockpitTypeOK', HandlersAgree', AnswersReachTheirCard', AimsAgree',
         queue' \subseteq queue, life' = life, demo' = demo,
         ~up' => queue' = {}, up' => up /\ counter' = counter,
         \A e \in queue' : verdict'[e.action] = verdict[e.action],
         \A b \in Asks : verdict[b] # "unasked" => verdict'[b] # "unasked",
         ~demo => Seen' \subseteq Seen,
         panic'.shown = panic.shown,
         ~demo /\ panic'.heard =>
             \A b \in panic.shown : Waiting(b)' => \E c \in Owed' : c.action = b
  PROVE  CockpitInv'
<1> USE DEF CockpitInv
<1>1. EntriesGenuine'
  BY DEF EntriesGenuine
<1>2. CardsGenuine'
  <2> SUFFICES ASSUME ~demo, NEW c \in Seen' PROVE CardGenuine(c)'
    BY DEF CardsGenuine
  <2>1. CardGenuine(c) /\ c.action \in Asks
    BY SeenAreCards DEF CardsGenuine, Card
  <2> QED
    BY <2>1 DEF CardGenuine
<1>3. PanicAgrees'
  <2>1. ~demo => \A b \in panic.shown : b \in Asks
    BY DEF CockpitTypeOK
  <2> QED
    BY <2>1 DEF PanicAgrees
<1> QED
  BY <1>1, <1>2, <1>3

LEMMA ExpireStep == ASSUME CockpitInv, NEW a \in Asks, Expire(a) PROVE CockpitInv'
<1> USE DEF CockpitInv
<1>1. /\ queue' = {e \in queue : e.action # a} /\ verdict' = [verdict EXCEPT ![a] = "denied"]
      /\ UNCHANGED <<up, life, counter, demo, list, todo, panicking, doomed, panic, astray, key,
                     selected, view>>
  BY DEF Expire, listVars, panicVars, ghostVars, screenVars
<1>2. CockpitTypeOK'
  <2>1. IsFiniteSet(queue') /\ queue' \in SUBSET Card
    BY <1>1, FS_Subset DEF CockpitTypeOK
  <2> QED
    BY <1>1, <2>1 DEF CockpitTypeOK
<1>3. HandlersAgree' /\ AnswersReachTheirCard' /\ AimsAgree'
  BY <1>1, AimsKept DEF HandlersAgree, AnswersReachTheirCard
<1>4. \A b \in Asks : verdict'[b] = IF b = a THEN "denied" ELSE verdict[b]
  BY <1>1 DEF CockpitTypeOK
<1>5. \A e \in queue' : verdict'[e.action] = verdict[e.action]
  <2>1. \A e \in queue' : e.action \in Asks /\ e.action # a
    BY <1>1 DEF CockpitTypeOK, Card
  <2> QED
    BY <1>4, <2>1
<1>6. \A b : Waiting(b)' => Waiting(b)
  BY <1>1 DEF Waiting
<1>7. ~up' => queue' = {}
  BY <1>1 DEF EntriesGenuine
<1>8. ~demo /\ panic'.heard =>
          \A b \in panic.shown : Waiting(b)' => \E c \in Owed' : c.action = b
  BY <1>1, <1>6, SeenKept DEF PanicAgrees
<1> QED
  BY <1>1, <1>2, <1>3, <1>4, <1>5, <1>7, <1>8, SeenKept, EntriesLeave

LEMMA CrashStep == ASSUME CockpitInv, Crash PROVE CockpitInv'
<1> USE DEF CockpitInv
<1>1. /\ queue' = {} /\ up' = FALSE /\ counter' = 0 /\ life' = life
      /\ verdict' = [a \in Asks |-> IF Waiting(a) THEN "denied" ELSE verdict[a]]
      /\ UNCHANGED <<demo, list, todo, panicking, doomed, panic, astray, key, selected, view>>
  BY DEF Crash, listVars, panicVars, ghostVars, screenVars
<1>2. CockpitTypeOK'
  <2>1. IsFiniteSet(queue') /\ queue' \in SUBSET Card
    BY <1>1, FS_EmptySet
  <2> QED
    BY <1>1, <2>1 DEF CockpitTypeOK
<1>3. HandlersAgree' /\ AnswersReachTheirCard' /\ AimsAgree'
  BY <1>1, AimsKept DEF HandlersAgree, AnswersReachTheirCard
<1>4. \A b : ~Waiting(b)'
  BY <1>1 DEF Waiting
<1>5. \A b \in Asks : verdict[b] # "unasked" => verdict'[b] # "unasked"
  BY <1>1
<1> QED
  BY <1>1, <1>2, <1>3, <1>4, <1>5, SeenKept, EntriesLeave

LEMMA RestartStep == ASSUME CockpitInv, Restart PROVE CockpitInv'
<1> USE DEF CockpitInv
<1>1. /\ ~up /\ up' = TRUE /\ life' = life + 1 /\ queue = {}
      /\ UNCHANGED <<counter, queue, verdict, demo, list, todo, panicking, doomed, panic, astray,
                     key, selected, view>>
  BY DEF Restart, listVars, panicVars, ghostVars, screenVars, EntriesGenuine
<1>2. CockpitTypeOK'
  BY <1>1 DEF CockpitTypeOK
<1>3. HandlersAgree' /\ AnswersReachTheirCard' /\ EntriesGenuine' /\ AimsAgree'
  BY <1>1, AimsKept DEF HandlersAgree, AnswersReachTheirCard, EntriesGenuine
<1>4. CardsGenuine'
  <2> SUFFICES ASSUME ~demo, NEW c \in Seen PROVE CardGenuine(c)'
    BY <1>1, SeenKept DEF CardsGenuine
  <2>1. CardGenuine(c) /\ c.life \in Nat /\ life \in Nat
    BY SeenAreCards DEF CardsGenuine, Card, CockpitTypeOK
  <2>2. c.life <= life' /\ c.life # life'
    BY <1>1, <2>1 DEF CardGenuine
  <2> QED
    BY <1>1, <2>1, <2>2 DEF CardGenuine
<1>5. PanicAgrees'
  BY <1>1, SeenKept DEF PanicAgrees, Waiting
<1> QED
  BY <1>2, <1>3, <1>4, <1>5
-----------------------------------------------------------------------------
(* The requests. *)

\* The daemon takes out what the card's id names: in the card's own life, the entry
\* the card was made from.
LEMMA RpcRespondStep ==
  ASSUME CockpitInv, NEW asked \in BOOLEAN, NEW heard \in BOOLEAN, RpcRespond(asked, heard)
  PROVE  CockpitInv'
<1> USE DEF CockpitInv
<1> DEFINE card == Head(todo).card
           hit == IF asked THEN {e \in queue : e.id = card.id} ELSE {}
           new == {[reissued |-> card.life # life, late |-> Head(todo).late] :
                       e \in {h \in hit : h.action \notin Head(todo).aim}}
<1>1. /\ queue' = queue \ hit /\ astray' = new
      /\ verdict' = [a \in Asks |->
                IF \E e \in hit : e.action = a
                THEN IF Head(todo).allow THEN "approved" ELSE "denied"
                ELSE verdict[a]]
      /\ panic' = [panic EXCEPT !.heard = @ /\ heard]
      /\ heard => asked
      /\ UNCHANGED <<up, life, counter, demo, list, panicking, doomed, key>>
  BY DEF RpcRespond, Rpc, listVars, panicVars, screenVars
<1>2. /\ todo # <<>> /\ todo' \in Seq(Call) /\ Head(todo) \in Call
      /\ Head(todo).rpc = "respond"
      /\ Answering(todo) = Answering(todo') \cup {card}
      /\ CallsAimed(todo) => CallsAimed(todo')
  BY RpcIs DEF RpcRespond
<1>3. ~demo
  BY <1>2 DEF HandlersAgree
<1>15. Head(todo).late \/ Head(todo).aim = {card.action}
  <2>1. todo \in Seq(Call) /\ CallsAimed(todo)
    BY <1>3 DEF CockpitTypeOK, AimsAgree
  <2>2. Head(todo) \in Range(todo)
    BY <1>2, <2>1, RangeIs
  <2> QED
    BY <1>2, <2>1, <2>2 DEF CallsAimed
<1>16. AimsAgree'
  BY <1>1, <1>2, AimsLate DEF AimsAgree
<1>4. card \in Owed /\ Owed = Owed' \cup {card} /\ Seen' \subseteq Seen /\ card \in Seen
  BY <1>1, <1>2 DEF Owed, Seen
<1>5. CardGenuine(card)
  BY <1>3, <1>4 DEF CardsGenuine
<1>6. panic'.shown = panic.shown /\ panic'.heard = (panic.heard /\ heard)
      /\ panic' \in [shown : SUBSET Asks, heard : BOOLEAN]
  BY <1>1, <1>3 DEF CockpitTypeOK
<1> HIDE DEF card, hit
<1>7. hit \subseteq queue /\ (asked => hit = {e \in queue : e.id = card.id})
  BY DEF hit
<1>8. CockpitTypeOK'
  <2>1. IsFiniteSet(queue') /\ queue' \in SUBSET Card
    BY <1>1, <1>7, FS_Subset DEF CockpitTypeOK
  <2>2. verdict' \in [Asks -> {"unasked", "waiting", "approved", "denied"}]
    BY <1>1 DEF CockpitTypeOK
  <2> QED
    BY <1>1, <1>2, <1>6, <2>1, <2>2 DEF CockpitTypeOK
<1>9. HandlersAgree'
  BY <1>1, <1>3 DEF HandlersAgree
<1>10. AnswersReachTheirCard'
  <2> SUFFICES ASSUME NEW x \in new, ~x.late PROVE x.reissued
    BY <1>1 DEF AnswersReachTheirCard
  <2>0. PICK h \in hit :
            /\ h.action \notin Head(todo).aim
            /\ x = [reissued |-> card.life # life, late |-> Head(todo).late]
    OBVIOUS
  <2>1. h.action # card.action
    BY <1>15, <2>0
  <2>2. h \in queue /\ h.id = card.id /\ up
    BY <1>7, EntryIsGenuine DEF hit, CockpitTypeOK
  <2>3. card.life # life
    BY <1>5, <2>1, <2>2 DEF CardGenuine
  <2>4. x.reissued = (card.life # life)
    BY <2>0
  <2> QED
    BY <2>3, <2>4
<1>11. \A e \in queue' : verdict'[e.action] = verdict[e.action]
  <2> SUFFICES ASSUME NEW e \in queue' PROVE verdict'[e.action] = verdict[e.action]
    OBVIOUS
  <2>1. e \in queue /\ e \notin hit /\ e.action \in Asks
    BY <1>1 DEF CockpitTypeOK, Card
  <2>2. ~\E d \in hit : d.action = e.action
    BY <1>7, <2>1 DEF EntriesGenuine
  <2> QED
    BY <1>1, <2>1, <2>2
<1>12. \A b \in Asks : verdict[b] # "unasked" => verdict'[b] # "unasked"
  BY <1>1
<1>13. ~demo /\ panic'.heard =>
           \A b \in panic.shown : Waiting(b)' => \E c \in Owed' : c.action = b
  <2> SUFFICES ASSUME panic.heard, heard, NEW b \in panic.shown,
                      NEW e \in queue', e.action = b
               PROVE  \E c \in Owed' : c.action = b
    BY <1>6 DEF Waiting
  <2>1. asked /\ e \in queue /\ e \notin hit
    BY <1>1
  <2>2. PICK c \in Owed : c.action = b
    BY <1>3, <2>1 DEF PanicAgrees, Waiting
  <2>3. CASE c = card
    <3>1. e = card
      BY <1>5, <2>1, <2>2, <2>3 DEF CardGenuine
    <3> QED
      BY <1>7, <2>1, <3>1
  <2>4. CASE c \in Owed'
    BY <2>2, <2>4
  <2> QED
    BY <1>4, <2>3, <2>4
<1>14. ~up' => queue' = {}
  BY <1>1 DEF EntriesGenuine
<1> QED
  BY <1>1, <1>4, <1>6, <1>7, <1>8, <1>9, <1>10, <1>11, <1>12, <1>13, <1>14, <1>16, EntriesLeave

\* A request that owes no card leaves what is owed as it is.
LEMMA OtherRpc ==
  ASSUME CockpitTypeOK, NEW name, name # "respond", NEW asked, NEW heard,
         Rpc(name, asked, heard), UNCHANGED doomed
  PROVE  /\ Owed' = Owed /\ todo' \in Seq(Call) /\ todo # <<>>
         /\ CallsAimed(todo) => CallsAimed(todo')
BY RpcIs DEF Owed

LEMMA RpcPendingStep ==
  ASSUME CockpitInv, NEW asked \in BOOLEAN, NEW heard \in BOOLEAN, RpcPending(asked, heard)
  PROVE  CockpitInv'
<1> USE DEF CockpitInv
<1>1. /\ UNCHANGED <<up, life, counter, queue, verdict, demo, panicking, doomed, key>>
      /\ astray' = {}
      /\ list' = list \/ list' \in Listings(queue)
      /\ panic' = panic \/ panic' = NoPanic
  BY DEF RpcPending, daemonVars, panicVars, screenVars
<1>2. /\ Owed' = Owed /\ todo' \in Seq(Call) /\ todo # <<>>
      /\ CallsAimed(todo) => CallsAimed(todo')
  <2>1. Rpc("pending", asked, heard) /\ "pending" # "respond"
    BY DEF RpcPending
  <2> QED
    BY <1>1, <2>1, OtherRpc
<1>3. ~demo
  BY <1>2 DEF HandlersAgree
<1>4. list' \in Seq(Card) /\ Range(list') \subseteq Range(list) \cup queue
  <2>1. CASE list' = list
    BY <1>3, <2>1 DEF CockpitTypeOK
  <2>2. CASE list' \in Listings(queue)
    <3>1. list' \in Seq(queue) /\ Range(list') = queue
      BY <2>2, ListingIs DEF CockpitTypeOK
    <3> QED
      BY <3>1 DEF CockpitTypeOK
  <2> QED
    BY <1>1, <2>1, <2>2
<1>5. CockpitTypeOK'
  <2>1. NoPanic \in [shown : SUBSET Asks, heard : BOOLEAN]
    BY DEF NoPanic
  <2>2. panic' \in [shown : SUBSET Asks, heard : BOOLEAN]
    BY <1>1, <1>3, <2>1 DEF CockpitTypeOK
  <2> QED
    BY <1>1, <1>2, <1>4, <2>2 DEF CockpitTypeOK
<1>6. HandlersAgree' /\ AimsAgree'
  BY <1>1, <1>2, <1>3, AimsLate DEF HandlersAgree, AimsAgree
<1>7. Seen' \subseteq Seen \cup queue
  BY <1>2, <1>4 DEF Seen
<1>8. \/ ~panic'.heard /\ panic'.shown \subseteq panic.shown
      \/ panic' = panic
  BY <1>1 DEF NoPanic
<1> QED
  BY <1>1, <1>2, <1>5, <1>6, <1>7, <1>8, CockpitFrame

\* The requests about the vault.
LEMMA VaultStep ==
  ASSUME CockpitInv, NEW asked \in BOOLEAN, NEW heard \in BOOLEAN,
         RpcVaultStatus(asked, heard) \/ RpcProtect(asked, heard) \/ RpcUnprotect(asked, heard)
  PROVE  CockpitInv'
<1> USE DEF CockpitInv
<1>1. UNCHANGED <<up, life, counter, queue, verdict, demo, panicking, doomed, astray, list, panic,
                  key>>
  BY DEF RpcVaultStatus, RpcProtect, RpcUnprotect, daemonVars, panicVars, listVars, ghostVars,
         screenVars
<1>2. /\ Owed' = Owed /\ todo' \in Seq(Call) /\ todo # <<>>
      /\ CallsAimed(todo) => CallsAimed(todo')
  <2>1. \E name \in {"vault_status", "protect", "unprotect"} : Rpc(name, asked, heard)
    BY DEF RpcVaultStatus, RpcProtect, RpcUnprotect
  <2> QED
    BY <1>1, <2>1, OtherRpc
<1>3. CockpitTypeOK'
  BY <1>1, <1>2 DEF CockpitTypeOK
<1>4. HandlersAgree' /\ Seen' = Seen /\ AimsAgree'
  BY <1>1, <1>2, AimsLate DEF HandlersAgree, Seen, AimsAgree
<1> QED
  BY <1>1, <1>2, <1>3, <1>4, CockpitFrame
-----------------------------------------------------------------------------
(* The handlers. *)

\* A handler that starts with requests that owe no card, or with none, and leaves no
\* answer in the buffer that is not late.
LEMMA QuietStep ==
  ASSUME CockpitInv, Idle, ~demo => key' \subseteq Answer /\ \A k \in key' : k.late,
         UNCHANGED <<up, life, counter, queue, verdict, demo, panicVars, ghostVars>>,
         ~demo => list' = list,
         todo' \in Seq(Call), Answering(todo') = {}, demo => todo' = todo
  PROVE  CockpitInv'
<1> USE DEF CockpitInv
<1>1. UNCHANGED <<panicking, doomed, panic, astray>> /\ todo = <<>>
  BY DEF panicVars, ghostVars, Idle
<1>2. Owed' = Owed
  BY <1>1, CallsAre DEF Owed
<1>3. CockpitTypeOK'
  BY <1>1 DEF CockpitTypeOK
<1>4. HandlersAgree' /\ AimsAgree' /\ (~demo => Seen' = Seen)
  BY <1>1, <1>2, NoneOwed DEF HandlersAgree, AimsAgree, Seen
<1> QED
  BY <1>1, <1>2, <1>3, <1>4, CockpitFrame

\* `refresh` is such a start.
LEMMA RefreshIs ==
  ASSUME CockpitInv, Idle, Refresh
  PROVE  /\ list' = list /\ todo' \in Seq(Call) /\ Answering(todo') = {}
         /\ demo => todo' = todo
BY CallsAre DEF Refresh, listVars, Idle

\* `act_on`: outside the demo, the card is owed.
LEMMA ActOnIs ==
  ASSUME CockpitTypeOK, NEW card, ~demo => card \in Card, NEW allow \in BOOLEAN, NEW aim, NEW late,
         ~demo => aim \in SUBSET Asks /\ late \in BOOLEAN /\ (late \/ aim = {card.action}),
         todo = <<>>, ActOn(card, allow, aim, late)
  PROVE  /\ demo => todo' = todo
         /\ ~demo => /\ list' = list /\ todo' \in Seq(Call) /\ Answering(todo') = {card}
                     /\ CallsAimed(todo')
<1> DEFINE calls == <<[rpc |-> "respond", card |-> card, allow |-> allow, aim |-> aim,
                       late |-> late]>> \o RefreshCalls
<1>1. ~demo => calls \in Seq(Call) /\ Answering(calls) = {card} /\ CallsAimed(calls)
  BY AnswerIs
<1>2. /\ demo => todo' = todo
      /\ ~demo => list' = list /\ todo' = calls
  BY DEF ActOn, listVars, CockpitTypeOK
<1> HIDE DEF calls
<1> QED
  BY <1>1, <1>2

\* A key or a click points at one card at most.
LEMMA PointsAtOne ==
  ASSUME NEW button \in {{}} \cup {{j} : j \in Nat}, NEW i \in PointedAt(button)
  PROVE  i \in DOMAIN list /\ Aimed(button) = {list[i].action}
<1>1. PointedAt(button) = {i} /\ i \in DOMAIN list
  BY DEF PointedAt, Drawn
<1> HIDE DEF PointedAt
<1> QED
  BY <1>1 DEF Aimed

\* The answer is handled: if it is not late, the card it finds is the one it was aimed at.
LEMMA ResolveStep ==
  ASSUME CockpitInv, NEW allow \in BOOLEAN, Resolve(allow)
  PROVE  CockpitInv'
<1> USE DEF CockpitInv
<1>0. /\ UNCHANGED <<up, life, counter, queue, verdict, demo, panicking, doomed, panic, astray>>
      /\ UNCHANGED <<panicVars, ghostVars>>
      /\ todo = <<>> /\ key' = {} /\ Idle
  BY DEF Resolve, daemonVars, panicVars, ghostVars, Idle
<1>1. PICK k \in key :
          IF PointedAt(k.button) = {} THEN UNCHANGED <<listVars, todo>>
          ELSE \E i \in PointedAt(k.button) : ActOn(list[i], allow, k.aim, k.late)
  BY DEF Resolve
<1>2. CASE PointedAt(k.button) = {}
  <2>1. list' = list /\ todo' = todo
    BY <1>1, <1>2 DEF listVars
  <2> QED
    BY <1>0, <2>1, CallsAre, QuietStep
<1>3. CASE PointedAt(k.button) # {}
  <2>1. PICK i \in PointedAt(k.button) : ActOn(list[i], allow, k.aim, k.late)
    BY <1>1, <1>3
  <2>2. ~demo => k \in Answer
    BY DEF CockpitTypeOK
  <2>3. ~demo => i \in DOMAIN list /\ Aimed(k.button) = {list[i].action}
    BY <2>2, PointsAtOne DEF Answer
  <2>4. ~demo => list[i] \in Card /\ list[i] \in Range(list)
    BY <2>3 DEF CockpitTypeOK, Range
  <2>5. ~demo => k.aim \in SUBSET Asks /\ k.late \in BOOLEAN /\ (k.late \/ k.aim = {list[i].action})
    BY <2>2, <2>3 DEF Answer, AimsAgree
  <2>6. /\ demo => todo' = todo
        /\ ~demo => /\ list' = list /\ todo' \in Seq(Call) /\ Answering(todo') = {list[i]}
                    /\ CallsAimed(todo')
    BY <1>0, <2>1, <2>4, <2>5, ActOnIs
  <2>7. ~demo => Owed \subseteq Owed' /\ Seen' \subseteq Seen
    BY <1>0, <2>4, <2>6, CallsAre DEF Owed, Seen
  <2>8. CockpitTypeOK' /\ HandlersAgree' /\ AimsAgree'
    BY <1>0, <2>6 DEF CockpitTypeOK, HandlersAgree, AimsAgree
  <2> QED
    BY <1>0, <2>7, <2>8, CockpitFrame
<1> QED
  BY <1>2, <1>3

\* An answer is pressed: late if a handler is running, else aimed at the list shown.
LEMMA PressStep ==
  ASSUME CockpitInv, NEW button, ~demo => button \in {{}} \cup {{j} : j \in Nat}, Press(button),
         UNCHANGED <<daemonVars, demo, panicVars, view, typed, quit, listVars, vault, todo,
                     ghostVars>>
  PROVE  CockpitInv'
<1> USE DEF CockpitInv
<1> DEFINE press == [button |-> button, aim |-> Aimed(button), late |-> ~Idle]
<1>1. /\ UNCHANGED <<up, life, counter, queue, verdict, demo, list, selected, view, todo, panicking,
                     doomed, panic, astray>>
      /\ ~quit /\ key' = {press}
  BY DEF Press, daemonVars, panicVars, listVars, ghostVars
<1>2. Aimed(button)' = Aimed(button)
  BY <1>1 DEF Aimed, PointedAt, Drawn
<1>3. ~demo => press \in Answer
  <2>1. ~demo => \A i \in DOMAIN list : list[i].action \in Asks
    <3>1. ~demo => list \in Seq(Card)
      BY DEF CockpitTypeOK
    <3>2. ~demo => \A i \in DOMAIN list : list[i] \in Card
      BY <3>1
    <3> QED
      BY <3>2 DEF Card
  <2>2. PointedAt(button) \subseteq DOMAIN list
    BY DEF PointedAt, Drawn
  <2>3. ~demo => Aimed(button) \in SUBSET Asks
    BY <2>1, <2>2 DEF Aimed
  <2> QED
    BY <2>3 DEF Answer
<1>4. press.late \/ (todo = <<>> /\ ~panicking)
  BY <1>1 DEF Idle
<1>5. press.aim = Aimed(button) /\ press.button = button
  OBVIOUS
<1> HIDE DEF press
<1>6. CockpitTypeOK' /\ HandlersAgree'
  BY <1>1, <1>3 DEF CockpitTypeOK, HandlersAgree
<1>7. AimsAgree'
  BY <1>1, <1>2, <1>4, <1>5 DEF AimsAgree
<1> QED
  BY <1>1, <1>6, <1>7, SeenKept, CockpitFrame

LEMMA KeyPanicStep == ASSUME CockpitInv, KeyPanic PROVE CockpitInv'
<1> USE DEF CockpitInv
<1>1. /\ UNCHANGED <<up, life, counter, queue, verdict, demo, list, todo, astray, key>>
      /\ panicking' = TRUE /\ doomed' = list /\ todo = <<>> /\ key = {}
      /\ panic' = [shown |-> {c.action : c \in Range(list)}, heard |-> TRUE]
  BY DEF KeyPanic, PanicAll, Main, Ready, Idle, daemonVars, listVars, screenVars
<1>2. ~demo => Range(list) \subseteq Card
  BY RangeIs DEF CockpitTypeOK
<1>3. Owed' = Range(list) /\ Seen' \subseteq Seen
  BY <1>1, CallsAre DEF Owed, Seen
<1>4. ~demo => panic' \in [shown : SUBSET Asks, heard : BOOLEAN]
  BY <1>1, <1>2 DEF Card
<1>5. CockpitTypeOK' /\ HandlersAgree' /\ AimsAgree'
  BY <1>1, <1>4 DEF CockpitTypeOK, HandlersAgree, AimsAgree, CallsAimed
<1>6. EntriesGenuine' /\ AnswersReachTheirCard'
  BY <1>1 DEF EntriesGenuine, AnswersReachTheirCard
<1>7. CardsGenuine'
  BY <1>1, <1>3 DEF CardsGenuine, CardGenuine
<1>8. PanicAgrees'
  <2> SUFFICES ASSUME ~demo
               PROVE  /\ \A a \in panic'.shown : verdict[a] # "unasked"
                      /\ \A a \in panic'.shown : \E c \in Owed' : c.action = a
    BY <1>1 DEF PanicAgrees
  <2>1. panic'.shown = {c.action : c \in Range(list)}
    BY <1>1
  <2>2. \A c \in Range(list) : verdict[c.action] # "unasked"
    BY DEF CardsGenuine, CardGenuine, Seen
  <2> QED
    BY <1>3, <2>1, <2>2
<1> QED
  BY <1>5, <1>6, <1>7, <1>8

\* The next card of a panic: owed as one of the doomed, and now as one being answered.
LEMMA DenyNextStep == ASSUME CockpitInv, DenyNext PROVE CockpitInv'
<1> USE DEF CockpitInv
<1>1. /\ UNCHANGED <<up, life, counter, queue, verdict, demo, panicking, panic, astray, key>>
      /\ todo = <<>> /\ doomed # <<>> /\ doomed' = Tail(doomed) /\ panicking
      /\ ActOn(Head(doomed), FALSE, {Head(doomed).action}, FALSE)
  BY DEF DenyNext, daemonVars, ghostVars, screenVars
<1>2. ~demo => /\ Head(doomed) \in Card /\ doomed' \in Seq(Card)
               /\ Range(doomed) = {Head(doomed)} \cup Range(doomed')
  BY <1>1, RangeIs DEF CockpitTypeOK
<1>3. /\ demo => todo' = todo
      /\ ~demo => /\ list' = list /\ todo' \in Seq(Call) /\ Answering(todo') = {Head(doomed)}
                  /\ CallsAimed(todo')
  <2>1. ~demo => {Head(doomed).action} \in SUBSET Asks
    BY <1>2 DEF Card
  <2> QED
    BY <1>1, <1>2, <2>1, ActOnIs
<1>4. ~demo => Owed' = Owed /\ Seen' = Seen
  BY <1>1, <1>2, <1>3, CallsAre DEF Owed, Seen
<1>5. CockpitTypeOK' /\ HandlersAgree' /\ AimsAgree'
  BY <1>1, <1>2, <1>3, AimsLate DEF CockpitTypeOK, HandlersAgree
<1> QED
  BY <1>1, <1>4, <1>5, CockpitFrame

LEMMA PanickedStep == ASSUME CockpitInv, Panicked PROVE CockpitInv'
<1> USE DEF CockpitInv
<1>1. /\ UNCHANGED <<up, life, counter, queue, verdict, demo, list, todo, doomed, panic, astray, key>>
      /\ doomed = <<>> /\ panicking /\ panicking' = FALSE
  BY DEF Panicked, daemonVars, ghostVars, screenVars
<1>2. CockpitTypeOK' /\ HandlersAgree' /\ AimsAgree'
  BY <1>1, AimsLate DEF CockpitTypeOK, HandlersAgree, AimsAgree
<1> QED
  BY <1>1, <1>2, SeenKept, CockpitFrame

\* Keys, clicks and the tick.
LEMMA HandlersStep == ASSUME CockpitInv, Handlers PROVE CockpitInv'
<1>1. CASE Tick \/ KeyTab \/ KeyRefresh \/ KeyProtect
  <2>1. Idle /\ Refresh
        /\ UNCHANGED <<up, life, counter, queue, verdict, demo, panicVars, ghostVars>>
    BY <1>1 DEF Tick, KeyTab, KeyRefresh, KeyProtect, Main, Ready, daemonVars
  <2>2. ~demo => key' \subseteq Answer /\ \A k \in key' : k.late
    <3>1. CASE Tick
      <4>1. key' = {[k EXCEPT !.late = TRUE] : k \in key}
        BY <3>1 DEF Tick
      <4>2. ASSUME NEW k \in Answer
            PROVE  [k EXCEPT !.late = TRUE] \in Answer /\ [k EXCEPT !.late = TRUE].late
        BY DEF Answer
      <4>3. ~demo => key \subseteq Answer
        BY DEF CockpitInv, CockpitTypeOK
      <4> QED
        BY <4>1, <4>2, <4>3
    <3>2. CASE KeyTab \/ KeyRefresh \/ KeyProtect
      BY <3>2 DEF KeyTab, KeyRefresh, KeyProtect, Main, Ready, screenVars
    <3> QED
      BY <1>1, <3>1, <3>2
  <2> QED
    BY <2>1, <2>2, RefreshIs, QuietStep
<1>2. CASE \/ KeyQuit \/ KeyNewToken \/ KeyEsc \/ FormEdit \/ ProtectEdit
           \/ \E step \in {1, -1} : KeyMove(step)
           \/ \E stored \in BOOLEAN : SubmitToken(stored)
  <2>1. Idle /\ UNCHANGED <<up, life, counter, queue, verdict, demo, panicVars, ghostVars>>
        /\ list' = list /\ todo' = todo /\ key' = {}
    BY <1>2 DEF KeyQuit, KeyNewToken, KeyEsc, FormEdit, ProtectEdit, KeyMove, SubmitToken,
                Main, Ready, daemonVars, listVars, screenVars
  <2>2. todo' = <<>>
    BY <2>1 DEF Idle
  <2> QED
    BY <2>1, <2>2, CallsAre, QuietStep
<1>3. CASE ProtectEnter \/ ProtectUndo
  <2>1. /\ Idle /\ UNCHANGED <<up, life, counter, queue, verdict, demo, panicVars, ghostVars>>
        /\ list' = list /\ key' = {}
        /\ demo => todo' = todo
        /\ ~demo => todo' = <<[rpc |-> "protect"]>> \/ todo' = <<[rpc |-> "unprotect"]>>
    BY <1>3 DEF ProtectEnter, ProtectUndo, Ready, daemonVars, listVars, screenVars
  <2>2. todo = <<>>
    BY <2>1 DEF Idle
  <2>3. todo' \in Seq(Call) /\ Answering(todo') = {}
    BY <2>1, <2>2, CallsAre DEF CockpitInv, CockpitTypeOK
  <2> QED
    BY <2>1, <2>3, QuietStep
<1>4. CASE PressKey \/ \E i \in DOMAIN list : PressButton(i)
  <2>1. CASE PressKey
    BY <2>1, PressStep DEF PressKey
  <2>2. ASSUME NEW i \in DOMAIN list, PressButton(i) PROVE CockpitInv'
    <3>1. ~demo => {i} \in {{}} \cup {{j} : j \in Nat}
      <4>1. ~demo => list \in Seq(Card)
        BY DEF CockpitInv, CockpitTypeOK
      <4>2. ~demo => i \in Nat
        BY <4>1
      <4> QED
        BY <4>2, Zenon
    <3> QED
      BY <2>2, <3>1, PressStep DEF PressButton
  <2> QED
    BY <1>4, <2>1, <2>2
<1>6. CASE \E allow \in BOOLEAN : Resolve(allow)
  BY <1>6, ResolveStep
<1>5. CASE KeyPanic
  BY <1>5, KeyPanicStep
<1> QED
  BY <1>1, <1>2, <1>3, <1>4, <1>5, <1>6 DEF Handlers

\* No step of the cockpit, the daemon or those who use it breaks the invariant.
LEMMA CockpitNextInv == CockpitInv /\ [CockpitNext]_cockpitVars => CockpitInv'
<1> SUFFICES ASSUME CockpitInv, [CockpitNext]_cockpitVars PROVE CockpitInv'
  OBVIOUS
<1>1. CASE Environment
  BY <1>1, AskStep, ExpireStep, CrashStep, RestartStep DEF Environment
<1>2. CASE \E asked, heard \in BOOLEAN : Requests(asked, heard)
  BY <1>2, RpcPendingStep, VaultStep, RpcRespondStep DEF Requests
<1>3. CASE DenyNext
  BY <1>3, DenyNextStep
<1>4. CASE Panicked
  BY <1>4, PanickedStep
<1>5. CASE Handlers
  BY <1>5, HandlersStep
<1>6. CASE UNCHANGED cockpitVars
  <2>1. UNCHANGED <<up, life, counter, queue, verdict, demo, list, todo, panicking, doomed,
                    panic, astray, key, selected, view>>
    BY <1>6 DEF cockpitVars, daemonVars, listVars, panicVars, ghostVars, screenVars
  <2>2. CockpitTypeOK' /\ HandlersAgree' /\ AimsAgree'
    BY <2>1, AimsKept DEF CockpitInv, CockpitTypeOK, HandlersAgree
  <2> QED
    BY <2>1, <2>2, SeenKept, CockpitFrame
<1> QED
  BY <1>1, <1>2, <1>3, <1>4, <1>5, <1>6 DEF CockpitNext

\* The inductive invariant, for any number of asks, cards, restarts and values.
THEOREM CockpitInvariant == CockpitSpec => []CockpitInv
BY CockpitInitInv, CockpitNextInv, PTL DEF CockpitSpec

\* A key or a click answers the action it was aimed at when it was pressed, unless a
\* refresh began before it was handled, or the daemon has been started again since the card
\* was listed: an id names one action in one life, however stale the list is.
THEOREM AnswersGoToTheirCard == CockpitSpec => []AnswersReachTheirCard
<1>1. CockpitInv => AnswersReachTheirCard
  BY DEF CockpitInv
<1> QED
  BY <1>1, CockpitInvariant, PTL

\* When `panic_all` reports and the daemon heard its denials, nothing it listed waits.
THEOREM PanicDeniesAll == CockpitSpec => []PanicLeavesNoneWaiting
<1>1. CockpitInv => PanicLeavesNoneWaiting
  <2> SUFFICES ASSUME CockpitInv, todo = <<>>, ~panicking, ~demo, panic.heard
               PROVE  \A a \in panic.shown : ~Waiting(a)
    BY DEF PanicLeavesNoneWaiting
  <2>1. Owed = {}
    BY CallsAre, RangeIs DEF CockpitInv, HandlersAgree, CockpitTypeOK, Owed
  <2> QED
    BY <2>1 DEF CockpitInv, PanicAgrees
<1> QED
  BY <1>1, CockpitInvariant, PTL
-----------------------------------------------------------------------------
(* The vaults. *)

\* What `add_protected` pushes joins the protected values.
LEMMA ProtectedAppend ==
  ASSUME TypeOK, NEW v \in Values, data_protection' = Append(data_protection, v)
  PROVE  /\ data_protection' \in Seq(Values)
         /\ Protected \subseteq Protected'
<1>1. \A n \in DOMAIN data_protection :
         n \in DOMAIN data_protection' /\ data_protection'[n] = data_protection[n]
  BY DEF TypeOK
<1> QED
  BY <1>1 DEF TypeOK, Protected

\* What `remove_last_protected` pops is the only value that may leave.
LEMMA ProtectedPop ==
  ASSUME TypeOK, data_protection # <<>>,
         data_protection' = SubSeq(data_protection, 1, Len(data_protection) - 1)
  PROVE  /\ data_protection' \in Seq(Values)
         /\ data_protection[Len(data_protection)] \in Values
         /\ Protected \ {data_protection[Len(data_protection)]} \subseteq Protected'
<1>1. Len(data_protection) \in Nat \ {0}
  BY DEF TypeOK
<1>2. data_protection' = [n \in 1..(Len(data_protection) - 1) |-> data_protection[n]]
  BY <1>1
<1>3. /\ data_protection' \in Seq(Values)
      /\ DOMAIN data_protection' = 1..(Len(data_protection) - 1)
      /\ DOMAIN data_protection = 1..Len(data_protection)
  BY <1>1, <1>2 DEF TypeOK
<1> QED
  BY <1>1, <1>2, <1>3 DEF TypeOK, Protected

\* The protected values are values.
LEMMA ProtectedValues == TypeOK => Protected \subseteq Values
BY DEF TypeOK, Protected

\* Nothing is protected while `tokenization_on` is false.
LEMMA PlainIsUnprotected == ASSUME TypeOK, ~Tokenization PROVE Protected = {}
BY DEF TypeOK, Protected, Tokenization

\* A set of values is told from the mark of a session that has not begun.
LEMMA BegunIsValues == ASSUME NEW S \in SUBSET Values PROVE S # NotBegun
BY ValuesAssumption DEF NotBegun

\* What a forwarded call carries does not change until it returns.
LEMMA HomeKept ==
  ASSUME TokensResolveAtHome,
         \A c \in Calls : pc'[c] = "forwarded" =>
             /\ pc[c] = "forwarded"
             /\ args'[c] = args[c] /\ sent'[c] = sent[c] /\ session'[c] = session[c]
  PROVE  TokensResolveAtHome'
<1> SUFFICES ASSUME NEW c \in Calls, NEW s \in Sessions, NEW v \in Values,
                    pc'[c] = "forwarded", args'[c] = {<<s, v>>}
             PROVE  sent'[c] = {Resolved(session'[c], s, v)}
  BY DEF TokensResolveAtHome
<1> QED
  BY DEF TokensResolveAtHome

LEMMA InitIInv == Init => IInv
<1> SUFFICES ASSUME Init PROVE IInv
  OBVIOUS
<1>1. TypeOK
  BY DEF Init, TypeOK, PCs
<1>2. CallsAgree /\ TokensAreMinted /\ VaultsAgree /\ SinceIsKnown
  BY DEF Init, CallsAgree, TokensAreMinted, VaultsAgree, SinceIsKnown
<1>3. TokensResolveAtHome /\ ProtectedIsTokenized
  BY DEF Init, TokensResolveAtHome, ProtectedIsTokenized
<1> QED
  BY <1>1, <1>2, <1>3 DEF IInv
-----------------------------------------------------------------------------
(* The steps of a call. *)

\* The session of the call begins, if it has not: what is protected and has reached
\* the vaults is on the list, and no vault is there yet.
LEMMA StartStep ==
  ASSUME IInv, NEW c \in Calls, NEW s \in Sessions, NEW token \in OneAtMost(Tokens),
         Start(c, s, token)
  PROVE  IInv'
<1> USE DEF IInv
<1>0. /\ token \in SUBSET Tokens
      /\ \A t \in token : t[2] \in vaults[t[1]].minted
  BY DEF OneAtMost, Start, Tokens
<1>1. Protected' = Protected /\ Protected \subseteq Values /\ Protected \ adding \in SUBSET Values
  BY ProtectedValues DEF Start, Protected
<1>2. /\ since'[s] \in SUBSET Values
      /\ since'[s] # NotBegun
      /\ since'[s] \subseteq Protected
      /\ \A r \in Sessions : r # s => since'[r] = since[r]
      /\ since[s] # NotBegun => since'[s] = since[s]
  BY <1>1, BegunIsValues DEF ShowNothing, Start, TypeOK, SinceIsKnown
<1>3. TypeOK'
  BY <1>0, <1>2 DEF ShowNothing, Start, TypeOK, PCs
<1>4. CallsAgree'
  BY <1>2, PlainIsUnprotected DEF ShowNothing, Start, TypeOK, CallsAgree, Vault
<1>5. TokensAreMinted'
  BY <1>0 DEF ShowNothing, Start, TypeOK, TokensAreMinted
<1>6. VaultsAgree'
  BY <1>2 DEF Start, VaultsAgree
<1>7. SinceIsKnown'
  BY <1>1, <1>2 DEF ShowNothing, Start, TypeOK, SinceIsKnown, VaultsAgree, CallsAgree, Vault
<1>8. TokensResolveAtHome'
  BY HomeKept DEF ShowNothing, Start, TypeOK
<1>9. ProtectedIsTokenized'
  BY DEF ShowNothing, Start, ProtectedIsTokenized
<1> QED
  BY <1>3, <1>4, <1>5, <1>6, <1>7, <1>8, <1>9

\* `with_vault`, first lock: the clone holds what has been protected since.
LEMMA SeedStep ==
  ASSUME IInv, NEW c \in Calls, Seed(c)
  PROVE  IInv'
<1> USE DEF IInv
<1>1. Protected' = Protected /\ Protected \subseteq Values
  BY ProtectedValues DEF Seed, Protected
<1>2. TypeOK'
  BY <1>1 DEF ShowNothing, Seed, TypeOK, PCs
<1>3. CallsAgree' /\ TokensAreMinted' /\ VaultsAgree'
  BY DEF ShowNothing, Seed, TypeOK, CallsAgree, TokensAreMinted, VaultsAgree, Vault
<1>4. SinceIsKnown'
  BY <1>1 DEF ShowNothing, Seed, TypeOK, CallsAgree, SinceIsKnown, Vault
<1>5. TokensResolveAtHome' /\ ProtectedIsTokenized'
  BY HomeKept DEF ShowNothing, Seed, TypeOK, ProtectedIsTokenized
<1> QED
  BY <1>2, <1>3, <1>4, <1>5

\* ... second lock, and the arguments are detokenized: a vault made here is seeded
\* with what has been protected since, and a token of the session is in the vault.
LEMMA OutboundStep ==
  ASSUME IInv, NEW c \in Calls, Outbound(c)
  PROVE  IInv'
<1> USE DEF IInv
<1> DEFINE s == session[c]
<1>1. s \in Sessions /\ since[s] # NotBegun
  BY DEF Outbound, CallsAgree
<1>2. /\ vaults'[s].open
      /\ vaults'[s].minted = vaults[s].minted
      /\ vaults'[s].known \in SUBSET Values
      /\ since[s] \subseteq vaults'[s].known \cup Short
      /\ vaults' \in [Sessions -> [open : BOOLEAN, known : SUBSET Values, minted : SUBSET Values]]
      /\ \A r \in Sessions : r # s => vaults'[r] = vaults[r]
  <2>1. Opened(c) \in [open : BOOLEAN, known : SUBSET Values, minted : SUBSET Values]
    BY <1>1 DEF TypeOK, Opened, Vault, Learn
  <2>2. Opened(c).open /\ Opened(c).minted = vaults[s].minted
    BY <1>1 DEF TypeOK, Opened, Vault, VaultsAgree
  <2>3. since[s] \subseteq Opened(c).known \cup Short
    BY <1>1 DEF Outbound, Opened, Vault, Learn, SinceIsKnown
  <2> QED
    BY <1>1, <2>1, <2>2, <2>3 DEF ShowNothing, Outbound, TypeOK
<1>3. TypeOK'
  BY <1>2 DEF ShowNothing, Outbound, TypeOK, PCs
<1>4. CallsAgree'
  BY <1>1, <1>2 DEF ShowNothing, Outbound, TypeOK, CallsAgree, Vault
<1>5. TokensAreMinted'
  <2> SUFFICES ASSUME NEW b \in Calls, NEW t \in args[b]
               PROVE  t[2] \in vaults'[t[1]].minted
    BY DEF Outbound, TokensAreMinted
  <2> t[1] \in Sessions /\ t[2] \in vaults[t[1]].minted
    BY DEF TypeOK, TokensAreMinted, Tokens
  <2> QED
    BY <1>2
<1>6. VaultsAgree'
  BY <1>1, <1>2 DEF Outbound, VaultsAgree
<1>7. SinceIsKnown'
  BY <1>1, <1>2 DEF ShowNothing, Outbound, TypeOK, CallsAgree, SinceIsKnown, Vault, Protected
<1>8. TokensResolveAtHome'
  <2> SUFFICES ASSUME NEW b \in Calls, NEW r \in Sessions, NEW v \in Values,
                      pc'[b] = "forwarded", args[b] = {<<r, v>>}
               PROVE  sent'[b] = {Resolved(session[b], r, v)}
    BY DEF Outbound, TokensResolveAtHome
  <2>1. CASE b # c
    BY <2>1 DEF ShowNothing, Outbound, TypeOK, TokensResolveAtHome
  <2>2. CASE b = c
    <3>1. v \in vaults[r].minted
      <4>1. <<r, v>> \in args[b]
        OBVIOUS
      <4> QED
        BY <4>1 DEF TokensAreMinted
    <3>2. r = s => vaults[r].open /\ Opened(c) = vaults[r]
      BY <3>1 DEF VaultsAgree, Opened, Vault
    <3>3. sent'[c] = {Detokenize(c, <<r, v>>)}
      BY <2>2 DEF ShowNothing, Outbound, TypeOK
    <3>4. Detokenize(c, <<r, v>>) = Resolved(s, r, v)
      BY <3>1, <3>2, Zenon DEF Detokenize, Resolved
    <3> QED
      BY <2>2, <3>3, <3>4
  <2> QED
    BY <2>1, <2>2
<1>9. ProtectedIsTokenized'
  BY DEF ShowNothing, Outbound, ProtectedIsTokenized
<1> QED
  BY <1>3, <1>4, <1>5, <1>6, <1>7, <1>8, <1>9

\* A call returns: what it held is gone, and the vault of its session, if it changed,
\* only gained tokens.
LEMMA FinishStep ==
  ASSUME IInv, NEW c \in Calls, Finish(c), pc[c] # "idle",
         UNCHANGED <<data_protection, detector, found, adding, since>>,
         \/ vaults' = vaults
         \/ \E new \in SUBSET Values :
               /\ vaults[session[c]].open
               /\ vaults' = [vaults EXCEPT ![session[c]].minted = @ \cup new],
         shown' \subseteq Values \X (Places \cup {"error"}),
         ProtectedIsTokenized'
  PROVE  IInv'
<1> USE DEF IInv
<1>1. /\ vaults' \in [Sessions -> [open : BOOLEAN, known : SUBSET Values, minted : SUBSET Values]]
      /\ \A s \in Sessions : /\ vaults'[s].open = vaults[s].open
                             /\ vaults'[s].known = vaults[s].known
                             /\ vaults[s].minted \subseteq vaults'[s].minted
                             /\ ~vaults[s].open => vaults'[s] = vaults[s]
  <2>1. CASE vaults' = vaults
    BY <2>1 DEF TypeOK
  <2>2. ASSUME NEW new \in SUBSET Values, vaults[session[c]].open,
               vaults' = [vaults EXCEPT ![session[c]].minted = @ \cup new]
        PROVE  <1>1!:
    <3> DEFINE old == vaults[session[c]]
               after == [old EXCEPT !.minted = old.minted \cup new]
    <3>1. session[c] \in Sessions
      BY DEF CallsAgree
    <3>2. old \in [open : BOOLEAN, known : SUBSET Values, minted : SUBSET Values]
      BY <3>1 DEF TypeOK
    <3>3. /\ after \in [open : BOOLEAN, known : SUBSET Values, minted : SUBSET Values]
          /\ after.open = old.open /\ after.known = old.known /\ old.minted \subseteq after.minted
      BY <3>2
    <3>4. vaults' = [vaults EXCEPT ![session[c]] = after]
      BY <2>2
    <3>5. vaults \in [Sessions -> [open : BOOLEAN, known : SUBSET Values, minted : SUBSET Values]]
      BY DEF TypeOK
    <3> HIDE DEF after, IInv
    <3>6. vaults' \in [Sessions -> [open : BOOLEAN, known : SUBSET Values, minted : SUBSET Values]]
      BY <3>1, <3>3, <3>4, <3>5
    <3>7. vaults'[session[c]] = after /\ \A s \in Sessions : s # session[c] => vaults'[s] = vaults[s]
      BY <3>1, <3>4, <3>5
    <3> QED
      BY <2>2, <3>3, <3>6, <3>7
  <2> QED
    BY <2>1, <2>2
<1>2. TypeOK'
  BY <1>1 DEF Finish, TypeOK, PCs
<1>3. CallsAgree' /\ VaultsAgree' /\ SinceIsKnown'
  BY <1>1 DEF Finish, TypeOK, CallsAgree, VaultsAgree, SinceIsKnown, Vault, Protected
<1>4. TokensAreMinted'
  <2> SUFFICES ASSUME NEW b \in Calls, NEW t \in args'[b]
               PROVE  t[2] \in vaults'[t[1]].minted
    BY DEF TokensAreMinted
  <2> t[1] \in Sessions /\ t[2] \in vaults[t[1]].minted
    BY DEF Finish, TypeOK, TokensAreMinted, Tokens
  <2> QED
    BY <1>1
<1>5. TokensResolveAtHome' /\ ProtectedIsTokenized'
  BY HomeKept DEF Finish, TypeOK
<1> QED
  BY <1>2, <1>3, <1>4, <1>5

\* What a session is shown keeps its type and the promise.
LEMMA ShowStep ==
  ASSUME NEW c \in Calls, NEW seen \in SUBSET (Values \X (Places \cup {"error"})),
         Show(c, seen),
         \A x \in seen : x[2] = "string" /\ x[1] \in since[session[c]] => x[1] \in Short
  PROVE  shown' \subseteq Values \X (Places \cup {"error"}) /\ ProtectedIsTokenized'
BY DEF Show, ProtectedIsTokenized

\* A call that is forwarded as it is began with nothing protected.
LEMMA ReturnPlainStep ==
  ASSUME IInv, NEW c \in Calls, NEW answer \in OneAtMost(Results), ReturnPlain(c, answer)
  PROVE  IInv'
<1>1. since[session[c]] = {}
  BY DEF IInv, CallsAgree, ReturnPlain
<1>2. answer \in SUBSET (Values \X (Places \cup {"error"}))
  BY DEF OneAtMost, Results
<1>3. shown' \subseteq Values \X (Places \cup {"error"}) /\ ProtectedIsTokenized'
  BY <1>1, <1>2, ShowStep DEF ReturnPlain
<1> QED
  BY <1>3, FinishStep DEF ReturnPlain

\* The text of an error is no string of a result.
LEMMA UpstreamFailsStep ==
  ASSUME IInv, NEW c \in Calls, NEW text \in OneAtMost(Values), UpstreamFails(c, text)
  PROVE  IInv'
<1>1. /\ text \X {"error"} \in SUBSET (Values \X (Places \cup {"error"}))
      /\ \A x \in text \X {"error"} : x[2] # "string"
  BY DEF OneAtMost
<1>2. shown' \subseteq Values \X (Places \cup {"error"}) /\ ProtectedIsTokenized'
  BY <1>1, ShowStep DEF UpstreamFails
<1> QED
  BY <1>2, FinishStep DEF UpstreamFails

LEMMA ReturnStep ==
  ASSUME IInv, NEW c \in Calls, NEW answer \in OneAtMost(Results),
         NEW finds \in OneAtMost(Values), Return(c, answer, finds)
  PROVE  IInv'
<1> USE DEF IInv
<1>0. answer \in SUBSET Results /\ finds \in SUBSET Values
  BY DEF OneAtMost
<1>1. TypeOK'
  BY <1>0 DEF ShowNothing, Return, TypeOK, PCs
<1>2. CallsAgree' /\ TokensAreMinted' /\ VaultsAgree' /\ SinceIsKnown'
  BY DEF ShowNothing, Return, TypeOK, CallsAgree, TokensAreMinted, VaultsAgree, SinceIsKnown, Vault, Protected
<1>3. TokensResolveAtHome' /\ ProtectedIsTokenized'
  BY HomeKept DEF ShowNothing, Return, TypeOK, ProtectedIsTokenized
<1> QED
  BY <1>1, <1>2, <1>3

\* A vault that learns keeps its tokens and what it knows.
LEMMA LearnStep ==
  ASSUME IInv, pc' \in [Calls -> PCs], found' \in [Calls -> SUBSET Values],
         adding' \subseteq Values,
         \A c \in Calls : \/ pc'[c] = pc[c]
                          \/ pc[c] = "learn" /\ pc'[c] = "returned",
         vaults' \in [Sessions -> [open : BOOLEAN, known : SUBSET Values, minted : SUBSET Values]],
         \A s \in Sessions : /\ vaults'[s].open = vaults[s].open
                             /\ vaults'[s].minted = vaults[s].minted
                             /\ vaults[s].known \subseteq vaults'[s].known,
         UNCHANGED <<data_protection, detector, session, args, seed, sent, result, since>>,
         ShowNothing
  PROVE  IInv'
<1> USE DEF IInv
<1>1. TypeOK'
  BY DEF ShowNothing, TypeOK
<1>2. CallsAgree' /\ VaultsAgree'
  BY DEF CallsAgree, VaultsAgree, Vault
<1>5. SinceIsKnown'
  <2>1. Protected' = Protected
    BY DEF Protected
  <2> QED
    BY <2>1 DEF CallsAgree, SinceIsKnown, Vault
<1>3. TokensAreMinted'
  <2> SUFFICES ASSUME NEW b \in Calls, NEW t \in args[b]
               PROVE  t[2] \in vaults'[t[1]].minted
    BY DEF TokensAreMinted
  <2> t[1] \in Sessions /\ t[2] \in vaults[t[1]].minted
    BY DEF TypeOK, TokensAreMinted, Tokens
  <2> QED
    OBVIOUS
<1>4. TokensResolveAtHome' /\ ProtectedIsTokenized'
  BY HomeKept DEF ShowNothing, ProtectedIsTokenized
<1> QED
  BY <1>1, <1>2, <1>3, <1>4, <1>5

LEMMA LearnFoundStep ==
  ASSUME IInv, NEW c \in Calls, LearnFound(c)
  PROVE  IInv'
<1>1. session[c] \in Sessions /\ found[c] \in SUBSET Values
  BY DEF ShowNothing, IInv, CallsAgree, TypeOK, LearnFound
<1>2. /\ vaults' \in [Sessions -> [open : BOOLEAN, known : SUBSET Values, minted : SUBSET Values]]
      /\ \A s \in Sessions : /\ vaults'[s].open = vaults[s].open
                             /\ vaults'[s].minted = vaults[s].minted
                             /\ vaults[s].known \subseteq vaults'[s].known
  <2> DEFINE old == vaults[session[c]]
             new == [old EXCEPT !.known = Learn(old.known, found[c])]
  <2>1. vaults' = [vaults EXCEPT ![session[c]] = new]
    BY DEF LearnFound
  <2>2. old \in [open : BOOLEAN, known : SUBSET Values, minted : SUBSET Values]
    BY <1>1 DEF IInv, TypeOK
  <2>3. /\ new \in [open : BOOLEAN, known : SUBSET Values, minted : SUBSET Values]
        /\ new.open = old.open /\ new.minted = old.minted /\ old.known \subseteq new.known
    BY <1>1, <2>2 DEF Learn
  <2> HIDE DEF new
  <2> QED
    BY <1>1, <2>1, <2>3 DEF IInv, TypeOK
<1>3. /\ pc' \in [Calls -> PCs]
      /\ found' \in [Calls -> SUBSET Values]
      /\ \A b \in Calls : pc'[b] = pc[b] \/ (pc[b] = "learn" /\ pc'[b] = "returned")
  BY DEF ShowNothing, IInv, TypeOK, PCs, LearnFound
<1> QED
  BY <1>2, <1>3, LearnStep DEF ShowNothing, IInv, TypeOK, LearnFound

\* `tokenize_json`: what the session's vault knows is replaced in the strings, so nothing
\* protected since the session began is shown there, short values excepted.
LEMMA InboundStep ==
  ASSUME IInv, NEW c \in Calls, Inbound(c)
  PROVE  IInv'
<1> DEFINE seen == result[c] \ (Tokenized(c) \X {"string"})
<1>1. /\ session[c] \in Sessions
      /\ Vault(c).open
      /\ since[session[c]] \subseteq Vault(c).known \cup Short
  BY DEF IInv, TypeOK, CallsAgree, SinceIsKnown, Vault, Inbound
<1>2. Tokenized(c) \in SUBSET Values
  BY DEF Tokenized, Spans, InStrings
<1>3. result[c] \in SUBSET (Values \X Places)
  BY DEF IInv, TypeOK, Results
<1>4. ASSUME NEW x \in seen, x[2] = "string", x[1] \in since[session[c]]
      PROVE  x[1] \in Short
  <2>1. x = <<x[1], "string">> /\ x[1] \in Values /\ x \in result[c]
    BY <1>3, <1>4
  <2>2. x[1] \notin Tokenized(c)
    BY <1>4, <2>1
  <2> QED
    BY <1>1, <1>4, <2>1, <2>2 DEF Tokenized, Spans, InStrings
<1>5. seen \in SUBSET (Values \X (Places \cup {"error"}))
  BY <1>3
<1>6. Show(c, seen)
  BY DEF Inbound
<1> HIDE DEF seen
<1>7. shown' \subseteq Values \X (Places \cup {"error"}) /\ ProtectedIsTokenized'
  BY <1>4, <1>5, <1>6, ShowStep
<1> QED
  BY <1>1, <1>2, <1>7, FinishStep DEF Inbound, Vault
-----------------------------------------------------------------------------
(* The cockpit's steps. *)

LEMMA AddListStep ==
  ASSUME IInv, NEW v \in Values, AddList(v)
  PROVE  IInv'
<1> USE DEF IInv
<1>1. data_protection' \in Seq(Values) /\ Protected \subseteq Protected'
  BY ProtectedAppend DEF AddList
<1>2. TypeOK'
  BY <1>1 DEF ShowNothing, AddList, TypeOK, callVars
<1>3. CallsAgree' /\ TokensAreMinted' /\ VaultsAgree'
  BY DEF AddList, callVars, CallsAgree, TokensAreMinted, VaultsAgree, Vault
<1>4. SinceIsKnown'
  BY <1>1 DEF AddList, callVars, SinceIsKnown, Vault
<1>5. TokensResolveAtHome' /\ ProtectedIsTokenized'
  BY HomeKept DEF ShowNothing, AddList, callVars, ProtectedIsTokenized
<1> QED
  BY <1>2, <1>3, <1>4, <1>5

LEMMA AddVaultsStep ==
  ASSUME IInv, AddVaults
  PROVE  IInv'
<1>1. /\ vaults' \in [Sessions -> [open : BOOLEAN, known : SUBSET Values, minted : SUBSET Values]]
      /\ \A s \in Sessions : /\ vaults'[s].open = vaults[s].open
                             /\ vaults'[s].minted = vaults[s].minted
                             /\ vaults[s].known \subseteq vaults'[s].known
  BY DEF ShowNothing, IInv, TypeOK, AddVaults, Learn
<1> QED
  BY <1>1, LearnStep DEF ShowNothing, IInv, TypeOK, AddVaults, callVars

LEMMA RemoveLastStep ==
  ASSUME IInv, RemoveLast
  PROVE  IInv'
<1> USE DEF IInv
<1> DEFINE last == data_protection[Len(data_protection)]
<1>1. /\ data_protection' \in Seq(Values)
      /\ last \in Values
      /\ Protected \ {last} \subseteq Protected'
  BY ProtectedPop DEF RemoveLast
<1>2. /\ since' \in [Sessions -> (SUBSET Values) \cup {NotBegun}]
      /\ \A s \in Sessions : /\ since[s] = NotBegun => since'[s] = NotBegun
                             /\ since[s] # NotBegun => since'[s] = since[s] \ {last}
                             /\ since[s] # NotBegun => since'[s] # NotBegun
                             /\ since[s] # NotBegun => since'[s] \subseteq since[s]
  <2>1. NotBegun \ {last} = NotBegun
    BY <1>1, ValuesAssumption DEF NotBegun
  <2>2. \A s \in Sessions : since[s] # NotBegun => since[s] \ {last} \in SUBSET Values
    BY DEF TypeOK
  <2> HIDE DEF last
  <2>3. since' = [s \in Sessions |-> since[s] \ {last}]
    BY DEF RemoveLast, last
  <2> QED
    BY <2>1, <2>2, <2>3, BegunIsValues DEF TypeOK
<1> HIDE DEF last
<1>3. TypeOK'
  BY <1>1, <1>2 DEF ShowNothing, RemoveLast, TypeOK, callVars
<1>4. CallsAgree'
  BY <1>2 DEF ShowNothing, RemoveLast, TypeOK, callVars, CallsAgree, Vault
<1>5. TokensAreMinted' /\ VaultsAgree'
  BY <1>2 DEF RemoveLast, callVars, TokensAreMinted, VaultsAgree
<1>6. SinceIsKnown'
  <2>0. /\ UNCHANGED <<vaults, pc, session, seed>>
        /\ \A c \in Calls : pc[c] = "vault" => session[c] \in Sessions /\ since[session[c]] # NotBegun
    BY DEF RemoveLast, callVars, CallsAgree
  <2>1. ASSUME NEW s \in Sessions, since'[s] # NotBegun
        PROVE  /\ since'[s] \subseteq Protected'
               /\ vaults'[s].open => since'[s] \subseteq vaults'[s].known \cup Short
    <3>1. since[s] # NotBegun /\ since'[s] = since[s] \ {last}
      BY <1>2, <2>1
    <3>2. since[s] \subseteq Protected /\ (vaults[s].open => since[s] \subseteq vaults[s].known \cup Short)
      BY <3>1 DEF SinceIsKnown
    <3> QED
      BY <1>1, <2>0, <3>1, <3>2
  <2>2. ASSUME NEW c \in Calls, pc'[c] = "vault", ~Vault(c)'.open
        PROVE  since'[session'[c]] \subseteq seed'[c]
    <3>1. pc[c] = "vault" /\ ~Vault(c).open
      BY <2>0, <2>2 DEF Vault
    <3>2. since[session[c]] \subseteq seed[c]
      BY <3>1 DEF SinceIsKnown
    <3> QED
      BY <1>2, <2>0, <3>1, <3>2
  <2> QED
    BY <2>1, <2>2 DEF SinceIsKnown
<1>7. TokensResolveAtHome' /\ ProtectedIsTokenized'
  BY HomeKept DEF ShowNothing, RemoveLast, callVars, ProtectedIsTokenized
<1> QED
  BY <1>3, <1>4, <1>5, <1>6, <1>7
-----------------------------------------------------------------------------
LEMMA NextIInv == IInv /\ [Next]_vars => IInv'
<1> SUFFICES ASSUME IInv, [Next]_vars PROVE IInv'
  OBVIOUS
<1>1. ASSUME NEW c \in Calls, Handle(c) PROVE IInv'
  BY <1>1, StartStep, SeedStep, OutboundStep, UpstreamFailsStep, ReturnPlainStep, ReturnStep,
     LearnFoundStep, InboundStep DEF Handle
<1>2. CASE UNCHANGED vars
  BY <1>2 DEF vars, IInv, TypeOK, CallsAgree, TokensAreMinted, VaultsAgree, SinceIsKnown, Vault,
     Protected, TokensResolveAtHome, ProtectedIsTokenized
<1> QED
  BY <1>1, <1>2, AddListStep, AddVaultsStep, RemoveLastStep DEF Next

\* The inductive invariant of the vaults, for any calls, sessions and values.
THEOREM VaultsInvariant == Spec => []IInv
BY InitIInv, NextIInv, PTL DEF Spec

\* `detokenize` in the vault of the call's own session: a token reaches the upstream as
\* its value exactly in a call of the session that minted it.
THEOREM TokensAtHome == Spec => []TokensResolveAtHome
<1>1. IInv => TokensResolveAtHome
  BY DEF IInv
<1> QED
  BY <1>1, VaultsInvariant, PTL

\* `with_vault`, `add_protected` and `tokenize_json` between them never show a session, in
\* a string of a result, a value that was protected before it began and ever since, unless
\* `learn` ignores it.  (Keys, numbers and error texts are not tokenized at all.)
THEOREM ResultStringsAreTokenized == Spec => []ProtectedIsTokenized
<1>1. IInv => ProtectedIsTokenized
  BY DEF IInv
<1> QED
  BY <1>1, VaultsInvariant, PTL
=============================================================================
