--------------------------- MODULE McpProxyProofs ---------------------------
(***************************************************************************)
(* The MCP proxy keeps its safety promises for any upstreams, tools, lines *)
(* and number of stray answers: calls of advertised tools reach their      *)
(* owner, a credential goes to its own upstream, and the agent's answers   *)
(* match its lines.  One lemma per action; the frame lemmas say what a     *)
(* step that leaves the agent's side alone leaves true.                    *)
(***************************************************************************)
EXTENDS McpProxy, SequenceTheorems, TLAPS

-----------------------------------------------------------------------------
(* Sequences and labels. *)

\* What the agent's side appends comes last and moves nothing.
LEMMA AppendIs ==
  ASSUME NEW S, NEW s \in Seq(S), NEW e \in S
  PROVE  /\ Append(s, e) \in Seq(S)
         /\ Len(Append(s, e)) = Len(s) + 1
         /\ DOMAIN s = 1..Len(s) /\ DOMAIN Append(s, e) = 1..(Len(s) + 1)
         /\ \A i \in 1..Len(s) : Append(s, e)[i] = s[i]
         /\ Append(s, e)[Len(s) + 1] = e
         /\ Append(s, e) # <<>>
OBVIOUS

LEMMA SingleIs ==
  ASSUME NEW S, NEW e \in S
  PROVE  <<e>> \in Seq(S) /\ <<e>> # <<>> /\ <<>> \in Seq(S)
OBVIOUS

\* A name that begins with a label of one segment: `split_once` gives both back.
LEMMA SplitOnce ==
  ASSUME NEW label \in Seq(Segments), Len(label) = 1, NEW tool \in Seq(Segments), tool # <<>>
  PROVE  /\ Len(label \o tool) > 1
         /\ Label(label \o tool) = label
         /\ Tail(label \o tool) = tool
<1> DEFINE name == label \o tool
<1>0. Len(tool) \in Nat \ {0}
  OBVIOUS
<1>1. name \in Seq(Segments) /\ Len(name) = Len(tool) + 1
  <2>1. name \in Seq(Segments) /\ Len(name) = Len(label) + Len(tool)
    BY ConcatProperties
  <2> QED
    BY <1>0, <2>1
<1>2. name[1] = label[1] /\ \A i \in 1..Len(tool) : name[i + 1] = tool[i]
  BY <1>0, <1>1
<1>3. Label(name) = label
  <2>1. Head(name) = label[1]
    BY <1>1, <1>2
  <2> QED
    BY <2>1 DEF Label
<1>4. Tail(name) = tool
  <2>1. Tail(name) \in Seq(Segments) /\ Len(Tail(name)) = Len(tool)
    BY <1>0, <1>1
  <2>2. \A i \in 1..Len(tool) : Tail(name)[i] = name[i + 1]
    BY <1>0, <1>1
  <2> HIDE DEF name
  <2> QED
    BY <1>2, <2>1, <2>2
<1> QED
  BY <1>0, <1>1, <1>3, <1>4

\* The label of an upstream has a segment.
LEMMA LabelType ==
  ASSUME NEW spec \in Upstream, NEW single
  PROVE  LabelOf(spec, single) \in Name
<1>1. CASE spec.label # {}
  BY <1>1 DEF LabelOf, Upstream
<1>2. CASE spec.label = {} /\ single
  <2>1. LabelOf(spec, single) = <<"">>
    BY <1>2 DEF LabelOf
  <2>2. "" \in Segments
    BY McpAssumption
  <2>3. <<"">> \in Seq(Segments) /\ <<"">> # <<>>
    BY <2>2, SingleIs
  <2> QED
    BY <2>1, <2>3 DEF Name
<1>3. CASE spec.label = {} /\ ~single
  BY <1>3 DEF LabelOf, Upstream
<1> QED
  BY <1>1, <1>2, <1>3

LEMMA UpstreamsAre == TypeOK => Upstreams = 1..Len(setup) /\ Upstreams \subseteq Nat
BY DEF TypeOK, Upstreams

\* The registered upstreams are upstreams, and have labels.
LEMMA RegisteredAre ==
  ASSUME TypeOK
  PROVE  /\ 1..added \subseteq Upstreams /\ Upstreams = 1..Len(setup)
         /\ \A k \in 1..added : setup[k] \in Name
         /\ Len(setup) = 1 => \A k \in 1..added : k = 1
<1>1. setup \in Seq(Name) /\ added \in 0..Len(setup)
  BY DEF TypeOK
<1>2. Upstreams = 1..Len(setup) /\ Len(setup) \in Nat
  BY <1>1 DEF Upstreams
<1>3. 1..added \subseteq 1..Len(setup)
  BY <1>1, <1>2
<1>4. \A k \in 1..added : setup[k] \in Name
  BY <1>1, <1>3
<1>5. Len(setup) = 1 => \A k \in 1..added : k = 1
  BY <1>1
<1> QED
  BY <1>2, <1>3, <1>4, <1>5

\* A request uses up one id of its upstream.
LEMMA IdsGrow ==
  ASSUME TypeOK, NEW k \in Upstreams, ids' = [ids EXCEPT ![k] = @ + 1]
  PROVE  /\ ids' \in [Upstreams -> Nat] /\ ids[k] \in Nat /\ k \in Nat
         /\ \A j \in Upstreams : ids[j] =< ids'[j]
         /\ ids[k] < ids'[k]
<1>1. ids \in [Upstreams -> Nat] /\ Upstreams \subseteq Nat
  BY UpstreamsAre DEF TypeOK
<1>2. ids'[k] = ids[k] + 1 /\ \A j \in Upstreams \ {k} : ids'[j] = ids[j]
  BY <1>1
<1>3. ids' \in [Upstreams -> Nat]
  BY <1>1
<1> QED
  BY <1>1, <1>2, <1>3

\* What `route` finds is registered.
LEMMA RouteType ==
  ASSUME TypeOK, NEW name \in Seq(Segments), NEW r \in Route(name)
  PROVE  /\ r.upstream \in Upstreams /\ r.tool \in Seq(Segments)
         /\ r = [upstream |-> r.upstream, tool |-> r.tool]
<1>1. 1..added \subseteq Upstreams
  BY DEF TypeOK, Upstreams
<1>2. Len(name) > 1 => Tail(name) \in Seq(Segments)
  OBVIOUS
<1> QED
  <2>1. CASE Len(name) > 1 /\ Known(Label(name)) # {}
    <3>1. PICK k \in Known(Label(name)) : r = [upstream |-> k, tool |-> Tail(name)]
      BY <2>1 DEF Route
    <3> QED
      BY <1>1, <1>2, <2>1, <3>1 DEF Known
  <2>2. CASE ~(Len(name) > 1 /\ Known(Label(name)) # {})
    <3>1. PICK k \in Known(<<"">>) : r = [upstream |-> k, tool |-> name]
      BY <2>2 DEF Route
    <3> QED
      BY <1>1, <3>1 DEF Known
  <2> QED
    BY <2>1, <2>2

LEMMA CredentialType ==
  ASSUME NEW line \in Lines
  PROVE  Credential(line) \in Seq(Segments) \cup {AgentsOwn}
<1>1. line.name \in Seq(Segments)
  BY McpAssumption
<1>2. Target(line.name) \in Seq(Segments)
  <2>1. Len(line.name) > 1 => Head(line.name) \in Segments
    BY <1>1
  <2>2. Len(line.name) > 1 => <<Head(line.name)>> \in Seq(Segments)
    BY <2>1
  <2> QED
    BY <1>1, <2>2 DEF Target, Label
<1>3. <<>> \in Seq(Segments)
  OBVIOUS
<1> QED
  BY <1>2, <1>3 DEF Credential
-----------------------------------------------------------------------------
(* Frames. *)

LEMMA CredentialKept ==
  ASSUME UNCHANGED <<setup, added, brokered>>, NEW line
  PROVE  Credential(line)' = Credential(line)
BY DEF Credential, Known, Target, Label, Injects

\* A call that was written stays what it was while lines are read and ids are used up.
LEMMA RoutedKept ==
  ASSUME TypeOK, TypeOK', UNCHANGED <<setup, added, brokered>>,
         Len(lines) =< Len(lines'), \A n \in 1..Len(lines) : lines'[n] = lines[n],
         \A k \in Upstreams : ids[k] =< ids'[k],
         NEW f \in Forwarded, Routed(f)
  PROVE  Routed(f)'
<1>0. f.line \in 1..Len(lines) /\ f.id < ids[f.upstream]
  BY DEF Routed, This
<1>1. f.line \in 1..Len(lines') /\ lines'[f.line] = lines[f.line]
  <2>1. Len(lines) \in Nat /\ Len(lines') \in Nat
    BY DEF TypeOK
  <2> QED
    BY <1>0, <2>1
<1>2. [upstream |-> f.upstream, tool |-> f.tool] \in Route(lines[f.line].name)'
  <2>1. [upstream |-> f.upstream, tool |-> f.tool] \in Route(lines[f.line].name)
    BY DEF Routed
  <2>2. Known(Label(lines[f.line].name))' = Known(Label(lines[f.line].name))
    BY <1>1 DEF Known, Label
  <2>3. Known(<<"">>)' = Known(<<"">>)
    BY DEF Known
  <2> QED
    BY <1>1, <2>1, <2>2, <2>3 DEF Route
<1>3. f.credential = Credential(lines[f.line])'
  BY <1>1, CredentialKept DEF Routed, Credential, Known, Target, Label, Injects
<1>4. f.id < ids'[f.upstream]
  <2>1. f.id \in Nat /\ f.upstream \in Upstreams
    BY DEF Forwarded
  <2>2. ids[f.upstream] \in Nat /\ ids'[f.upstream] \in Nat
    <3>1. Upstreams' = Upstreams
      BY DEF Upstreams
    <3> QED
      BY <2>1, <3>1 DEF TypeOK
  <2>3. ids[f.upstream] =< ids'[f.upstream]
    BY <2>1
  <2> QED
    BY <1>0, <2>1, <2>2, <2>3
<1> QED
  BY <1>1, <1>2, <1>3, <1>4 DEF Routed, This

LEMMA ForwardsKept ==
  ASSUME TypeOK, TypeOK', ForwardsAgree, UNCHANGED <<setup, added, brokered, forwards>>,
         Len(lines) =< Len(lines'), \A n \in 1..Len(lines) : lines'[n] = lines[n],
         \A k \in Upstreams : ids[k] =< ids'[k]
  PROVE  ForwardsAgree'
<1>1. ASSUME NEW i \in DOMAIN forwards PROVE Routed(forwards[i])'
  <2>1. Routed(forwards[i]) /\ forwards'[i] = forwards[i]
    BY DEF ForwardsAgree
  <2>2. forwards[i] \in Forwarded
    BY DEF TypeOK
  <2> DEFINE f == forwards[i]
  <2> HIDE DEF f
  <2>3. Routed(f)'
    BY <2>1, <2>2, RoutedKept DEF f
  <2> QED
    BY <2>1, <2>3 DEF f, Routed
<1> QED
  BY <1>1 DEF ForwardsAgree

\* The same where the list of calls itself has changed elsewhere.
LEMMA RoutedStays ==
  ASSUME TypeOK, TypeOK', UNCHANGED <<setup, added, brokered, lines>>,
         \A k \in Upstreams : ids[k] =< ids'[k],
         NEW i, forwards[i] \in Forwarded, Routed(forwards[i]), forwards'[i] = forwards[i]
  PROVE  Routed(forwards[i])'
<1>1. PICK f \in Forwarded : f = forwards[i]
  OBVIOUS
<1>2. Len(lines) \in Nat
  BY DEF TypeOK
<1>3. Routed(f)'
  BY <1>1, <1>2, RoutedKept
<1> QED
  BY <1>1, <1>3 DEF Routed

\* An upstream's line, its death, or a line of it that is dropped.
LEMMA ServerFrame ==
  ASSUME IInv, TypeOK', UNCHANGED <<configVars, phase, added, stage, wait, lines, replies, forwards>>,
         UNCHANGED ids
  PROVE  IInv'
<1> USE DEF IInv, configVars
<1>1. LabelsAreUnique'
  BY DEF LabelsAreUnique
<1>2. StagesAgree'
  BY DEF StagesAgree, Upstreams, This
<1>3. ForwardsAgree'
  BY ForwardsKept DEF TypeOK
<1>4. WaitAgrees'
  BY DEF WaitAgrees, This
<1>5. AnswersMatch'
  BY DEF AnswersMatch, Due, Genuine, Sent, This
<1> QED
  BY <1>1, <1>2, <1>3, <1>4, <1>5

\* The answer for the line at hand: the next in order, and the only one due.
LEMMA AnswerIt ==
  ASSUME TypeOK, AnswersMatch, stage # "idle", lines # <<>>, NeedsReply(lines[This]),
         UNCHANGED <<lines, forwards>>, NEW body \in Bodies, Reply(This, body),
         Genuine([line |-> This, body |-> body])
  PROVE  AnswersMatch'
<1> DEFINE r == [line |-> This, body |-> body]
<1>0. This \in Nat \ {0} /\ r.line = This /\ r.body = body
  BY DEF TypeOK, This
<1>1. r \in Replied
  BY <1>0 DEF Replied
<1> HIDE DEF r
<1>2. replies' = Append(replies, r) /\ stage' = "idle" /\ This' = This
  BY DEF Reply, r, This
<1>3. /\ DOMAIN replies = 1..Len(replies) /\ DOMAIN replies' = 1..(Len(replies) + 1)
      /\ \A i \in 1..Len(replies) : replies'[i] = replies[i]
      /\ replies'[Len(replies) + 1] = r
      /\ Len(replies) \in Nat
  <2>1. replies \in Seq(Replied)
    BY DEF TypeOK
  <2> QED
    BY <1>1, <1>2, <2>1, AppendIs
<1>4. Due' = Due \cup {This}
  BY <1>0, <1>2 DEF Due, NeedsReply
<1>5. \A n \in Due : n < This
  BY <1>0 DEF Due
<1>6. {replies'[i].line : i \in DOMAIN replies'} = Due'
  BY <1>0, <1>3, <1>4 DEF AnswersMatch
<1>7. \A i \in 1..Len(replies) : replies[i].line < This
  BY <1>3, <1>5 DEF AnswersMatch
<1>8. \A i, j \in DOMAIN replies' : i < j => replies'[i].line < replies'[j].line
  <2> SUFFICES ASSUME NEW i \in DOMAIN replies', NEW j \in DOMAIN replies', i < j
               PROVE  replies'[i].line < replies'[j].line
    OBVIOUS
  <2>1. i \in 1..Len(replies)
    BY <1>3
  <2>2. CASE j = Len(replies) + 1
    BY <1>0, <1>3, <1>7, <2>1, <2>2
  <2>3. CASE j \in 1..Len(replies)
    BY <1>3, <2>1, <2>3 DEF AnswersMatch
  <2> QED
    BY <1>3, <2>2, <2>3
<1>9. ASSUME NEW i \in DOMAIN replies' PROVE Genuine(replies[i])'
  <2>1. CASE i = Len(replies) + 1
    BY <1>0, <1>3, <2>1 DEF Genuine, Sent, r
  <2>2. CASE i \in 1..Len(replies)
    BY <1>3, <2>2 DEF AnswersMatch, Genuine, Sent
  <2> QED
    BY <1>3, <2>1, <2>2
<1> QED
  BY <1>6, <1>8, <1>9 DEF AnswersMatch

\* A step that answers the line at hand, and may have used up an id.
LEMMA ReplyStep ==
  ASSUME IInv, phase = "serving", stage # "idle",
         NEW body \in Bodies, Reply(This, body), Genuine([line |-> This, body |-> body]),
         UNCHANGED <<configVars, phase, added, alive, listed, stray, lines, forwards>>,
         out' \in [Upstreams -> Seq(Said)], ids' \in [Upstreams -> Nat],
         \A k \in Upstreams : ids[k] =< ids'[k]
  PROVE  IInv'
<1> USE DEF IInv, configVars
<1>0. lines # <<>> /\ NeedsReply(lines[This]) /\ This \in Nat
  BY DEF StagesAgree, NeedsReply, Silent, TypeOK, This
<1>1. TypeOK'
  <2>1. [line |-> This, body |-> body] \in Replied
    BY <1>0 DEF Replied
  <2>2. replies' \in Seq(Replied)
    BY <2>1, AppendIs DEF Reply, TypeOK
  <2>3. wait' \in [upstream : Nat, id : Nat, method : Methods] /\ stage' \in Stages
    BY DEF Reply, NoWait, Methods, Stages
  <2> QED
    BY <2>2, <2>3 DEF TypeOK, Upstreams, Forwarded
<1>2. LabelsAreUnique'
  BY DEF LabelsAreUnique
<1>3. StagesAgree'
  BY DEF StagesAgree, Reply
<1>4. ForwardsAgree'
  BY <1>1, ForwardsKept DEF TypeOK
<1>5. WaitAgrees'
  BY DEF WaitAgrees, Reply
<1>6. AnswersMatch'
  BY <1>0, AnswerIt
<1> QED
  BY <1>1, <1>2, <1>3, <1>4, <1>5, <1>6

\* What the server says itself is no result of an upstream.
LEMMA ToldIs ==
  ASSUME NEW outcome \in Outcomes \ {"result"}, NEW n
  PROVE  Told(outcome) \in Bodies /\ Genuine([line |-> n, body |-> Told(outcome)])
BY DEF Told, Bodies, Genuine

\* The server ends: while it starts, or between two lines.
LEMMA ExitStep ==
  ASSUME IInv, Exit, phase = "spawning" \/ stage = "idle", TypeOK',
         UNCHANGED <<configVars, added>>, \A k \in Upstreams : ids[k] =< ids'[k]
  PROVE  IInv'
<1> USE DEF IInv, configVars
<1>1. LabelsAreUnique'
  BY DEF LabelsAreUnique
<1>2. StagesAgree'
  BY DEF StagesAgree, Exit
<1>3. ForwardsAgree'
  BY ForwardsKept DEF TypeOK, Exit
<1>4. WaitAgrees'
  BY DEF WaitAgrees, Exit
<1>5. AnswersMatch'
  <2>1. Due' = Due
    <3>1. CASE stage = "idle"
      BY <3>1 DEF Exit, Due, This
    <3>2. CASE phase = "spawning"
      <4>1. This = 0 /\ This' = 0
        BY <3>2 DEF StagesAgree, This, Exit
      <4> QED
        BY <4>1 DEF Due
    <3> QED
      BY <3>1, <3>2
  <2> QED
    BY <2>1 DEF Exit, AnswersMatch, Genuine, Sent
<1> QED
  BY <1>1, <1>2, <1>3, <1>4, <1>5

\* The wait and the stage of an exit have their types.
LEMMA ExitType ==
  ASSUME TypeOK, Exit, UNCHANGED <<configVars, added, stray>>,
         ids' \in [Upstreams -> Nat], alive' \in [Upstreams -> BOOLEAN],
         out' \in [Upstreams -> Seq(Said)], listed' \in [Upstreams -> BOOLEAN]
  PROVE  TypeOK'
BY DEF TypeOK, Exit, NoWait, Methods, Stages, configVars, Upstreams, Forwarded

LEMMA InitIInv == Init => IInv
<1> SUFFICES ASSUME Init PROVE IInv
  OBVIOUS
<1>1. setup \in Seq(Name)
  <2>1. PICK specs \in Setups : setup = [k \in DOMAIN specs |-> LabelOf(specs[k], Len(specs) = 1)]
    BY DEF Init
  <2>2. specs \in Seq(Upstream)
    BY McpAssumption
  <2>3. \A k \in 1..Len(specs) : LabelOf(specs[k], Len(specs) = 1) \in Name
    BY <2>2, LabelType
  <2> QED
    BY <2>1, <2>2, <2>3
<1>2. TypeOK
  BY <1>1 DEF Init, TypeOK, Upstreams, NoWait, Methods, Stages
<1>3. LabelsAreUnique
  BY DEF Init, LabelsAreUnique
<1>4. StagesAgree /\ ForwardsAgree /\ WaitAgrees
  BY DEF Init, StagesAgree, ForwardsAgree, WaitAgrees
<1>5. AnswersMatch
  BY DEF Init, AnswersMatch, Due, This
<1> QED
  BY <1>2, <1>3, <1>4, <1>5 DEF IInv
-----------------------------------------------------------------------------
(* The start-up. *)

LEMMA NothingYet ==
  ASSUME lines' = <<>>, replies' = <<>>, forwards' = <<>>
  PROVE  ForwardsAgree' /\ AnswersMatch'
<1>1. ForwardsAgree'
  BY DEF ForwardsAgree
<1>2. Due' = {}
  BY DEF Due, This
<1> QED
  BY <1>1, <1>2 DEF AnswersMatch

\* `request` during the handshake: the line is written, or the server ends.
LEMMA HandshakeStep ==
  ASSUME IInv, phase = "spawning", NEW k \in Upstreams, k = added + 1,
         Send(k, "tools/list"), UNCHANGED <<configVars, added, alive, listed, stray, forwards>>,
         out' \in [Upstreams -> Seq(Said)]
  PROVE  IInv'
<1> USE DEF IInv
<1>1. /\ ids' \in [Upstreams -> Nat]
      /\ \A j \in Upstreams : ids[j] =< ids'[j]
      /\ k \in Nat /\ ids[k] \in Nat
  <2>1. ids' = [ids EXCEPT ![k] = @ + 1]
    BY DEF Send
  <2> QED
    BY <2>1, IdsGrow
<1>2. CASE ~Writes(k)
  <2>1. Exit
    BY <1>2 DEF Send
  <2>2. TypeOK'
    BY <1>1, <2>1, ExitType DEF TypeOK
  <2> QED
    BY <1>1, <2>1, <2>2, ExitStep
<1>3. CASE Writes(k)
  <2>1. /\ stage' = "waiting" /\ wait' = [upstream |-> k, id |-> ids[k], method |-> "tools/list"]
        /\ UNCHANGED <<phase, lines, replies>>
    BY <1>3 DEF Send
  <2>2. TypeOK'
    BY <1>1, <2>1 DEF TypeOK, Methods, Stages, configVars, Upstreams, Forwarded
  <2>3. LabelsAreUnique'
    BY DEF LabelsAreUnique, configVars
  <2>4. StagesAgree'
    BY <2>1 DEF StagesAgree, configVars, Upstreams
  <2>5. WaitAgrees'
    BY <2>1 DEF WaitAgrees
  <2>6. ForwardsAgree' /\ AnswersMatch'
    BY <2>1, NothingYet DEF StagesAgree
  <2> QED
    BY <2>2, <2>3, <2>4, <2>5, <2>6
<1> QED
  BY <1>2, <1>3

\* `spawn`, or the last upstream is there and the server begins to serve.
LEMMA SpawnStep ==
  ASSUME IInv, NEW started \in BOOLEAN, Spawn(started)
  PROVE  IInv'
<1> USE DEF IInv
<1>0. /\ phase = "spawning" /\ stage = "idle"
      /\ UNCHANGED <<configVars, added, out, listed, stray>>
      /\ lines = <<>> /\ replies = <<>> /\ forwards = <<>>
  BY DEF Spawn, StagesAgree
<1>1. CASE added = Len(setup)
  <2>1. /\ phase' = "serving"
        /\ UNCHANGED <<alive, ids, stage, wait, lines, replies, forwards>>
    BY <1>1 DEF Spawn
  <2>2. TypeOK'
    BY <1>0, <2>1 DEF TypeOK, configVars, Upstreams, Forwarded
  <2>3. LabelsAreUnique' /\ StagesAgree' /\ WaitAgrees'
    BY <1>0, <2>1 DEF LabelsAreUnique, StagesAgree, WaitAgrees, configVars
  <2> QED
    BY <1>0, <2>1, <2>2, <2>3, NothingYet
<1>2. CASE added # Len(setup) /\ ~started
  <2>1. Exit /\ UNCHANGED <<alive, ids>>
    BY <1>2 DEF Spawn
  <2>2. TypeOK'
    BY <1>0, <2>1, ExitType DEF TypeOK, configVars, Upstreams
  <2>3. \A k \in Upstreams : ids[k] =< ids'[k]
    BY <2>1 DEF TypeOK
  <2> QED
    BY <1>0, <2>1, <2>2, <2>3, ExitStep
<1>3. CASE added # Len(setup) /\ started
  <2> DEFINE k == added + 1
  <2>1. k \in Upstreams /\ k \in Nat
    BY <1>3 DEF TypeOK, Upstreams
  <2>2. /\ alive' = [alive EXCEPT ![k] = TRUE]
        /\ ids' = [ids EXCEPT ![k] = 2]
        /\ stage' = "waiting"
        /\ wait' = [upstream |-> k, id |-> 1, method |-> "initialize"]
        /\ UNCHANGED <<phase, lines, replies, forwards>>
    BY <1>3 DEF Spawn
  <2> HIDE DEF k
  <2>3. TypeOK'
    BY <1>0, <2>1, <2>2 DEF TypeOK, Methods, Stages, configVars, Upstreams, Forwarded
  <2>4. LabelsAreUnique' /\ WaitAgrees'
    BY <1>0, <2>2 DEF LabelsAreUnique, WaitAgrees, configVars
  <2>5. StagesAgree'
    BY <1>0, <2>1, <2>2 DEF StagesAgree, configVars, Upstreams, k
  <2> QED
    BY <1>0, <2>2, <2>3, <2>4, <2>5, NothingYet
<1> QED
  BY <1>1, <1>2, <1>3

\* `add`: the label is new.
LEMMA AddStep ==
  ASSUME IInv, phase = "spawning", NEW k \in Upstreams, k = added + 1, Known(setup[k]) = {},
         added' = k, listed' \in [Upstreams -> BOOLEAN], stage' = "idle", wait' = NoWait,
         UNCHANGED <<configVars, phase, ids, alive, stray, lines, replies, forwards>>,
         out' \in [Upstreams -> Seq(Said)]
  PROVE  IInv'
<1> USE DEF IInv, configVars
<1>1. TypeOK'
  BY DEF TypeOK, Upstreams, Forwarded, NoWait, Methods, Stages
<1>2. LabelsAreUnique'
  <2>1. \A j \in 1..added : setup[j] # setup[k]
    BY DEF Known
  <2> QED
    BY <2>1 DEF LabelsAreUnique, TypeOK
<1>3. StagesAgree' /\ WaitAgrees'
  BY DEF StagesAgree, WaitAgrees
<1>4. ForwardsAgree' /\ AnswersMatch'
  BY NothingYet DEF StagesAgree
<1> QED
  BY <1>1, <1>2, <1>3, <1>4

\* A result or an error for the request in flight: the handshake goes on, the upstream
\* is registered, the call is answered, or the server ends.
LEMMA SettleStep ==
  ASSUME IInv, stage = "waiting", NEW body \in Bodies,
         body.outcome = "result" => body.upstream = wait.upstream /\ body.id = wait.id,
         Settle(wait.upstream, body), UNCHANGED <<configVars, alive, stray>>,
         out' \in [Upstreams -> Seq(Said)]
  PROVE  IInv'
<1> USE DEF IInv
<1> DEFINE k == wait.upstream
<1>0. /\ k \in Upstreams /\ wait.method \in Methods
      /\ phase \in {"spawning", "serving"}
      /\ phase = "spawning" => wait.method # "tools/call" /\ k = added + 1
      /\ phase = "serving" => wait.method = "tools/call"
  BY DEF StagesAgree, TypeOK
<1>1. CASE wait.method = "initialize" /\ body.outcome # "upstream error"
  <2>1. Send(k, "tools/list") /\ UNCHANGED <<added, listed, forwards>>
    BY <1>1 DEF Settle
  <2> QED
    BY <1>0, <1>1, <2>1, HandshakeStep
<1>2. CASE wait.method = "tools/list" /\ body.outcome # "upstream error" /\ Known(setup[k]) = {}
  <2>1. /\ added' = k
        /\ listed' = [listed EXCEPT ![k] = ParsesTools(body)]
        /\ stage' = "idle"
        /\ wait' = NoWait
        /\ UNCHANGED <<phase, ids, lines, replies, forwards>>
    BY <1>2 DEF Settle
  <2>2. listed' \in [Upstreams -> BOOLEAN]
    BY <1>0, <2>1 DEF TypeOK, ParsesTools
  <2> QED
    BY <1>0, <1>2, <2>1, <2>2, AddStep
<1>3. CASE wait.method = "tools/call"
  <2>1. Reply(This, body) /\ UNCHANGED <<phase, ids, added, listed, lines, forwards>>
    BY <1>3 DEF Settle
  <2>2. Genuine([line |-> This, body |-> body])
    <3>1. PICK i \in DOMAIN forwards : /\ forwards[i].line = This
                                       /\ forwards[i].upstream = wait.upstream
                                       /\ forwards[i].id = wait.id
      BY <1>3 DEF WaitAgrees
    <3>2. body.outcome = "result" => Sent(body) = {i}
      BY <3>1 DEF ForwardsAgree, Sent
    <3> QED
      BY <3>1, <3>2 DEF Genuine
  <2>3. \A j \in Upstreams : ids[j] =< ids'[j]
    BY <2>1 DEF TypeOK
  <2>4. ids' \in [Upstreams -> Nat]
    BY <2>1 DEF TypeOK
  <2> QED
    BY <1>0, <1>3, <2>1, <2>2, <2>3, <2>4, ReplyStep
<1>4. CASE \/ wait.method = "tools/list" /\ body.outcome # "upstream error" /\ Known(setup[k]) # {}
           \/ wait.method # "tools/call" /\ body.outcome = "upstream error"
  <2>1. Exit /\ UNCHANGED <<ids, added, listed>>
    BY <1>4 DEF Settle
  <2>2. TypeOK'
    BY <2>1, ExitType DEF TypeOK
  <2>3. \A j \in Upstreams : ids[j] =< ids'[j]
    BY <2>1 DEF TypeOK
  <2> QED
    BY <1>0, <1>4, <2>1, <2>2, <2>3, ExitStep
<1> QED
  BY <1>0, <1>1, <1>2, <1>3, <1>4 DEF Methods
-----------------------------------------------------------------------------
(* The agent's lines. *)

\* A line that is answered at once, or begins a call, or calls for nothing.
LEMMA ReadStep ==
  ASSUME IInv, NEW line \in Lines, Read(line)
  PROVE  IInv'
<1> USE DEF IInv
<1>0. /\ phase = "serving" /\ stage = "idle" /\ lines' = Append(lines, line)
      /\ UNCHANGED <<configVars, phase, added, serverVars, forwards>>
      /\ lines \in Seq(Lines) /\ This \in Nat
  BY DEF Read, TypeOK, This
<1>1. /\ lines' \in Seq(Lines) /\ lines' # <<>>
      /\ This' = This + 1
      /\ \A n \in 1..This : lines'[n] = lines[n]
      /\ lines'[This + 1] = line
  BY <1>0, AppendIs DEF This
<1>2. LabelsAreUnique'
  BY <1>0 DEF LabelsAreUnique, configVars
<1>3. ASSUME TypeOK' PROVE ForwardsAgree'
  <2>1. Len(lines) =< Len(lines') /\ \A n \in 1..Len(lines) : lines'[n] = lines[n]
    BY <1>0, <1>1 DEF This
  <2>2. \A k \in Upstreams : ids[k] =< ids'[k]
    BY <1>0 DEF serverVars, TypeOK
  <2> QED
    BY <1>0, <1>3, <2>1, <2>2, ForwardsKept DEF configVars
<1>4. \A reply : Genuine(reply)' <=> Genuine(reply)
  BY <1>0 DEF Genuine, Sent
<1>5. line.what \in Silent \cup Local \cup {"call"}
  BY McpAssumption
<1>8. /\ \A n \in 1..This : n \in Due' <=> n \in Due
      /\ This + 1 \in Due' <=> NeedsReply(line) /\ stage' = "idle"
      /\ Due \subseteq 1..This /\ Due' \subseteq 1..(This + 1)
  <2>1. Due = {n \in 1..This : NeedsReply(lines[n])}
    BY <1>0 DEF Due
  <2>2. Due' = {n \in 1..(This + 1) : NeedsReply(lines'[n]) /\ (n = This + 1 => stage' = "idle")}
    BY <1>1 DEF Due, NeedsReply
  <2>0. This \in Nat
    BY <1>0
  <2>3. /\ This + 1 \in 1..(This + 1)
        /\ \A n \in 1..This : n \in 1..(This + 1) /\ n # This + 1
    BY <2>0
  <2>4. \A n \in 1..This : n \in Due' <=> n \in Due
    <3> SUFFICES ASSUME NEW n \in 1..This PROVE n \in Due' <=> n \in Due
      OBVIOUS
    <3>1. n \in Due' <=> NeedsReply(lines'[n])
      BY <2>2, <2>3, Zenon
    <3>2. n \in Due <=> NeedsReply(lines[n])
      BY <2>1, Zenon
    <3> QED
      BY <1>1, <3>1, <3>2
  <2>5. This + 1 \in Due' <=> NeedsReply(line) /\ stage' = "idle"
    BY <1>1, <2>2, <2>3, Zenon
  <2> QED
    BY <2>1, <2>2, <2>4, <2>5
<1>9. 1..(This + 1) = (1..This) \cup {This + 1}
  BY <1>0
<1>6. CASE line.what \in Silent \cup {"call"}
  <2>1. /\ stage' = IF line.what = "call" THEN "deciding" ELSE "idle"
        /\ UNCHANGED <<wait, replies>>
    BY <1>0, <1>6 DEF Read, Silent, Local
  <2>2. TypeOK'
    BY <1>0, <1>1, <2>1 DEF TypeOK, Stages, configVars, serverVars, Upstreams, Forwarded
  <2>3. StagesAgree'
    BY <1>0, <1>1, <2>1 DEF StagesAgree, This, configVars, Upstreams
  <2>4. WaitAgrees'
    BY <2>1 DEF WaitAgrees
  <2>5. Due' = Due
    BY <1>6, <1>8, <1>9, <2>1 DEF NeedsReply, Silent
  <2>6. AnswersMatch'
    BY <1>4, <2>1, <2>5 DEF AnswersMatch
  <2> QED
    BY <1>2, <1>3, <2>2, <2>3, <2>4, <2>6
<1>7. CASE line.what \in Local
  <2> DEFINE r == [line |-> This + 1, body |-> Told(line.what)]
  <2>1. Reply(This + 1, Told(line.what))
    BY <1>7 DEF Read, Silent, Local
  <2>2. Told(line.what) \in Bodies /\ Genuine(r)
    BY <1>7, ToldIs DEF Outcomes, Local
  <2>3. r \in Replied /\ r.line = This + 1
    BY <1>0, <2>2 DEF Replied
  <2>4. replies' = Append(replies, r) /\ stage' = "idle" /\ wait' = NoWait
    BY <2>1 DEF Reply
  <2> HIDE DEF r
  <2>5. /\ DOMAIN replies = 1..Len(replies) /\ DOMAIN replies' = 1..(Len(replies) + 1)
        /\ \A i \in 1..Len(replies) : replies'[i] = replies[i]
        /\ replies'[Len(replies) + 1] = r
        /\ Len(replies) \in Nat /\ replies' \in Seq(Replied)
    <3>1. replies \in Seq(Replied)
      BY DEF TypeOK
    <3> QED
      BY <2>3, <2>4, <3>1, AppendIs
  <2>6. TypeOK'
    BY <1>0, <1>1, <2>4, <2>5 DEF TypeOK, Stages, NoWait, Methods, configVars, serverVars,
       Upstreams, Forwarded
  <2>7. StagesAgree' /\ WaitAgrees'
    BY <1>0, <2>4 DEF StagesAgree, WaitAgrees
  <2>8. Due' = Due \cup {This + 1}
    BY <1>7, <1>8, <1>9, <2>4 DEF NeedsReply, Silent, Local
  <2>9. \A i \in 1..Len(replies) : replies[i].line < This + 1
    <3>1. \A n \in Due : n < This + 1
      BY <1>0 DEF Due
    <3> QED
      BY <2>5, <3>1 DEF AnswersMatch
  <2>10. {replies'[i].line : i \in DOMAIN replies'} = Due'
    BY <2>3, <2>5, <2>8 DEF AnswersMatch
  <2>11. \A i, j \in DOMAIN replies' : i < j => replies'[i].line < replies'[j].line
    <3> SUFFICES ASSUME NEW i \in DOMAIN replies', NEW j \in DOMAIN replies', i < j
                 PROVE  replies'[i].line < replies'[j].line
      OBVIOUS
    <3>1. i \in 1..Len(replies)
      BY <2>5
    <3>2. CASE j = Len(replies) + 1
      BY <2>3, <2>5, <2>9, <3>1, <3>2
    <3>3. CASE j \in 1..Len(replies)
      BY <2>5, <3>1, <3>3 DEF AnswersMatch
    <3> QED
      BY <2>5, <3>2, <3>3
  <2>12. \A i \in DOMAIN replies' : Genuine(replies[i])'
    <3> SUFFICES ASSUME NEW i \in DOMAIN replies' PROVE Genuine(replies[i])'
      OBVIOUS
    <3>1. CASE i = Len(replies) + 1
      BY <1>0, <2>2, <2>5, <3>1 DEF Genuine, Sent
    <3>2. CASE i \in 1..Len(replies)
      BY <1>0, <2>5, <3>2 DEF AnswersMatch, Genuine, Sent
    <3> QED
      BY <2>5, <3>1, <3>2
  <2>13. AnswersMatch'
    BY <2>10, <2>11, <2>12 DEF AnswersMatch
  <2> QED
    BY <1>2, <1>3, <2>6, <2>7, <2>13
<1> QED
  BY <1>5, <1>6, <1>7

LEMMA HangupStep == ASSUME IInv, Hangup PROVE IInv'
<1> USE DEF IInv
<1>1. TypeOK'
  BY ExitType DEF Hangup, TypeOK, serverVars
<1>2. \A k \in Upstreams : ids[k] =< ids'[k]
  BY DEF Hangup, serverVars, TypeOK
<1> QED
  BY <1>1, <1>2, ExitStep DEF Hangup

\* Past the gateway: the call is written under a fresh id to where its name routes.
LEMMA WrittenStep ==
  ASSUME IInv, phase = "serving", stage # "idle",
         NEW e \in Forwarded, e.line = This, e.id = ids[e.upstream],
         [upstream |-> e.upstream, tool |-> e.tool] \in Route(lines[This].name),
         e.credential = Credential(lines[This]),
         ids' = [ids EXCEPT ![e.upstream] = @ + 1],
         stage' = "waiting",
         wait' = [upstream |-> e.upstream, id |-> ids[e.upstream], method |-> "tools/call"],
         forwards' = Append(forwards, e),
         UNCHANGED <<configVars, phase, added, alive, out, listed, stray, lines, replies>>
  PROVE  IInv'
<1> USE DEF IInv, configVars
<1>0. /\ e.upstream \in Upstreams /\ e.upstream \in Nat /\ ids[e.upstream] \in Nat
      /\ ids' \in [Upstreams -> Nat]
      /\ \A k \in Upstreams : ids[k] =< ids'[k]
      /\ e.id < ids'[e.upstream]
      /\ This \in Nat \ {0} /\ This' = This
  <2>1. e.upstream \in Upstreams
    BY DEF Forwarded
  <2>2. This \in Nat \ {0} /\ This' = This
    BY DEF TypeOK, StagesAgree, This
  <2> QED
    BY <2>1, <2>2, IdsGrow
<1>1. /\ forwards' \in Seq(Forwarded)
      /\ DOMAIN forwards = 1..Len(forwards) /\ DOMAIN forwards' = 1..(Len(forwards) + 1)
      /\ \A i \in 1..Len(forwards) : forwards'[i] = forwards[i]
      /\ forwards'[Len(forwards) + 1] = e
      /\ Len(forwards) \in Nat
  <2>1. forwards \in Seq(Forwarded)
    BY DEF TypeOK
  <2> QED
    BY <2>1, AppendIs
<1>2. Forwarded' = Forwarded /\ Upstreams' = Upstreams
  BY DEF Forwarded, Upstreams
<1>3. TypeOK'
  BY <1>0, <1>1, <1>2 DEF TypeOK, Methods, Stages
<1>4. LabelsAreUnique'
  BY DEF LabelsAreUnique
<1>5. StagesAgree'
  BY <1>0, <1>2 DEF StagesAgree
<1>6. \A i \in 1..Len(forwards) :
         /\ forwards[i] \in Forwarded /\ Routed(forwards[i])
         /\ forwards[i].upstream = e.upstream => forwards[i].id < e.id
  <2> SUFFICES ASSUME NEW i \in 1..Len(forwards)
               PROVE  /\ forwards[i] \in Forwarded /\ Routed(forwards[i])
                      /\ forwards[i].upstream = e.upstream => forwards[i].id < e.id
    OBVIOUS
  <2>1. forwards[i] \in Forwarded
    BY DEF TypeOK
  <2>2. Routed(forwards[i])
    BY <1>1 DEF ForwardsAgree
  <2> QED
    BY <2>1, <2>2 DEF Routed
<1>7. ASSUME NEW i \in DOMAIN forwards' PROVE Routed(forwards[i])'
  <2>1. CASE i = Len(forwards) + 1
    <3> DEFINE line == lines[This]
    <3>1. line' = line
      BY <1>0
    <3>2. [upstream |-> e.upstream, tool |-> e.tool] \in Route(line.name)'
      BY <3>1 DEF Route, Known, Label
    <3>3. e.credential = Credential(line)'
      BY <3>1 DEF Credential, Known, Target, Label, Injects
    <3>4. Routed(e)'
      BY <1>0, <3>2, <3>3 DEF Routed
    <3> QED
      BY <1>1, <2>1, <3>4 DEF Routed
  <2>2. CASE i \in 1..Len(forwards)
    <3> DEFINE f == forwards[i]
    <3>1. f \in Forwarded /\ Routed(f) /\ forwards'[i] = f
      BY <1>1, <1>6, <2>2
    <3> QED
      BY <1>0, <1>3, <3>1, RoutedStays
  <2> QED
    BY <1>1, <2>1, <2>2
<1>8. ForwardsAgree'
  <2> SUFFICES ASSUME NEW i \in DOMAIN forwards', NEW j \in DOMAIN forwards',
                      forwards'[i].upstream = forwards'[j].upstream,
                      forwards'[i].id = forwards'[j].id
               PROVE  i = j
    BY <1>7 DEF ForwardsAgree
  <2>1. \A n \in 1..Len(forwards) : forwards[n].upstream = e.upstream => forwards[n].id # e.id
    BY <1>0, <1>6 DEF Forwarded
  <2>2. CASE i \in 1..Len(forwards) /\ j \in 1..Len(forwards)
    BY <1>1, <2>2 DEF ForwardsAgree
  <2> QED
    BY <1>1, <2>1, <2>2
<1>9. WaitAgrees'
  BY <1>0, <1>1 DEF WaitAgrees
<1>10. AnswersMatch'
  <2>1. Due' = Due
    BY <1>0 DEF Due, NeedsReply
  <2>2. ASSUME NEW i \in DOMAIN replies PROVE Genuine(replies[i])'
    <3> DEFINE body == replies[i].body
    <3> SUFFICES ASSUME body.outcome = "result"
                 PROVE  \E f \in DOMAIN forwards' :
                           forwards'[f].line = replies[i].line /\ Sent(replies[i].body)' = {f}
      BY DEF Genuine
    <3>1. PICK f \in DOMAIN forwards : forwards[f].line = replies[i].line /\ Sent(body) = {f}
      BY DEF AnswersMatch, Genuine
    <3>2. forwards[f].upstream = body.upstream /\ forwards[f].id = body.id
      BY <3>1 DEF Sent
    <3>3. ~(e.upstream = body.upstream /\ e.id = body.id)
      <4>1. f \in 1..Len(forwards) /\ e.id \in Nat
        BY <1>0, <1>1, <3>1
      <4>2. forwards[f].id \in Nat /\ (forwards[f].upstream = e.upstream => forwards[f].id < e.id)
        BY <1>6, <4>1 DEF Forwarded
      <4> QED
        BY <3>2, <4>1, <4>2
    <3>4. Sent(replies[i].body)' = Sent(body)
      BY <1>1, <3>3 DEF Sent
    <3> QED
      BY <1>1, <3>1, <3>4
  <2> QED
    BY <2>1, <2>2 DEF AnswersMatch
<1> QED
  BY <1>3, <1>4, <1>5, <1>8, <1>9, <1>10

\* What is decided while nothing was written: one answer of the server's own.
LEMMA RefusedStep ==
  ASSUME IInv, stage \in {"deciding", "asking"}, NEW outcome \in Outcomes \ {"result"},
         Reply(This, Told(outcome)),
         UNCHANGED <<configVars, phase, added, ids, alive, out, listed, stray, lines, forwards>>
  PROVE  IInv'
<1> USE DEF IInv
<1>1. phase = "serving"
  BY DEF StagesAgree, TypeOK
<1>2. /\ out' \in [Upstreams -> Seq(Said)] /\ ids' \in [Upstreams -> Nat]
      /\ \A k \in Upstreams : ids[k] =< ids'[k]
  BY DEF TypeOK
<1>3. Told(outcome) \in Bodies /\ Genuine([line |-> This, body |-> Told(outcome)])
  BY ToldIs
<1> QED
  BY <1>1, <1>2, <1>3, ReplyStep

\* BrokeredUpstream and MultiUpstream::forward.
LEMMA ForwardStep ==
  ASSUME IInv, stage \in {"deciding", "asking"}, Forward(lines[This]),
         UNCHANGED <<configVars, added, alive, out, listed, stray>>
  PROVE  IInv'
<1> USE DEF IInv
<1> DEFINE line == lines[This]
<1>0. /\ phase = "serving" /\ This \in Nat \ {0} /\ line \in Lines
      /\ "upstream error" \in Outcomes \ {"result"}
  BY DEF StagesAgree, TypeOK, This, Outcomes
<1>1. line.name \in Seq(Segments)
  BY <1>0, McpAssumption
<1>2. CASE Route(line.name) = {}
  <2>1. /\ Reply(This, Told("upstream error"))
        /\ UNCHANGED <<phase, lines, ids, forwards>>
    BY <1>2 DEF Forward
  <2> QED
    BY <1>0, <2>1, RefusedStep
<1>3. CASE Route(line.name) # {}
  <2> DEFINE to == CHOOSE r \in Route(line.name) : TRUE
             k == to.upstream
             e == [line |-> This, upstream |-> k, tool |-> to.tool, id |-> ids[k],
                   credential |-> Credential(line)]
  <2>1. to \in Route(line.name)
    BY <1>3
  <2>2. /\ Send(k, "tools/call")
        /\ forwards' = IF Writes(k) THEN Append(forwards, e) ELSE forwards
    BY <1>3 DEF Forward
  <2> HIDE DEF to
  <2>3. k \in Upstreams /\ to.tool \in Seq(Segments) /\ to = [upstream |-> k, tool |-> to.tool]
    BY <1>1, <2>1, RouteType
  <2>4. Credential(line) \in Seq(Segments) \cup {AgentsOwn}
    BY <1>0, CredentialType
  <2>5. ids' = [ids EXCEPT ![k] = @ + 1]
    BY <2>2 DEF Send
  <2>6. /\ ids' \in [Upstreams -> Nat] /\ ids[k] \in Nat
        /\ \A j \in Upstreams : ids[j] =< ids'[j]
    BY <2>3, <2>5, IdsGrow
  <2>7. CASE ~Writes(k)
    <3>1. /\ Reply(This, Told("upstream error"))
          /\ UNCHANGED <<phase, lines, forwards>>
      BY <2>2, <2>7 DEF Send
    <3>2. /\ Told("upstream error") \in Bodies
          /\ Genuine([line |-> This, body |-> Told("upstream error")])
      BY <1>0, ToldIs
    <3>3. out' \in [Upstreams -> Seq(Said)]
      BY DEF TypeOK
    <3>4. stage # "idle"
      OBVIOUS
    <3> QED
      BY <1>0, <2>6, <3>1, <3>2, <3>3, <3>4, ReplyStep
  <2>8. CASE Writes(k)
    <3>1. /\ stage' = "waiting"
          /\ wait' = [upstream |-> k, id |-> ids[k], method |-> "tools/call"]
          /\ UNCHANGED <<phase, lines, replies>>
          /\ forwards' = Append(forwards, e)
      BY <2>2, <2>8 DEF Send
    <3>2. /\ e \in Forwarded /\ e.line = This /\ e.upstream = k /\ e.id = ids[k]
          /\ e.tool = to.tool /\ e.credential = Credential(line)
      BY <1>0, <2>3, <2>4, <2>6 DEF Forwarded
    <3>3. [upstream |-> e.upstream, tool |-> e.tool] \in Route(line.name)
      BY <2>1, <2>3, <3>2
    <3> HIDE DEF e
    <3>4. stage # "idle"
      OBVIOUS
    <3> QED
      BY <1>0, <2>5, <3>1, <3>2, <3>3, <3>4, WrittenStep
  <2> QED
    BY <2>7, <2>8
<1> QED
  BY <1>2, <1>3

LEMMA DecideStep == ASSUME IInv, Decide PROVE IInv'
<1> USE DEF IInv
<1> DEFINE verdict == Verdict[Kind(lines[This].name)]
<1>0. /\ stage = "deciding" /\ UNCHANGED <<configVars, added, alive, out, listed, stray>>
      /\ "blocked" \in Outcomes \ {"result"}
  BY DEF Decide, Outcomes
<1>1. CASE verdict = "allow"
  <2>1. Forward(lines[This])
    BY <1>1 DEF Decide
  <2> QED
    BY <1>0, <2>1, ForwardStep
<1>2. CASE verdict = "ask" /\ cockpit
  <2>1. stage' = "asking" /\ UNCHANGED <<phase, ids, wait, lines, replies, forwards>>
    BY <1>2 DEF Decide
  <2>2. TypeOK'
    BY <1>0, <2>1 DEF TypeOK, Stages, configVars, Upstreams, Forwarded
  <2>3. LabelsAreUnique' /\ WaitAgrees'
    BY <1>0, <2>1 DEF LabelsAreUnique, WaitAgrees, configVars
  <2>4. StagesAgree'
    BY <1>0, <2>1 DEF StagesAgree, This
  <2>5. ForwardsAgree'
    <3>1. /\ Len(lines) =< Len(lines') /\ \A k \in Upstreams : ids[k] =< ids'[k]
      BY <2>1 DEF TypeOK
    <3> QED
      BY <1>0, <2>1, <2>2, <3>1, ForwardsKept DEF configVars
  <2>6. AnswersMatch'
    <3>1. Due' = Due
      BY <1>0, <2>1 DEF Due, This, NeedsReply
    <3> QED
      BY <2>1, <3>1 DEF AnswersMatch, Genuine, Sent
  <2> QED
    BY <2>2, <2>3, <2>4, <2>5, <2>6
<1>3. CASE ~(verdict = "allow") /\ ~(verdict = "ask" /\ cockpit)
  <2>1. Reply(This, Told("blocked")) /\ UNCHANGED <<phase, ids, lines, forwards>>
    BY <1>3 DEF Decide
  <2> QED
    BY <1>0, <2>1, RefusedStep
<1> QED
  BY <1>1, <1>2, <1>3

LEMMA ApproveStep == ASSUME IInv, NEW granted \in BOOLEAN, Approve(granted) PROVE IInv'
<1>0. /\ stage = "asking" /\ UNCHANGED <<configVars, added, alive, out, listed, stray>>
      /\ "blocked" \in Outcomes \ {"result"}
  BY DEF Approve, Outcomes
<1>1. CASE granted
  <2>1. Forward(lines[This])
    BY <1>1 DEF Approve
  <2> QED
    BY <1>0, <2>1, ForwardStep
<1>2. CASE ~granted
  <2>1. Reply(This, Told("blocked")) /\ UNCHANGED <<phase, ids, lines, forwards>>
    BY <1>2 DEF Approve
  <2> QED
    BY <1>0, <2>1, RefusedStep
<1> QED
  BY <1>1, <1>2

LEMMA ElsewhereStep ==
  ASSUME IInv, NEW outcome \in {"allowed", "upstream error", "blocked"}, Elsewhere(outcome)
  PROVE  IInv'
<1>1. outcome \in Outcomes \ {"result"}
  BY DEF Outcomes
<1> QED
  BY <1>1, RefusedStep DEF Elsewhere, serverVars
-----------------------------------------------------------------------------
(* The upstreams' lines. *)

LEMMA ReadAnswerStep == ASSUME IInv, ReadAnswer PROVE IInv'
<1> USE DEF IInv
<1> DEFINE k == wait.upstream
           said == Head(out[k])
<1>0. /\ stage = "waiting" /\ k \in Upstreams /\ out[k] # <<>>
      /\ out' = [out EXCEPT ![k] = Tail(@)]
      /\ UNCHANGED <<configVars, alive, stray>>
  BY DEF ReadAnswer, StagesAgree
<1>1. out[k] \in Seq(Said)
  BY <1>0 DEF TypeOK
<1>2. said \in Said /\ Tail(out[k]) \in Seq(Said)
  BY <1>0, <1>1, HeadTailProperties
<1>3. out' \in [Upstreams -> Seq(Said)]
  BY <1>0, <1>2 DEF TypeOK
<1>4. CASE Matches(said)
  <2> DEFINE body == Body(k, said)
  <2>1. Settle(k, body)
    BY <1>4 DEF ReadAnswer
  <2>2. k \in Nat /\ said.id \in Nat /\ (said.kind = "result" => said.id = wait.id)
    BY <1>0, <1>2, <1>4, UpstreamsAre DEF Said, Matches
  <2>3. /\ body \in Bodies
        /\ body.outcome = "result" => body.upstream = k /\ body.id = wait.id
    BY <2>2 DEF Body, Bodies, Told, Outcomes
  <2> HIDE DEF body
  <2> QED
    BY <1>0, <1>3, <2>1, <2>3, SettleStep
<1>5. CASE ~Matches(said)
  <2>1. UNCHANGED <<phase, ids, added, listed, stage, wait, lines, replies, forwards>>
    BY <1>5 DEF ReadAnswer
  <2>2. TypeOK'
    BY <1>0, <1>3, <2>1 DEF TypeOK, configVars, Upstreams, Forwarded
  <2> QED
    BY <1>0, <2>1, <2>2, ServerFrame
<1> QED
  BY <1>4, <1>5

LEMMA ReadEndStep == ASSUME IInv, ReadEnd PROVE IInv'
<1> USE DEF IInv
<1>1. /\ Told("upstream error") \in Bodies
      /\ Told("upstream error").outcome # "result"
  BY DEF Told, Bodies, Outcomes
<1>2. out' \in [Upstreams -> Seq(Said)]
  BY DEF ReadEnd, TypeOK
<1> QED
  BY <1>1, <1>2, SettleStep DEF ReadEnd

LEMMA SayStep ==
  ASSUME IInv, NEW k \in Upstreams, NEW said \in Said, Say(k, said), stray' \in Nat
  PROVE  IInv'
<1> USE DEF IInv
<1>1. out[k] \in Seq(Said)
  BY DEF TypeOK
<1>2. Append(out[k], said) \in Seq(Said)
  BY <1>1, AppendIs
<1>3. out' \in [Upstreams -> Seq(Said)]
  BY <1>2 DEF Say, TypeOK
<1>4. TypeOK'
  BY <1>3 DEF Say, TypeOK, configVars, Upstreams, Forwarded
<1> QED
  BY <1>4, ServerFrame DEF Say

LEMMA AnswerStep == ASSUME IInv, NEW kind \in {"result", "error"}, Answer(kind) PROVE IInv'
<1>1. wait.upstream \in Upstreams /\ wait.id \in Nat /\ stray' \in Nat
  BY DEF IInv, StagesAgree, TypeOK, Answer
<1>2. [kind |-> kind, id |-> wait.id] \in Said
  BY <1>1 DEF Said
<1> QED
  BY <1>1, <1>2, SayStep DEF Answer

LEMMA StrayStep ==
  ASSUME IInv, NEW k \in Upstreams, NEW kind \in {"result", "error", "request", "noise", "garbled"},
         NEW id \in 0..ids[k], Stray(k, id, kind)
  PROVE  IInv'
<1>1. [kind |-> kind, id |-> id] \in Said /\ stray' \in Nat
  BY DEF IInv, TypeOK, Said, Stray
<1> QED
  BY <1>1, SayStep DEF Stray

LEMMA DieStep == ASSUME IInv, NEW k \in Upstreams, Die(k) PROVE IInv'
<1>1. TypeOK'
  BY DEF IInv, Die, TypeOK, configVars, Upstreams, Forwarded
<1> QED
  BY <1>1, ServerFrame DEF Die
-----------------------------------------------------------------------------
LEMMA NextIInv == IInv /\ [Next]_vars => IInv'
<1> SUFFICES ASSUME IInv, [Next]_vars PROVE IInv'
  OBVIOUS
<1>1. CASE Serve
  BY <1>1, SpawnStep, DecideStep, ApproveStep, ElsewhereStep, ReadAnswerStep, ReadEndStep DEF Serve
<1>2. CASE World
  BY <1>2, AnswerStep, StrayStep, DieStep DEF World, Answers
<1>3. CASE Hangup
  BY <1>3, HangupStep
<1>4. ASSUME NEW line \in Lines, Read(line) PROVE IInv'
  BY <1>4, ReadStep
<1>5. CASE UNCHANGED vars
  <2>1. TypeOK'
    BY <1>5 DEF IInv, TypeOK, vars, configVars, serverVars, Upstreams, Forwarded
  <2> QED
    BY <1>5, <2>1, ServerFrame DEF vars, serverVars
<1> QED
  BY <1>1, <1>2, <1>3, <1>4, <1>5 DEF Next

\* Every state of the proxy keeps the invariant: labels are unique, calls were written
\* where their names route, under ids of their own, and the call in flight is the line's.
THEOREM ProxyInvariant == Spec => []IInv
BY InitIInv, NextIInv, PTL DEF Spec

\* The agent's answers match its lines, whatever the upstreams write and whenever.
THEOREM AgentsAnswersMatch == Spec => []AnswersMatch
<1>1. IInv => AnswersMatch
  BY DEF IInv
<1> QED
  BY <1>1, ProxyInvariant, PTL

\* Routing undoes namespacing: a call of an advertised tool is written to its owner.
THEOREM CallsReachTheirOwner == Spec => []AdvertisedReachesItsOwner
<1>1. IInv => AdvertisedReachesItsOwner
  <2> SUFFICES ASSUME IInv, NEW shown \in Advertised, NEW i \in DOMAIN forwards,
                      Clean(shown.upstream, shown.tool),
                      lines[forwards[i].line].name = shown.name
               PROVE  forwards[i].upstream = shown.upstream /\ forwards[i].tool = shown.tool
    BY DEF AdvertisedReachesItsOwner
  <2>1. PICK k \in 1..added, tool \in Tools :
           shown = [name |-> NamespacedName(setup[k], tool), upstream |-> k, tool |-> tool]
    BY DEF Advertised
  <2> DEFINE name == NamespacedName(setup[k], tool)
             label == setup[k]
             r == [upstream |-> forwards[i].upstream, tool |-> forwards[i].tool]
  <2>2. /\ shown.upstream = k /\ shown.tool = tool /\ shown.name = name
        /\ r \in Route(name)
    BY <2>1 DEF IInv, ForwardsAgree, Routed
  <2>3. /\ tool \in Seq(Segments) /\ tool # <<>>
        /\ label \in Seq(Segments) /\ Len(label) = 1
        /\ label = <<"">> => Len(tool) = 1 \/ Known(Label(tool)) = {}
    <3>1. tool \in Name /\ label \in Name
      BY McpAssumption, RegisteredAre DEF IInv
    <3>2. Clean(k, tool)
      BY <2>2
    <3> QED
      BY <3>1, <3>2 DEF Name, Clean
  <2>4. Known(label) = {k}
    BY DEF IInv, LabelsAreUnique, Known
  <2>5. CASE label = <<"">>
    <3>1. name = tool
      BY <2>5 DEF NamespacedName
    <3> HIDE DEF name, label
    <3>2. ~(Len(name) > 1 /\ Known(Label(name)) # {})
      <4>1. Len(tool) = 1 \/ Known(Label(tool)) = {}
        BY <2>3, <2>5
      <4>2. CASE Known(Label(tool)) = {}
        BY <3>1, <4>2, Zenon
      <4>3. CASE Len(tool) = 1
        <5>1. Len(name) = 1
          BY <3>1, <4>3, Zenon
        <5>2. ~(Len(name) > 1)
          BY <5>1
        <5> QED
          BY <5>2, Zenon
      <4> QED
        BY <4>1, <4>2, <4>3
    <3>3. Route(name) = {[upstream |-> j, tool |-> name] : j \in Known(label)}
      BY <2>5, <3>2 DEF Route
    <3> QED
      BY <2>2, <2>4, <3>1, <3>3
  <2>6. CASE label # <<"">>
    <3>1. name = label \o tool
      BY <2>6 DEF NamespacedName
    <3>2. Len(name) > 1 /\ Label(name) = label /\ Tail(name) = tool
      BY <2>3, <3>1, SplitOnce
    <3>3. Route(name) = {[upstream |-> j, tool |-> tool] : j \in Known(label)}
      BY <2>4, <3>2 DEF Route
    <3> QED
      BY <2>2, <2>4, <3>3
  <2> QED
    BY <2>5, <2>6
<1> QED
  BY <1>1, ProxyInvariant, PTL

\* With --secrets a call carries its own upstream's credential or none, for any labels
\* and names, unless one of several upstreams has no label.
THEOREM CredentialsGoHome == Spec => []CredentialGoesHome
<1>1. IInv => CredentialGoesHome
  <2> SUFFICES ASSUME IInv, brokered,
                      Len(setup) = 1 \/ <<"">> \notin {setup[k] : k \in Upstreams},
                      NEW i \in DOMAIN forwards,
                      forwards[i].credential # <<>>
               PROVE  forwards[i].credential = setup[forwards[i].upstream]
    BY DEF CredentialGoesHome, OwnCredential
  <2> DEFINE name == lines[forwards[i].line].name
             line == lines[forwards[i].line]
             r == [upstream |-> forwards[i].upstream, tool |-> forwards[i].tool]
  <2>1. r \in Route(name) /\ forwards[i].credential = Credential(line)
    BY DEF IInv, ForwardsAgree, Routed
  <2>2. Credential(line) = Target(name) /\ Known(Target(name)) # {}
    BY <2>1 DEF Credential
  <2>3. CASE Len(name) > 1
    <3>1. Target(name) = Label(name)
      BY <2>3 DEF Target
    <3>2. Route(name) = {[upstream |-> j, tool |-> Tail(name)] : j \in Known(Label(name))}
      BY <2>2, <2>3, <3>1 DEF Route
    <3>3. forwards[i].upstream \in Known(Label(name))
      BY <2>1, <3>2
    <3> QED
      BY <2>1, <2>2, <3>1, <3>3 DEF Known
  <2>4. CASE ~(Len(name) > 1)
    <3>1. Target(name) = name
      BY <2>4 DEF Target
    <3>2. Route(name) = {[upstream |-> j, tool |-> name] : j \in Known(<<"">>)}
      BY <2>4 DEF Route
    <3>3. forwards[i].upstream \in Known(<<"">>)
      BY <2>1, <3>2
    <3>4. 1..added \subseteq Upstreams /\ Upstreams = 1..Len(setup)
      BY RegisteredAre DEF IInv
    <3>5. Len(setup) = 1
      BY <3>3, <3>4 DEF Known
    <3>6. PICK j \in Known(name) : TRUE
      BY <2>2, <3>1
    <3>7. j = 1 /\ forwards[i].upstream = 1
      BY <3>3, <3>5, <3>6, RegisteredAre DEF Known, IInv
    <3> QED
      BY <2>1, <2>2, <3>1, <3>6, <3>7 DEF Known
  <2> QED
    BY <2>3, <2>4
<1> QED
  BY <1>1, ProxyInvariant, PTL
=============================================================================
