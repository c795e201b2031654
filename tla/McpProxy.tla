------------------------------ MODULE McpProxy ------------------------------
(***************************************************************************)
(* Guardian as an MCP server over stdio (crates/guardian-mcp-gateway,      *)
(* modules `mcp` and `upstream`; `run_mcp` in crates/guardian-cli).        *)
(*                                                                         *)
(* In proxy mode it first starts one child process per --upstream, in      *)
(* turn, with a handshake; then it answers the agent's lines one by one,   *)
(* and a `tools/call` the gateway lets through goes to the upstream its    *)
(* name routes to.  The children are not trusted: on their stdout come     *)
(* answers, answers given twice, noise and requests of their own, late or  *)
(* early, and they may die.  In the other two modes (a running daemon, the *)
(* built-in tools) only the outcome of the router is seen.                 *)
(*                                                                         *)
(* A name is the sequence of its `__`-separated segments; the empty label  *)
(* is <<"">>.  The gateway's own mediation is module Gateway: here a call  *)
(* has a verdict for its kind.  Payloads are left out; an answer is named  *)
(* by the upstream and the id it answers.                                  *)
(***************************************************************************)
EXTENDS Naturals, Sequences, FiniteSets

CONSTANTS
    Segments,    \* what names consist of between the separators
    Setups,      \* the --upstream specs, in order: a set of sequences (empty: other modes)
    Tools,       \* the names every upstream lists
    Lines,       \* what the agent may write
    Secrets,     \* the labels the broker holds a credential for
    ToolKinds,   \* the policy's [tools] map, from names to kinds
    Verdict,     \* what the policy says of a kind
    MaxLines,    \* bound: lines of the agent
    MaxStray     \* bound: lines of the upstreams besides the answer they owe

\* Lines the server answers by itself, or not at all (a notification).
Local == {"garbage", "known", "unknown", "nameless"}
Silent == {"blank", "notification"}

\* A name, a label and the base name of a program have at least one segment, which may
\* be empty: the base name of a hidden file is, up to its first dot.  A label that is
\* given is not.
Name == Seq(Segments) \ {<<>>}
Upstream == [label : SUBSET (Name \ {<<"">>}), program : Name]

ASSUME McpAssumption ==
    /\ MaxLines \in Nat /\ MaxStray \in Nat
    /\ "" \in Segments
    /\ Setups \subseteq Seq(Upstream)
    /\ Tools \subseteq Name
    /\ \A line \in Lines : line.what \in Silent \cup Local \cup {"call"} /\ line.name \in Seq(Segments)

VARIABLES
    setup,      \* the labels of the upstreams, in order
    brokered,   \* --secrets was given
    cockpit,    \* --daemon was given: asks go to its queue
    phase,      \* spawning, serving, exited
    added,      \* how many upstreams are registered
    ids,        \* id_counter of each upstream
    alive,      \* the child runs
    out,        \* its stdout, unread
    listed,     \* it has told its tools
    stray,      \* how many lines nobody waited for were written
    stage,      \* the handler: idle, deciding, asking, waiting
    wait,       \* the request in flight: upstream, id, method
    lines,      \* the lines read so far
    replies,    \* what was written to the agent
    forwards    \* history: the calls written to upstreams

configVars == <<setup, brokered, cockpit>>
serverVars == <<ids, alive, out, listed, stray>>
vars == <<configVars, phase, added, serverVars, stage, wait, lines, replies, forwards>>

Upstreams == DOMAIN setup
NoWait == [upstream |-> 0, id |-> 0, method |-> "initialize"]
-----------------------------------------------------------------------------
(* Names. *)

\* `parse_upstream` and `derive_label`: the label of a spec that has one; without, none
\* for a single upstream and the program's base name for one of several.
LabelOf(spec, single) ==
    CASE spec.label # {} -> CHOOSE label \in spec.label : TRUE
      [] spec.label = {} /\ single -> <<"">>
      [] OTHER -> spec.program

NamespacedName(label, tool) == IF label = <<"">> THEN tool ELSE label \o tool

\* `split_once(SEP)`, when the name has a separator.
Label(name) == <<Head(name)>>

\* The upstreams registered under a label: at most one.
Known(label) == {k \in 1..added : setup[k] = label}

\* `MultiUpstream::tools`: the names shown to the agent, and whose they are.
Advertised ==
    {[name |-> NamespacedName(setup[k], tool), upstream |-> k, tool |-> tool] :
        k \in {j \in 1..added : listed[j]}, tool \in Tools}

\* Fault: the label is everything before the last separator.
BadRoute(name) ==
    LET label == SubSeq(name, 1, Len(name) - 1)
    IN IF Len(name) > 1 /\ Known(label) # {}
       THEN {[upstream |-> k, tool |-> <<name[Len(name)]>>] : k \in Known(label)}
       ELSE {[upstream |-> k, tool |-> name] : k \in Known(<<"">>)}

\* `route`: where a name goes, empty if nowhere.
Route(name) ==
    IF Len(name) > 1 /\ Known(Label(name)) # {}
    THEN {[upstream |-> k, tool |-> Tail(name)] : k \in Known(Label(name))}
    ELSE {[upstream |-> k, tool |-> name] : k \in Known(<<"">>)}

\* Fault: the destination is everything before the last separator.
BadTarget(name) == IF Len(name) > 1 THEN SubSeq(name, 1, Len(name) - 1) ELSE name

\* The destination whose credential BrokeredUpstream injects.
Target(name) == IF Len(name) > 1 THEN Label(name) ELSE name

\* `Broker::inject`: null arguments become an object, a list cannot take the field.
Injects(target, args) == target \in Secrets /\ args \in {"object", "null"}

AgentsOwn == <<"agent's">>

\* The credential field of a forwarded call: the agent's own is dropped if the
\* arguments are an object, and the broker's is set if it holds one.
Credential(line) ==
    IF ~brokered
    THEN IF line.token /\ line.args = "object" THEN AgentsOwn ELSE <<>>
    ELSE IF Known(Target(line.name)) # {} /\ Injects(Target(line.name), line.args)
         THEN Target(line.name)
         ELSE <<>>
-----------------------------------------------------------------------------
(* The handler: one line, or one step of the start-up, at a time. *)

This == Len(lines)

\* What is told: the outcome, and whose answer it is if it is an upstream's.
Told(outcome) == [outcome |-> outcome, upstream |-> 0, id |-> 0]

Reply(n, body) ==
    /\ replies' = Append(replies, [line |-> n, body |-> body])
    /\ stage' = "idle"
    /\ wait' = NoWait

Exit ==
    /\ phase' = "exited"
    /\ stage' = "idle"
    /\ wait' = NoWait
    /\ UNCHANGED <<lines, replies, forwards>>

\* `write_line`: the pipe of a dead child refuses the line.
Writes(k) == alive[k]

\* `request` up to the write: a fresh id.
Send(k, method) ==
    /\ ids' = [ids EXCEPT ![k] = @ + 1]
    /\ IF Writes(k)
       THEN /\ stage' = "waiting"
            /\ wait' = [upstream |-> k, id |-> ids[k], method |-> method]
            /\ UNCHANGED <<phase, lines, replies>>
       ELSE IF method = "tools/call"
            THEN Reply(This, Told("upstream error")) /\ UNCHANGED <<phase, lines>>
            ELSE Exit

\* `spawn` of the next upstream: the process, and the `initialize` request.
Spawn(started) ==
    /\ phase = "spawning"
    /\ stage = "idle"
    /\ IF added = Len(setup)
       THEN /\ phase' = "serving"
            /\ UNCHANGED <<alive, ids, stage, wait, lines, replies, forwards>>
       ELSE LET k == added + 1
            IN IF started
               THEN /\ alive' = [alive EXCEPT ![k] = TRUE]
                    /\ ids' = [ids EXCEPT ![k] = 2]
                    /\ stage' = "waiting"
                    /\ wait' = [upstream |-> k, id |-> 1, method |-> "initialize"]
                    /\ UNCHANGED <<phase, lines, replies, forwards>>
               ELSE Exit /\ UNCHANGED <<alive, ids>>
    /\ UNCHANGED <<configVars, added, out, listed, stray>>

\* `serve_stdio` and `handle_line`: read a line, answer or start the call.
Read(line) ==
    /\ phase = "serving"
    /\ stage = "idle"
    /\ Len(lines) < MaxLines
    /\ lines' = Append(lines, line)
    /\ CASE line.what \in Silent -> UNCHANGED <<stage, wait, replies>>
         [] line.what \in Local -> Reply(This + 1, Told(line.what))
         [] line.what = "call" -> stage' = "deciding" /\ UNCHANGED <<wait, replies>>
    /\ UNCHANGED <<configVars, phase, added, serverVars, forwards>>

\* The agent closes stdin.
Hangup ==
    /\ phase = "serving"
    /\ stage = "idle"
    /\ Exit
    /\ UNCHANGED <<configVars, added, serverVars>>

\* The trusted kind of a name; what the map does not know is Other.
Kind(name) == IF name \in DOMAIN ToolKinds THEN ToolKinds[name] ELSE "other"

\* Past the gateway: BrokeredUpstream and MultiUpstream::forward.
Forward(line) ==
    IF Route(line.name) = {}
    THEN Reply(This, Told("upstream error")) /\ UNCHANGED <<phase, lines, ids, forwards>>
    ELSE LET to == CHOOSE r \in Route(line.name) : TRUE
         IN /\ Send(to.upstream, "tools/call")
            /\ forwards' = IF Writes(to.upstream)
                 THEN Append(forwards, [line |-> This, upstream |-> to.upstream, tool |-> to.tool,
                                        id |-> ids[to.upstream], credential |-> Credential(line)])
                 ELSE forwards

\* `tools_call`: the gateway's verdict for the trusted kind.
Decide ==
    /\ stage = "deciding"
    /\ setup # <<>>
    /\ LET line == lines[This]
           verdict == Verdict[Kind(line.name)]
       IN CASE verdict = "allow" -> Forward(line)
            [] verdict = "ask" /\ cockpit -> stage' = "asking"
                                             /\ UNCHANGED <<phase, ids, wait, lines, replies, forwards>>
            [] OTHER -> Reply(This, Told("blocked")) /\ UNCHANGED <<phase, ids, lines, forwards>>
    /\ UNCHANGED <<configVars, added, alive, out, listed, stray>>

\* DaemonApprover: the human's answer; a socket error or a timeout denies.
Approve(granted) ==
    /\ stage = "asking"
    /\ IF granted
       THEN Forward(lines[This])
       ELSE Reply(This, Told("blocked")) /\ UNCHANGED <<phase, ids, lines, forwards>>
    /\ UNCHANGED <<configVars, added, alive, out, listed, stray>>

\* The modes without upstreams: whatever the router answers.
Elsewhere(outcome) ==
    /\ stage = "deciding"
    /\ setup = <<>>
    /\ Reply(This, Told(outcome))
    /\ UNCHANGED <<configVars, phase, added, serverVars, lines, forwards>>

\* `parse_tools`: what is no list of tools is an empty one.
ParsesTools(body) == body.outcome # "empty"

\* A result or an error for the request in flight.
Settle(k, body) ==
    CASE wait.method = "initialize" /\ body.outcome # "upstream error" ->
            Send(k, "tools/list") /\ UNCHANGED <<added, listed, forwards>>
      [] wait.method = "tools/list" /\ body.outcome # "upstream error" ->
            \* `add` refuses a label that is taken
            IF Known(setup[k]) # {}
            THEN Exit /\ UNCHANGED <<ids, added, listed>>
            ELSE /\ added' = k
                 /\ listed' = [listed EXCEPT ![k] = ParsesTools(body)]
                 /\ stage' = "idle"
                 /\ wait' = NoWait
                 /\ UNCHANGED <<phase, ids, lines, replies, forwards>>
      [] wait.method = "tools/call" ->
            /\ Reply(This, body)
            /\ UNCHANGED <<phase, ids, added, listed, lines, forwards>>
      [] OTHER -> Exit /\ UNCHANGED <<ids, added, listed>>

\* What a matching line says: a request of the upstream itself has no result.
Body(k, said) ==
    CASE said.kind = "result" -> [outcome |-> "result", upstream |-> k, id |-> said.id]
      [] said.kind = "request" -> Told("empty")
      [] OTHER -> Told("upstream error")

\* Fault: the next answer is taken, whatever its id.
BadMatches(said) == said.kind # "noise"

\* What ends the wait: a line with the id, or one that cannot be read (`next_line`).
Matches(said) == said.kind = "garbled" \/ (said.kind # "noise" /\ said.id = wait.id)

\* `request` from the read on: the other lines are dropped.
ReadAnswer ==
    /\ stage = "waiting"
    /\ LET k == wait.upstream
       IN /\ out[k] # <<>>
          /\ out' = [out EXCEPT ![k] = Tail(@)]
          /\ IF Matches(Head(out[k]))
             THEN Settle(k, Body(k, Head(out[k])))
             ELSE UNCHANGED <<phase, ids, added, listed, stage, wait, lines, replies, forwards>>
    /\ UNCHANGED <<configVars, alive, stray>>

\* Fault: the end of the stream is skipped like noise.
BadReadEnd ==
    /\ stage = "waiting"
    /\ ~alive[wait.upstream] /\ out[wait.upstream] = <<>>
    /\ UNCHANGED vars

\* The end of the child's stdout.
ReadEnd ==
    /\ stage = "waiting"
    /\ ~alive[wait.upstream] /\ out[wait.upstream] = <<>>
    /\ Settle(wait.upstream, Told("upstream error"))
    /\ UNCHANGED <<configVars, alive, out, stray>>
-----------------------------------------------------------------------------
(* The upstreams. *)

Say(k, said) ==
    /\ phase # "exited"
    /\ alive[k]
    /\ out' = [out EXCEPT ![k] = Append(@, said)]
    /\ UNCHANGED <<configVars, phase, added, ids, alive, listed, stage, wait, lines, replies, forwards>>

\* The answer to the request in flight.
Answer(kind) ==
    /\ stage = "waiting"
    /\ \A i \in DOMAIN out[wait.upstream] : out[wait.upstream][i].id # wait.id
    /\ Say(wait.upstream, [kind |-> kind, id |-> wait.id])
    /\ UNCHANGED stray

\* Anything else: an answer to what it was asked before, or once more; a request of
\* its own, with an id of its own choice; a line that is no answer, or not even text.
Stray(k, id, kind) ==
    /\ stray < MaxStray
    /\ stray' = stray + 1
    /\ kind \in {"result", "error"} => id \in 1..ids[k] - 1
    /\ kind \in {"noise", "garbled"} => id = 0
    /\ Say(k, [kind |-> kind, id |-> id])

Die(k) ==
    /\ phase # "exited"
    /\ alive[k]
    /\ alive' = [alive EXCEPT ![k] = FALSE]
    /\ UNCHANGED <<configVars, phase, added, ids, out, listed, stray, stage, wait, lines, replies, forwards>>
-----------------------------------------------------------------------------
Init ==
    /\ setup \in {[k \in DOMAIN specs |-> LabelOf(specs[k], Len(specs) = 1)] : specs \in Setups}
    /\ brokered \in BOOLEAN
    /\ cockpit \in BOOLEAN
    /\ phase = "spawning"
    /\ added = 0
    /\ ids = [k \in Upstreams |-> 1]
    /\ alive = [k \in Upstreams |-> FALSE]
    /\ out = [k \in Upstreams |-> <<>>]
    /\ listed = [k \in Upstreams |-> FALSE]
    /\ stray = 0
    /\ stage = "idle"
    /\ wait = NoWait
    /\ lines = <<>>
    /\ replies = <<>>
    /\ forwards = <<>>

Serve ==
    \/ \E started \in BOOLEAN : Spawn(started)
    \/ Decide
    \/ \E granted \in BOOLEAN : Approve(granted)
    \/ \E outcome \in {"allowed", "upstream error", "blocked"} : Elsewhere(outcome)
    \/ ReadAnswer
    \/ ReadEnd

Answers == \E kind \in {"result", "error"} : Answer(kind)

World ==
    \/ Answers
    \/ \E k \in Upstreams, kind \in {"result", "error", "request", "noise", "garbled"} :
          \E id \in 0..ids[k] : Stray(k, id, kind)
    \/ \E k \in Upstreams : Die(k)

Next == Serve \/ World \/ Hangup \/ \E line \in Lines : Read(line)

Spec == Init /\ [][Next]_vars

\* The server runs on, the approver answers (its daemon has a deadline), and an
\* upstream that lives answers in the end; there is no timeout if it does not.
Fairness == WF_vars(Serve) /\ WF_vars(Answers)

FairSpec == Spec /\ Fairness
-----------------------------------------------------------------------------
(* What the proxy promises. *)

\* Whether routing undoes namespacing: a label is one segment, and an unlabelled
\* upstream's tool does not begin like another's label.  (parse_upstream accepts
\* other labels; their calls go to the upstream named by the first segment.)
Clean(k, tool) ==
    /\ Len(setup[k]) = 1
    /\ setup[k] = <<"">> => Len(tool) = 1 \/ Known(Label(tool)) = {}

\* A call of an advertised tool goes to the upstream that advertised it, under the
\* tool's own name, separators in it included, and to no other upstream.
AdvertisedReachesItsOwner ==
    \A shown \in Advertised, i \in DOMAIN forwards :
        /\ Clean(shown.upstream, shown.tool)
        /\ lines[forwards[i].line].name = shown.name
        => forwards[i].upstream = shown.upstream /\ forwards[i].tool = shown.tool

\* What leaves in the credential field is the credential of the very upstream the call
\* is written to, or nothing.
OwnCredential ==
    \A i \in DOMAIN forwards : forwards[i].credential \in {<<>>, setup[forwards[i].upstream]}

\* With --secrets, and unless one of several upstreams is without a label, however the
\* labels overlap: a forwarded call carries its own upstream's credential or none,
\* never another's, and never one the agent supplied.
CredentialGoesHome ==
    brokered /\ (Len(setup) = 1 \/ <<"">> \notin {setup[k] : k \in Upstreams}) => OwnCredential

NeedsReply(line) == line.what \notin Silent

\* The lines that have been dealt with and call for an answer.
Due == {n \in 1..This : NeedsReply(lines[n]) /\ (n = This => stage = "idle")}

\* The calls an answer may be the answer to.
Sent(body) ==
    {f \in DOMAIN forwards : forwards[f].upstream = body.upstream /\ forwards[f].id = body.id}

Genuine(reply) ==
    reply.body.outcome = "result" =>
        \E f \in DOMAIN forwards : forwards[f].line = reply.line /\ Sent(reply.body) = {f}

\* The agent's answers: in order, one for each line that has an id (or no JSON), none
\* for the others; and a result is the one its upstream gave to that very call, the
\* only one it was sent under that id, whatever else the upstream wrote before.  (A
\* request of the upstream's own that happens to carry the id is taken for an empty
\* answer.)
AnswersMatch ==
    /\ {replies[i].line : i \in DOMAIN replies} = Due
    /\ \A i, j \in DOMAIN replies : i < j => replies[i].line < replies[j].line
    /\ \A i \in DOMAIN replies : Genuine(replies[i])

\* No line of the agent hangs the proxy for good: upstreams may die, chatter and
\* answer twice, but each call is answered, and start-up ends.
AgentIsAnswered ==
    /\ phase = "spawning" ~> phase # "spawning"
    /\ stage # "idle" ~> stage = "idle"
-----------------------------------------------------------------------------
(* The inductive invariant the proofs rest on. *)

Stages == {"idle", "deciding", "asking", "waiting"}
Methods == {"initialize", "tools/list", "tools/call"}
Said == [kind : {"result", "error", "request", "noise", "garbled"}, id : Nat]
Outcomes == Local \cup {"result", "empty", "upstream error", "blocked", "allowed"}
Bodies == [outcome : Outcomes, upstream : Nat, id : Nat]
Replied == [line : Nat, body : Bodies]
Forwarded == [line : Nat, upstream : Upstreams, tool : Seq(Segments), id : Nat,
              credential : Seq(Segments) \cup {AgentsOwn}]

TypeOK ==
    /\ setup \in Seq(Name)
    /\ brokered \in BOOLEAN /\ cockpit \in BOOLEAN
    /\ phase \in {"spawning", "serving", "exited"}
    /\ added \in 0..Len(setup)
    /\ ids \in [Upstreams -> Nat]
    /\ alive \in [Upstreams -> BOOLEAN]
    /\ out \in [Upstreams -> Seq(Said)]
    /\ listed \in [Upstreams -> BOOLEAN]
    /\ stray \in Nat
    /\ stage \in Stages
    /\ wait \in [upstream : Nat, id : Nat, method : Methods]
    /\ lines \in Seq(Lines)
    /\ replies \in Seq(Replied)
    /\ forwards \in Seq(Forwarded)

\* `add` refuses a label that is taken.
LabelsAreUnique == \A j, k \in 1..added : setup[j] = setup[k] => j = k

\* The upstreams are started before the first line is read, and only a call waits for one.
StagesAgree ==
    /\ phase = "spawning" =>
           /\ lines = <<>> /\ replies = <<>> /\ forwards = <<>>
           /\ stage = "idle" \/ (stage = "waiting" /\ wait.method # "tools/call")
           /\ stage = "waiting" => wait.upstream = added + 1
    /\ phase = "serving" /\ stage = "waiting" => wait.method = "tools/call"
    /\ phase = "exited" => stage = "idle"
    /\ stage = "waiting" => wait.upstream \in Upstreams
    /\ phase # "spawning" /\ stage # "idle" => lines # <<>> /\ lines[This].what = "call"

\* A call was written where its line's name routes to, with the credential of that name,
\* under an id the upstream had not seen.
Routed(f) ==
    /\ f.line \in 1..This
    /\ [upstream |-> f.upstream, tool |-> f.tool] \in Route(lines[f.line].name)
    /\ f.credential = Credential(lines[f.line])
    /\ f.id < ids[f.upstream]

ForwardsAgree ==
    /\ \A i \in DOMAIN forwards : Routed(forwards[i])
    /\ \A i, j \in DOMAIN forwards :
           forwards[i].upstream = forwards[j].upstream /\ forwards[i].id = forwards[j].id => i = j

\* The call in flight was written for the line at hand.
WaitAgrees ==
    stage = "waiting" /\ wait.method = "tools/call" =>
        \E i \in DOMAIN forwards :
            /\ forwards[i].line = This
            /\ forwards[i].upstream = wait.upstream
            /\ forwards[i].id = wait.id

IInv ==
    /\ TypeOK
    /\ LabelsAreUnique
    /\ StagesAgree
    /\ ForwardsAgree
    /\ WaitAgrees
    /\ AnswersMatch
=============================================================================
