------------------------------ MODULE Cockpit ------------------------------
(***************************************************************************)
(* The terminal cockpit, `guardian ui` (crates/guardian-cli/src/tui.rs),   *)
(* and the daemon it polls over the control socket.                        *)
(*                                                                         *)
(* The cockpit is one task: it draws, then waits for a 400 ms tick or an   *)
(* event, and the handler makes its requests to the daemon one after the   *)
(* other.  `todo` is what the handler running has still to do: every       *)
(* request is a step of its own, and agents that ask, deadlines that pass  *)
(* and a daemon that dies and is started again come in between.  A card is *)
(* an entry of the list fetched last, which may be stale.                  *)
(*                                                                         *)
(* A key that answers a card is pressed at one time and handled at another *)
(* (`EventStream` buffers it), and the list may be refreshed in between:   *)
(* `select!` may take a tick first, and while a handler waits for the      *)
(* daemon the screen is still the one drawn before it.  One such event is  *)
(* buffered at a time; the keys that aim at no card are handled as they    *)
(* are pressed.                                                            *)
(*                                                                         *)
(* The queue is seen here from outside (ApprovalQueue has its races): an   *)
(* entry is answered, expires, or is lost with the process, and the caller *)
(* of a lost one is denied.  What is typed is reduced to whether Enter     *)
(* would accept it; the archive's rows and every wording are left out.     *)
(***************************************************************************)
EXTENDS Integers, Sequences, FiniteSets, Functions

CONSTANTS
    Asks,          \* the calls decided `ask`
    MaxCards,      \* the cards that fit on the screen
    MaxRestarts,   \* bound: how often the daemon is started again
    MaxProtected   \* bound: the values protected at run time

ASSUME CockpitAssumption == MaxCards \in Nat /\ MaxRestarts \in Nat /\ MaxProtected \in Nat

VARIABLES
    up,         \* the daemon serves its socket
    life,       \* how often it has been started again
    counter,    \* the queue's next id, in this life
    queue,      \* the pending map, its entries as cards
    verdict,    \* what each call was told
    protected,  \* how many values the daemon protects
    demo,       \* App: started with --demo
    view,       \* App: the screen shown
    list,       \* App: `pending`, the cards
    selected,   \* App: index into the list, from 0
    status,     \* App: what the header reports, the last poll or a panic
    vault,      \* App: the number of protected values shown
    typed,      \* App: the open form holds what Enter would accept
    quit,       \* App: leaving the loop
    key,        \* the answer in the event buffer, a set of at most one
    todo,       \* the requests the running handler has still to make
    panicking,  \* the running handler is `panic_all`,
    doomed,     \* and these are the cards it has still to deny
    panic,      \* history: the actions of the last panic, and whether all were heard
    astray      \* history: how the answer just given told another action than was aimed at

daemonVars == <<up, life, counter, queue, verdict, protected>>
screenVars == <<view, typed, quit, key>>
listVars == <<list, selected, status>>
ghostVars == <<panic, astray>>
panicVars == <<panicking, doomed>>
cockpitVars ==
    <<daemonVars, demo, screenVars, listVars, vault, todo, panicVars, ghostVars>>

\* No panic is under way or on the header.
NoPanic == [shown |-> {}, heard |-> FALSE]

-----------------------------------------------------------------------------
(* The daemon, and those who use it besides the cockpit. *)

Waiting(a) == \E e \in queue : e.action = a

\* A hash map is listed in no order in particular: the next poll may find another.
Listings(entries) ==
    {s \in [1..Cardinality(entries) -> entries] : Range(s) = entries}

\* Fault: the id is the size of the map, so it is given again after an answer.
BadAsk(a) ==
    /\ up
    /\ verdict[a] = "unasked"
    /\ queue' = queue \cup {[id |-> Cardinality(queue), action |-> a, life |-> life]}
    /\ counter' = counter + 1
    /\ verdict' = [verdict EXCEPT ![a] = "waiting"]
    /\ UNCHANGED <<up, life, protected, demo, panicVars, screenVars, listVars,
                   vault, todo, ghostVars>>

\* `queue.request` for a call of the gateway or of an `approve` request.
Ask(a) ==
    /\ up
    /\ verdict[a] = "unasked"
    /\ queue' = queue \cup {[id |-> counter, action |-> a, life |-> life]}
    /\ counter' = counter + 1
    /\ verdict' = [verdict EXCEPT ![a] = "waiting"]
    /\ UNCHANGED <<up, life, protected, demo, panicVars, screenVars, listVars,
                   vault, todo, ghostVars>>

\* The timeout arm of `request`.
Expire(a) ==
    /\ Waiting(a)
    /\ queue' = {e \in queue : e.action # a}
    /\ verdict' = [verdict EXCEPT ![a] = "denied"]
    /\ UNCHANGED <<up, life, counter, protected, demo, panicVars, screenVars,
                   listVars, vault, todo, ghostVars>>

\* The process ends: the queue, the ids and the values protected at run time go
\* with it, and the socket error tells every waiting caller no.
Crash ==
    /\ up
    /\ up' = FALSE
    /\ queue' = {}
    /\ counter' = 0
    /\ protected' = 0
    /\ verdict' = [a \in Asks |-> IF Waiting(a) THEN "denied" ELSE verdict[a]]
    /\ UNCHANGED <<life, demo, panicVars, screenVars, listVars, vault, todo,
                   ghostVars>>

Restart ==
    /\ ~up
    /\ life < MaxRestarts
    /\ up' = TRUE
    /\ life' = life + 1
    /\ UNCHANGED <<counter, queue, verdict, protected, demo, panicVars, screenVars,
                   listVars, vault, todo, ghostVars>>
-----------------------------------------------------------------------------
(* The requests.  Each is one connection: `sent` says that it reached the  *)
(* daemon, `heard` that its answer came back.                              *)

Rpc(name, sent, heard) ==
    /\ ~quit
    /\ todo # <<>>
    /\ Head(todo).rpc = name
    /\ todo' = Tail(todo)
    /\ heard => sent
    /\ sent => up

Clamp(n, len) == IF n < len THEN n ELSE IF len = 0 THEN 0 ELSE len - 1

\* `refresh`, its first request: the list is replaced, or kept if nobody answers.
RpcPending(sent, heard) ==
    /\ Rpc("pending", sent, heard)
    /\ IF heard
       THEN /\ list' \in Listings(queue)
            /\ selected' = Clamp(selected, Len(list'))
       ELSE UNCHANGED <<list, selected>>
    /\ status' = "polled"
    /\ panic' = IF panicking THEN panic ELSE NoPanic
    /\ astray' = {}
    /\ UNCHANGED <<daemonVars, demo, panicVars, screenVars, vault>>

RpcVaultStatus(sent, heard) ==
    /\ Rpc("vault_status", sent, heard)
    /\ vault' = IF heard THEN protected ELSE vault
    /\ UNCHANGED <<daemonVars, demo, panicVars, screenVars, listVars, ghostVars>>

\* `respond`: the daemon takes the entry with that id out and tells its caller.
\* The cockpit ignores both the answer and the error.
RpcRespond(sent, heard) ==
    /\ Rpc("respond", sent, heard)
    /\ LET card == Head(todo).card
           hit == IF sent THEN {e \in queue : e.id = card.id} ELSE {}
       IN /\ queue' = queue \ hit
          /\ verdict' = [a \in Asks |->
                IF \E e \in hit : e.action = a
                THEN IF Head(todo).allow THEN "approved" ELSE "denied"
                ELSE verdict[a]]
          /\ astray' =
                {[reissued |-> card.life # life, late |-> Head(todo).late] :
                    e \in {h \in hit : h.action \notin Head(todo).aim}}
    /\ panic' = [panic EXCEPT !.heard = @ /\ heard]
    /\ UNCHANGED <<up, life, counter, protected, demo, panicVars, screenVars,
                   listVars, vault>>

\* `protect`: a value already listed is not added twice.
RpcProtect(sent, heard) ==
    /\ Rpc("protect", sent, heard)
    /\ protected' \in IF sent THEN {protected, protected + 1} \cap 0..MaxProtected
                      ELSE {protected}
    /\ vault' = IF heard THEN protected' ELSE vault
    /\ UNCHANGED <<up, life, counter, queue, verdict, demo, panicVars, screenVars,
                   listVars, ghostVars>>

RpcUnprotect(sent, heard) ==
    /\ Rpc("unprotect", sent, heard)
    /\ protected' = IF sent /\ protected > 0 THEN protected - 1 ELSE protected
    /\ vault' = IF heard THEN protected' ELSE vault
    /\ UNCHANGED <<up, life, counter, queue, verdict, demo, panicVars, screenVars,
                   listVars, ghostVars>>
-----------------------------------------------------------------------------
(* The event loop: a handler starts only when the last one has ended. *)

Idle == ~quit /\ todo = <<>> /\ ~panicking

\* Events are handled in their order: another one only if no answer is in the buffer.
Ready == Idle /\ key = {}

\* Fault: the number of protected values is fetched no more.
BadRefreshCalls == <<[rpc |-> "pending"]>>

RefreshCalls == <<[rpc |-> "pending"], [rpc |-> "vault_status"]>>

\* `refresh`; the sample data of the demo is only clamped.
Refresh ==
    IF demo
    THEN /\ selected' = Clamp(selected, Len(list))
         /\ status' = "polled"
         /\ UNCHANGED <<list, todo>>
    ELSE /\ todo' = RefreshCalls
         /\ UNCHANGED listVars

\* The sample data without one card.
Without(card) == SelectSeq(list, LAMBDA e : e.id # card.id)

\* `act_on`: locally in the demo, else one `respond` and a refresh.  The human aimed at
\* `aim`; `late` says that a refresh was handled since.
ActOn(card, allow, aim, late) ==
    IF demo
    THEN /\ list' = Without(card)
         /\ selected' = Clamp(selected, Len(list'))
         /\ status' = "polled"
         /\ UNCHANGED todo
    ELSE /\ todo' = <<[rpc |-> "respond", card |-> card, allow |-> allow, aim |-> aim,
                       late |-> late]>> \o RefreshCalls
         /\ UNCHANGED listVars

\* The timer, which `select!` may take although an answer is waiting.
Tick ==
    /\ Idle
    /\ Refresh
    /\ key' = {[k EXCEPT !.late = TRUE] : k \in key}
    /\ UNCHANGED <<daemonVars, demo, panicVars, view, typed, quit, vault, ghostVars>>

\* The keys of the two main screens; the archive shows no card, but has the keys.
Main == Ready /\ view \in {"Approvals", "History"}

\* `draw_approvals`, after every handler: the cards that fit get buttons (their `Hit`s).
Drawn == IF view = "Approvals" THEN {i \in DOMAIN list : i <= MaxCards} ELSE {}

\* The cards an answer is about, one at most: under a button, or else selected.
PointedAt(button) == IF button = {} THEN {selected + 1} \cap DOMAIN list ELSE button \cap Drawn

Aimed(button) == {list[i].action : i \in PointedAt(button)}

\* The screen shows the list: the running handler, if any, has not replaced it yet.  (A
\* press after that is aimed at the same screen as one before.)
OnScreen ==
    IF panicking THEN todo = <<>> /\ doomed = list
    ELSE todo = <<>> \/ [rpc |-> "pending"] \in Range(todo)

Press(button) ==
    /\ ~quit /\ key = {}
    /\ OnScreen
    /\ key' = {[button |-> button, aim |-> Aimed(button), late |-> ~Idle]}

\* Key `a` or `d` is pressed, at a card or at an empty screen,
PressKey ==
    /\ view \in {"Approvals", "History"}
    /\ Press({})
    /\ UNCHANGED <<daemonVars, demo, panicVars, view, typed, quit, listVars, vault,
                   todo, ghostVars>>

\* or a button is clicked;
PressButton(i) ==
    /\ i \in Drawn
    /\ Press({i})
    /\ UNCHANGED <<daemonVars, demo, panicVars, view, typed, quit, listVars, vault,
                   todo, ghostVars>>

\* and `resolve_selected`, or the search of the `Hit`s, takes the card that is there now.
\* (Which of the two keys or buttons it was makes no difference before.)
Resolve(allow) ==
    /\ Idle
    /\ \E k \in key :
           IF PointedAt(k.button) = {} THEN UNCHANGED <<listVars, todo>>
           ELSE \E i \in PointedAt(k.button) : ActOn(list[i], allow, k.aim, k.late)
    /\ key' = {}
    /\ UNCHANGED <<daemonVars, demo, panicVars, view, typed, quit, vault, ghostVars>>

\* Fault: only the cards that fit on the screen are denied.
BadPanicAll == [i \in {j \in DOMAIN list : j <= MaxCards} |-> list[i]]

\* `panic_all`: the cards listed when it starts,
PanicAll == list

KeyPanic ==
    /\ Main
    /\ panicking' = TRUE
    /\ doomed' = PanicAll
    /\ panic' = [shown |-> {c.action : c \in Range(list)}, heard |-> TRUE]
    /\ UNCHANGED <<daemonVars, demo, screenVars, listVars, vault, todo, astray>>

\* one denial after the other, each with its refresh,
DenyNext ==
    /\ ~quit /\ panicking /\ todo = <<>>
    /\ doomed # <<>>
    /\ ActOn(Head(doomed), FALSE, {Head(doomed).action}, FALSE)
    /\ doomed' = Tail(doomed)
    /\ UNCHANGED <<daemonVars, demo, screenVars, vault, panicking, ghostVars>>

\* and a last line that reports their number whatever the requests did.
Panicked ==
    /\ ~quit /\ panicking /\ todo = <<>>
    /\ doomed = <<>>
    /\ panicking' = FALSE
    /\ status' = "panic"
    /\ UNCHANGED <<daemonVars, demo, screenVars, list, selected, vault, todo, doomed,
                   ghostVars>>

\* `move_selection`, wrapping around.
KeyMove(step) ==
    /\ Ready
    /\ view = "Approvals"
    /\ list # <<>>
    /\ selected' = (selected + step + Len(list)) % Len(list)
    /\ UNCHANGED <<daemonVars, demo, panicVars, screenVars, list, status, vault,
                   todo, ghostVars>>

KeyTab ==
    /\ Main
    /\ view' = IF view = "History" THEN "Approvals" ELSE "History"
    /\ Refresh
    /\ UNCHANGED <<daemonVars, demo, panicVars, typed, quit, key, vault, ghostVars>>

KeyRefresh ==
    /\ Main
    /\ Refresh
    /\ UNCHANGED <<daemonVars, demo, panicVars, screenVars, vault, ghostVars>>

KeyQuit ==
    /\ Main
    /\ quit' = TRUE
    /\ UNCHANGED <<daemonVars, demo, panicVars, view, typed, key, listVars, vault, todo,
                   ghostVars>>

\* Key `n`: a new, empty form.
KeyNewToken ==
    /\ Main
    /\ view' = "NewToken"
    /\ typed' = FALSE
    /\ UNCHANGED <<daemonVars, demo, panicVars, quit, key, listVars, vault, todo,
                   ghostVars>>

\* Key `v`: the protect screen with an empty field.
KeyProtect ==
    /\ Main
    /\ view' = "Protect"
    /\ typed' = FALSE
    /\ Refresh
    /\ UNCHANGED <<daemonVars, demo, panicVars, quit, key, vault, ghostVars>>

\* Esc in a form; a form is emptied when it is opened, so what it held is forgotten here.
KeyEsc ==
    /\ Ready
    /\ view \in {"NewToken", "Protect"}
    /\ view' = "Approvals"
    /\ typed' = FALSE
    /\ UNCHANGED <<daemonVars, demo, panicVars, quit, key, listVars, vault, todo,
                   ghostVars>>

\* Tab, characters and Backspace in the token form.
FormEdit ==
    /\ Ready
    /\ view = "NewToken"
    /\ typed' \in BOOLEAN
    /\ UNCHANGED <<daemonVars, demo, panicVars, view, quit, key, listVars, vault, todo,
                   ghostVars>>

\* `submit_token`: a complete form is stored in the OS keychain, which the cockpit does
\* not read, and emptied; a failure keeps it.
SubmitToken(stored) ==
    /\ Ready
    /\ view = "NewToken"
    /\ typed
    /\ IF stored \/ demo
       THEN typed' = FALSE
       ELSE UNCHANGED typed
    /\ UNCHANGED <<daemonVars, demo, panicVars, view, quit, key, listVars, vault, todo, ghostVars>>

ProtectEdit ==
    /\ Ready
    /\ view = "Protect"
    /\ typed' \in BOOLEAN
    /\ UNCHANGED <<daemonVars, demo, panicVars, view, quit, key, listVars, vault, todo,
                   ghostVars>>

\* Enter: the field is emptied whether or not the daemon took the value.
ProtectEnter ==
    /\ Ready
    /\ view = "Protect"
    /\ typed
    /\ typed' = FALSE
    /\ IF demo
       THEN vault < MaxProtected /\ vault' = vault + 1 /\ UNCHANGED todo
       ELSE todo' = <<[rpc |-> "protect"]>> /\ UNCHANGED vault
    /\ UNCHANGED <<daemonVars, demo, panicVars, view, quit, key, listVars, ghostVars>>

\* Backspace in an empty field: undo.
ProtectUndo ==
    /\ Ready
    /\ view = "Protect"
    /\ ~typed
    /\ IF demo
       THEN vault' = (IF vault > 0 THEN vault - 1 ELSE 0) /\ UNCHANGED todo
       ELSE todo' = <<[rpc |-> "unprotect"]>> /\ UNCHANGED vault
    /\ UNCHANGED <<daemonVars, demo, panicVars, screenVars, listVars, ghostVars>>
-----------------------------------------------------------------------------
\* The sample cards of `--demo`; their ids are ones the daemon may issue as well.
DemoCards ==
    {[i \in DOMAIN s |-> [id |-> i, action |-> s[i], life |-> 0]] : s \in Listings(Asks)}

CockpitInit ==
    /\ up = TRUE
    /\ life = 0
    /\ counter = 0
    /\ queue = {}
    /\ verdict = [a \in Asks |-> "unasked"]
    /\ protected = 0
    /\ demo \in BOOLEAN
    /\ view = "Approvals"
    /\ list \in IF demo THEN DemoCards ELSE {<<>>}
    /\ selected = 0
    /\ status = "polled"
    /\ vault = 0
    /\ typed = FALSE
    /\ quit = FALSE
    /\ key = {}
    /\ todo = IF demo THEN <<>> ELSE RefreshCalls
    /\ panicking = FALSE
    /\ doomed = <<>>
    /\ panic = NoPanic
    /\ astray = {}

Environment == (\E a \in Asks : Ask(a) \/ Expire(a)) \/ Crash \/ Restart

Requests(sent, heard) ==
    \/ RpcPending(sent, heard)
    \/ RpcVaultStatus(sent, heard)
    \/ RpcRespond(sent, heard)
    \/ RpcProtect(sent, heard)
    \/ RpcUnprotect(sent, heard)

Handlers ==
    \/ Tick \/ KeyPanic \/ KeyTab \/ KeyRefresh \/ KeyQuit
    \/ KeyNewToken \/ KeyProtect \/ KeyEsc \/ FormEdit \/ ProtectEdit \/ ProtectEnter \/ ProtectUndo
    \/ PressKey \/ \E i \in DOMAIN list : PressButton(i)
    \/ \E allow \in BOOLEAN : Resolve(allow)
    \/ \E step \in {1, -1} : KeyMove(step)
    \/ \E stored \in BOOLEAN : SubmitToken(stored)

CockpitNext ==
    \/ Environment
    \/ \E sent, heard \in BOOLEAN : Requests(sent, heard)
    \/ DenyNext
    \/ Panicked
    \/ Handlers

CockpitSpec == CockpitInit /\ [][CockpitNext]_cockpitVars

\* The task runs on; the interval keeps firing, and tokio's select! picks at random
\* among the branches that are ready, so a busy keyboard does not starve it.  A
\* daemon that is up answers a poll now and then.  Nothing is assumed of the human.
Fairness ==
    /\ WF_cockpitVars(DenyNext \/ Panicked \/ \E sent, heard \in BOOLEAN : Requests(sent, heard))
    /\ SF_cockpitVars(Tick)
    /\ SF_cockpitVars(RpcPending(TRUE, TRUE))
    /\ SF_cockpitVars(RpcVaultStatus(TRUE, TRUE))

FairSpec == CockpitSpec /\ Fairness
-----------------------------------------------------------------------------
(* What the cockpit promises. *)

\* An answer reaches the action under the cursor or the button when it was pressed,
\* or nobody: the list is stale by the time the answer is handled, cards have been
\* answered, have expired and have been added in the daemon, but an id names one action.
\* There are two exceptions, both real.  An answer that is handled after a refresh
\* goes to whatever card has come under the cursor, because the list has no order of its
\* own and the selection is an index.  And a daemon that was started again issues the
\* same ids, so a card kept from before answers whatever has its id now.
AnswersReachTheirCard ==
    \A a \in astray : a.late \/ a.reissued

\* `p` denies everything listed: when it says so, and the daemon heard every
\* denial, none of the cards listed when it was handled is waiting any more,
\* those that do not fit on the screen included.  (Actions asked for since, and
\* a panic the daemon did not hear, are not covered; the status is the same.)
PanicLeavesNoneWaiting ==
    status = "panic" /\ todo = <<>> /\ ~panicking /\ ~demo /\ panic.heard =>
        \A a \in panic.shown : ~Waiting(a)

\* What waits for the human comes on the list while the cockpit runs and the daemon
\* lives; and the number of protected values shown catches up with the daemon,
\* one that lost them in a crash included.
CockpitCatchesUp ==
    /\ \A a \in Asks :
           (Waiting(a) /\ ~demo) ~> (quit \/ ~Waiting(a) \/ \E c \in Range(list) : c.action = a)
    /\ []<>(demo \/ quit \/ ~up \/ vault = protected)
-----------------------------------------------------------------------------
(* Why: the inductive invariant, about the queue, the cards and the panic. *)

Card == [id : Nat, action : Asks, life : Nat]
Call == [rpc : {"pending", "vault_status", "protect", "unprotect"}]
            \cup [rpc : {"respond"}, card : Card, allow : BOOLEAN, aim : SUBSET Asks,
                  late : BOOLEAN]
Answer == [button : {{}} \cup {{i} : i \in Nat}, aim : SUBSET Asks, late : BOOLEAN]

\* The cards the running handler has still to answer, and all the cards it knows.
Answering(calls) == {c.card : c \in {d \in Range(calls) : d.rpc = "respond"}}
Owed == Range(doomed) \cup Answering(todo)
Seen == Range(list) \cup Owed

\* The demo's sample cards are only shown, so they do not matter here.
CockpitTypeOK ==
    /\ up \in BOOLEAN /\ life \in Nat /\ counter \in Nat
    /\ queue \in SUBSET Card /\ IsFiniteSet(queue)
    /\ verdict \in [Asks -> {"unasked", "waiting", "approved", "denied"}]
    /\ demo \in BOOLEAN /\ panicking \in BOOLEAN
    /\ todo \in Seq(Call)
    /\ ~demo => /\ list \in Seq(Card) /\ doomed \in Seq(Card) /\ key \in SUBSET Answer
                /\ panic \in [shown : SUBSET Asks, heard : BOOLEAN]

\* Nothing is sent in the demo, and only a panic dooms cards.
HandlersAgree ==
    /\ demo => todo = <<>>
    /\ ~panicking => doomed = <<>>

\* The map holds one entry for an id and for an action, all of this life.
EntriesGenuine ==
    /\ ~up => queue = {}
    /\ \A e \in queue : e.life = life /\ e.id < counter /\ verdict[e.action] = "waiting"
    /\ \A d, e \in queue : d.id = e.id \/ d.action = e.action => d = e

\* However old a card is, an entry for its action is the entry it was made from, and
\* in the same life so is an entry with its id.
CardGenuine(c) ==
    /\ c.life <= life
    /\ verdict[c.action] # "unasked"
    /\ \A e \in queue : e.action = c.action => e = c
    /\ up /\ c.life = life => c.id < counter /\ \A e \in queue : e.id = c.id => e = c

CardsGenuine == ~demo => \A c \in Seen : CardGenuine(c)

\* What a panic was shown and still waits, it has still to deny.
PanicAgrees ==
    ~demo => /\ \A a \in panic.shown : verdict[a] # "unasked"
             /\ panic.heard =>
                    \A a \in panic.shown : Waiting(a) => \E c \in Owed : c.action = a

\* An answer that is not late is about the card it was aimed at: in the buffer, where it
\* is late once a handler has started, and on its way to the daemon.
CallsAimed(calls) ==
    \A c \in Range(calls) : c.rpc = "respond" => c.late \/ c.aim = {c.card.action}

AimsAgree ==
    ~demo => /\ \A k \in key : \/ k.late
                               \/ todo = <<>> /\ ~panicking /\ k.aim = Aimed(k.button)
             /\ CallsAimed(todo)

CockpitInv ==
    /\ CockpitTypeOK
    /\ HandlersAgree
    /\ AimsAgree
    /\ EntriesGenuine
    /\ CardsGenuine
    /\ PanicAgrees
    /\ AnswersReachTheirCard
=============================================================================
