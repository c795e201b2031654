# Guardian, specified

Project Guardian stands between an AI agent and its tools: every tool call is
normalised into an action, decided by a deterministic policy, put to a human if the
decision is `ask`, recorded in a tamper-evident log, and only then forwarded. This
directory holds TLA+ specifications of that machinery, the TLC models that check them
on small instances, and TLAPS proofs of their main properties for instances of any
size. `PROJECT.json` lists the runs, the theorems, and for every definition the lines
it models.

Paths below are relative to `src/crates/`.

## The system

| Component | State | Operations | Hard because |
|---|---|---|---|
| Action model (`guardian-core`, `build_action` of the gateway) | none | classify a call, order decisions | a critical call must be recognised whatever the hints |
| Policy engine (`guardian-policy` schema, engine) | a compiled policy | load, evaluate | caps, floor, flags and most-restrictive-wins interact |
| Policy packs (`guardian-policy/src/pack.rs`, `guardian pack`) | files, manifest, key file | sign, verify, load | files are read three times, others write between |
| Approval queue (`guardian-daemon`, `ApprovalQueue`) | map of pending entries, one channel each | request, pending, respond | humans answer stale lists while deadlines pass |
| Gateway (`guardian-mcp-gateway`, `Gateway`) | none of its own between calls | handle | many calls at a time, each overtaken at every await |
| Self-protection, kill switch | the STOP file | engage, disengage, override | it changes while calls are in flight |
| Data vaults (gateway, `guardian-broker/src/vault.rs`) | list of protected values, a vault per session | protect, unprotect, tokenize, detokenize | two locks, and an await between two uses |
| Audit log (`guardian-audit`) | a SQLite file: rows, head, signature | open, append, verify, tail | several processes share the file |
| Control protocol (`guardian-daemon`) | connections | call, pending, respond, approve, kill switch, protect, verify | a connection may end at any time |
| Egress proxy (`guardian-proxy`) | the requests in flight | inspect, decide, record, ask, forward | the log is written before the verdict |
| Credential broker (`guardian-broker`) | secrets by target, capabilities | authorize, inject, issue, verify | expiry and caveats |
| MCP server and upstreams (gateway, `guardian mcp`) | child processes, a request counter each | spawn, serve, route, inject, forward | children chatter, answer late or twice, die; names and labels overlap |
| Cockpit (`guardian-cli/src/tui.rs`) | a list and a selection | refresh, move, resolve, click, panic, protect | the list changes under the selection, the daemon restarts under the list |
| Command line, configuration, sandbox (`guardian-cli/src/main.rs`, `guardian-daemon/src/config.rs`, `main.rs`, `guardian-sandbox`) | the files under `~/.guardian` | init, daemon start, exec, hook, log, ui | several programs find, write and protect the same files by path |
| Checker, report, notifications, PII client, desktop shell | none that matters | | advisory or pure I/O |

A front-end (`guardian mcp`, the cockpit, the proxy) sends a line over the control
socket; each connection is a task of its own. `Call` runs `Gateway::handle`, which
consults the policy in memory, suspends on the approval queue, appends to the log
under a mutex and awaits the upstream. `Pending` and `Respond` are the cockpit's side
of the queue; `Protect` and `Unprotect` change the list that calls in flight are
reading; `KillSwitch` writes or removes a file that `handle` looks at once. The log's
file is also appended to by `guardian exec`, `guardian proxy` and `guardian pack`, and
verified by `guardian log` and by the daemon when it starts.

What makes it correct: nothing runs unlogged, unapproved (if critical) or against an
override; an approval is for the action the human saw; every call returns; the policy
means the same in any order of its rules; the log is one chain whoever writes to it,
and verification is right about it; a token resolves where it was minted and nowhere
else, and a protected value in a result's text is not shown; a key pressed in the cockpit
answers the card it was aimed at; what an agent wrote does not come to govern it; a call reaches the upstream that offered the tool, with that upstream's
credential and no other, and gets that call's answer; a loaded pack is what its publisher
signed; the programs agree on their files and fail closed without them.

## Modules

Three modules are abstract: they say what a part promises, and the module that models
the part is shown to implement them by a refinement mapping. They stand for no code of
their own beyond the interface they describe.

`Approval` is what an approver promises: a request is asked once, answered once, and
`approved` only if a human chose to approve that very action. Liveness: it is answered.

`Mediation` is what a mediator promises of the requests that pass through it: a request
is carried out once, after its row, if the row allows it or says `ask` and a human
approved it; it has one row, none after the act; a critical one is never recorded as
allowed; a refusal is final. `Gateway` implements it with tool calls, `Proxy` with HTTP
requests (`Mediator` in both). They get there in different orders: the gateway
asks the human and then records the verdict, the proxy records `ask` and then asks. In
`Gateway` the abstract rows are the log of `record`; a call is refused when `handle` has
returned blocked. In `Proxy` the critical requests are those
tagged as exfiltration so far, so a request is classified when its inspection ends.

`Ledger` is what the audit log promises whoever appends: one sequence that each append
extends by its entry or leaves alone, an answer that says which, and at most one
tampering, which can only cut the sequence short. `AuditLog` implements it with the
contents of the rows up to the head, and once the file was damaged with what the head's
hash commits to (`Committed`).

`ApprovalQueue` models `guardian-daemon/src/lib.rs:40-131`. A request draws an id,
inserts its entry, and awaits a channel inside tokio's `timeout`. The module splits
`Timeout::poll` in two, the channel first and the deadline second, and the drop of the
receiver from the removal of the entry, because `respond` (remove under the lock, then
send) fits in between. Cockpits answer from snapshots. `A == INSTANCE Approval WITH ...`
maps it to the abstract approval. `elapsed` stands for the timer.

`Gateway` models `Gateway::handle` (`guardian-mcp-gateway/src/lib.rs:361-455`) with
`override_deny`, `record`, and the socket's two ends. One action is a stretch of code
without an await that another task could use to change what the stretch reads. The
approver is the abstract `Approval`; the policy is any that respects the critical
floor (`Outcomes` in `Actions`, which the theorem `EvaluationIsExpected` shows of the real one). The process may die at any point;
the log, the STOP file and the tools' effects survive. `executed` is what a tool was
handed, `reply` what the front-end was told, `under` whether STOP has existed ever
since the call arrived.

`Actions` and `PolicyEngine` model normalisation, loading and evaluation. A rule's CEL
condition is what it evaluates to (`true`, `false`, `error`, or `invalid` if it does
not compile). An iteration of the loop is a step, so that its invariant can be stated:
the outcome so far is the meaning of the rules so far. Numbers are integers and `NaN`.

`AuditLog` models `guardian-audit/src/lib.rs` over SQLite's rollback-journal locks:
SHARED, RESERVED, PENDING, BUSY. `append` is a deferred transaction: it reads the head
as a reader and becomes the writer at the INSERT. `verify` is three reads, each a
transaction of its own: rows, head, signature. A hash is the sequence of contents it
commits to (no collisions), a signature the head it signs. The environment may change
the file once behind the log's back, and may end a process anywhere.

`SessionVaults` models the protected list and the vaults (`lib.rs:266-357`, the tail of
`handle`, `guardian-broker/src/vault.rs`). The list and the vaults have a lock each,
never held together, so `with_vault` and `add_protected` are two steps. A token is the
session and the value it was minted for; the arguments carry at most one token, the
answer at most one sensitive value, which stands in a string of the result (the place
`tokenize_json` looks at), in an object key or number, or in the text of an error.

`Proxy` models `handle_request` of the egress proxy (`guardian-proxy/src/server.rs`,
`lib.rs`) with the broker's caveats and leak scan (`guardian-broker/src/lib.rs`,
`capability.rs`). Requests are in flight together; the awaits are the reading of the
body and the human, and at both the client may hang up. The row is written between the
decision and the human, so it says `ask` whatever the verdict. A host is a name and a
port as `summarize` and `normalize_host` leave them (`HostKey`), which is not always where
the request goes (`Destination`, of the properties only). `stamp` is the action's timestamp;
`exposed` and `attached` say of what went out whether its body held a secret and whether
it carried the broker's credential.

`Cockpit` models `guardian ui` (`guardian-cli/src/tui.rs`) and the daemon as it sees it.
A key or click that answers a card is two steps: the press (`PressKey`, `PressButton`),
possible while a handler runs, when it waits in the terminal's event stream (`key`), and
its handling (`Resolve`) against the list there is by then. `aim` is the action that was
on the screen at the press, `late` says that a refresh was handled in between. Of the
keys that answer, one at most waits; the others are handled when the task is idle. The cockpit is one task; a handler is a list of requests still to make (`todo`), each a
step that the daemon may hear or not and whose answer may be lost; `panic_all` is a loop
over the cards it copied (`doomed`), each denied and followed by a refresh. The pending
map is a set, and a poll lists it in any order (the real map's order changes only when
it does, so the model allows more). The daemon may die and come back with an empty queue
and a counter at zero. `astray` collects the answers that told another action than the
one aimed at, with the reasons there were (`late`, `reissued`).

`McpProxy` models `guardian mcp` in proxy mode: `McpServer`, `McpStdioUpstream`,
`MultiUpstream` and the router functions of the gateway crate, `run_mcp`,
`BrokeredUpstream` and the parsing of `--upstream` of the command line. A name is the
sequence of its segments (`Segments`) between `__`, so that labels and tools can overlap
the way strings do; the empty string is a segment, and the label of an upstream that has
none. What a child writes is `out`; it may be an answer, a repeated answer, a
request with an id of its own, noise, or a line that cannot be read. The gateway's mediation is reduced to a verdict
per kind.

`Packs` models `pack.rs` and `guardian pack`: minting and writing the key file, hashing
file by file, publishing the manifest; verification, the scan for widening rules and the
final read, file by file. Somebody else may write, remove or re-sign anything between
two file operations. A hash is the content, a signature a record of key and content.

`FrontEnds` models the files under `~/.guardian`: `init_files`, `Config::load` and the
start of the daemon step by step, the paths that `log` and `ui` resolve, `exec` with its
sandbox, and the Claude Code hook with its classification of tools. A path is a symbol,
a policy file the name of its content, a config file the keys it sets. The agent writes
policy and config files through the running daemon, which refuses the paths it listed
when it started (`override_deny`); `tainted` remembers what the agent wrote and nobody
has rewritten or vouched for since, and whether the daemon was older than its config.

The `...Proofs` modules hold the theorems, the `MC...` modules the constants of the
runs. Definitions named `Bad...` are faults the properties must detect; no
specification uses them.

## Runs

| Run | Bound | Shows |
|---|---|---|
| `approvals` | 2 requests, 2 cockpits | `ImplementsApproval`, `EveryRequestReturns`, `WaiterIsAnswerable`, `NothingPendingIsSettled`, `AckedDenialIsFinal` |
| `mediation` | 3 calls: ordinary, critical, self-modifying | `ExecutedIsRecorded`, `CriticalNeedsHuman`, `DenialStands`, `OverridesHold`, `OutcomeIsTruthful`, `ImplementsMediation`, `CallsDoNotHang` |
| `kill_switch` | the same | finding: a call past the check runs while STOP exists |
| `policy` | policies of up to 3 rules from 8, 6 calls | `EvaluatesToMeaning`, `AllowIsUnanimous` |
| `policy_nan` | the same | finding: an amount that is NaN is allowed under an amount cap |
| `audit` | 2 connections (one signs), 3 entries, 1 outside change | `LogIsChain`, `AppendsAreTruthful`, `VerdictIsRight`, `AppendOnly`, `ImplementsLedger`, `AppendReturns` |
| `audit_alarm` | the same | finding: an append between two reads of a verification looks like tampering |
| `vaults` | 2 calls, 2 sessions, 2 values, any number of protects and unprotects | `TokensResolveAtHome`, `ProtectedIsTokenized` |
| `proxy` | 2 requests of 9 shapes, a clock of 2 instants with the deadline at the second | `SecretsStayHome`, `CriticalCredentialIsFresh`, `ImplementsMediation`, `RequestsFinish` |
| `cockpit` | 2 asks, 1 card fits, 1 restart, 1 protected value | `AnswersReachTheirCard`, `PanicLeavesNoneWaiting`, `CockpitCatchesUp` |
| `mcp` | 5 command lines of up to 2 upstreams, 2 lines of the agent, 1 stray line | `AdvertisedReachesItsOwner`, `CredentialGoesHome`, `AnswersMatch`, `AgentIsAnswered` |
| `operator` | packs: 2 files, 2 signers, 2 outside writes; files: every environment with the three path variables alike, 5 configs, 3 tools, 2 edits by hand | `LoadedIsSigned`, `ProvenanceIsAuthentic`, `PublisherIsStable`, `RoleTakesEffect`, `AgentNeverGoverns`, `FrontEndsMeetTheDaemon`, `OneShotsFailClosed` |

The bounds: two requests and two cockpits give every race of the queue, which is
between one request, its deadline and two responders; the second request is there for
verdicts that go astray. Three calls of the gateway differ in kind; calls interact only
through STOP, the log and the process, all of which every one of them meets. Three
entries on two connections give a chain with a middle, two writers at a time, and a
writer beside a verifier. Two calls and two sessions give two calls of one session and
one of each. Calls and sessions are interchangeable in `SessionVaults`, so TLC may use
symmetry (no liveness is checked there). The proxy's requests share only the log and
the clock; the nine shapes cover every way a host is named, a body is sent and a host
is trusted. Two asks and one visible card give a card that is hidden, one that is
replaced under the selection, and a reordering; one restart gives ids issued again. The
five command lines of `mcp` are one unlabelled upstream, two whose labels overlap, one
label twice, an upstream whose label comes out empty beside a labelled one, and none; two
lines let an answer to the first arrive during the second, and
one stray line is enough to be mistaken for an answer. Two files give a pack with one
file edited and one not, and a set of files that differs from the manifest's; two signers
are a race for the key file; two outside writes are an edit and its undoing, or a file
and a manifest. The signers are interchangeable (no liveness is checked there).

`operator` checks two modules in one run. `Packs` and `FrontEnds` share no variable, so
the behaviours of both together are interleavings of the behaviours of each, and a
property of one is true of them if it is true with the other at rest in one of its
initial states: `side` says which of them is at work. Of the files, the one-shot deciders
are checked beside init and the user but not beside the daemon: they read the policy
files and write nothing that the daemon or anybody else reads, and the daemon and the
agent give the policy files no content the user cannot. The proofs of `FrontEnds`
(`FilesSpec`) make no such separation. The policy, audit and socket variables are looked
up one by one by code of the same form, so in the run they vary together. Two edits are
one that names a file and one that unnames it. Runs that may stop say so: an evaluation ends, requests arrive once, the
agent closes its input, the user quits the cockpit, a pack is loaded once.

`VerdictIsRight` says what `verify` does guarantee: damage that was there when it
began is found, and an alarm over an undamaged chain needs a commit between its reads.
`OverridesHold` says what the kill switch does guarantee: a call that arrives under it
does not run while it stays. `AllowIsUnanimous` says what limits do guarantee, with the
exception of NaN that `policy_nan` shows. `AgentNeverGoverns` excepts what a daemon older
than its config let through; TLC finds such a write, and the daemon that is started next
does run on it.

### Fairness

`ApprovalQueue`: a woken task is polled and the clock passes the deadline; nothing of
the humans. `Gateway`: the runtime runs what can run, and the approver answers, which is
`EveryRequestReturns`; nothing of the human, the upstream (there is no timeout on it),
STOP, or the process's survival. A front-end's read of a dead connection returns.
`AuditLog`: a process that has begun an append or a verification goes on, since
SQLite's waiting is bounded by its busy timeout; nothing of when appends begin.
`Proxy`: a request whose body has been read goes on, and the approver answers; nothing
of the client's sending, because reading the body has no timeout. `Cockpit`: a handler
that runs goes on (weak); `tokio::select!` picks among ready branches at random, so the
tick is taken again and again however many keys are pressed, and a daemon that lives
answers a poll now and then (strong). `McpProxy`: the server goes on, and a child that
lives answers what it was asked or dies, because the code has no timeout for it.

## Proofs

Every safety invariant, action property and refinement that a run checks is proved for
arbitrary constants, under the named assumptions of the modules. A few more are proved
and not listed in a run because a property of the run implies them: `ApprovalIsAuthentic`
(`ImplementsApproval`), `ForwardedIsRecorded` (`ImplementsMediation`), `OrderIsIrrelevant`
and `OutcomeIsExpected` (`EvaluatesToMeaning` with `AllowIsUnanimous`); and the type
invariants, which are the first conjunct of each inductive invariant.

The assumptions. `CallsAssumption`:
critical and self-modifying calls are calls. `NaNAssumption`, `PoliciesAssumption`,
`ToolCallsAssumption`: the shape of parsed policies and arguments. `ConnsAssumption`,
`EntriesAssumption`; `ShapesAssumption`, `BrokerAssumption`, `TimeAssumption`: the shape
of requests and of the broker's configuration. `NoSessionAssumption`,
`ValuesAssumption`: the marks `SessionVaults` uses are neither sessions nor values. `PacksAssumption`: nor are they signers' keys.
`McpAssumption`: names are non-empty sequences of segments, and an explicit label is not
empty (`parse_upstream` takes an empty one as no label). `FrontEndsAssumption`: environments and policies
have their types. `CockpitAssumption`: the bounds are numbers. No proof rests on the
size of a set or of a bound.

Hardly any of the properties is inductive as it stands; each module states its inductive
invariant (`IInv`, `Inv`, `FilesInv`, `CockpitInv`) at its end as a
conjunction of named parts, the type invariant first, and TLC has checked each of them on
the runs' instances. The proofs have one lemma per action and frame lemmas for what a
step leaves alone.

- `ApprovalQueueProofs`: `QueueInvariant`, from which follow `QueueTypeOK`,
  `WaitersCanBeAnswered`, `SettledIsNotListed`, `ApprovalsAreAuthentic` and
  `AckedDenialsAreFinal`; and the refinement `QueueImplementsApproval`. The invariant
  adds that ids are drawn once (`IdsUnique`), that listed entries and snapshots carry the
  id their action drew (`EntriesGenuine`), that a sender in hand is the only one for its
  action (`HandsGenuine`), and that a channel holds the acknowledged verdict
  (`ChannelsAgree`). Authenticity follows the verdict from the human to the hand to
  the channel to the result. The refinement maps every step to one of the abstract
  approval's or to a stutter.
- `GatewayProofs`: `GatewayInvariant`, `GatewayTypeOK`, `NothingRunsUnlogged`,
  `CriticalIsApproved`, `DenialsAreFinal`, `OverridesAreKept`, `OutcomesAreTrue`. The
  invariant ties the place of a call to what has happened (`ProgressAgrees`), to its
  decision (`DecisionsAgree`) and to its row (`RowsAgree`): a row that lets a call through
  precedes the forwarding, a row that stops it ends the call, so a crash anywhere leaves
  the log right. `GatewayImplementsMediation` maps every step to one of the abstract
  mediator's or to a stutter; for the forwarding of an asked call it needs besides that
  the approver's verdict agrees with the human's choice (`ConsentAgrees`).
- `PolicyEngineProofs`: `PolicyInvariant`, `EvaluationIsMeaning`, `AllowsAreJustified`,
  `RuleOrderIsIrrelevant`, `EvaluationIsExpected`. The loop invariant `LoopInv` says the
  outcome is the meaning of the rules before `i`. A limit is `Within` only if its argument
  is there and a number that does not exceed it; `AllowsAreJustified` excepts NaN by
  name. The last two are what the rest of the system relies on: the decision depends on
  the set of matching rules only, and it is one of the `Outcomes` from which `Gateway`
  and `Proxy` choose, so what is proved of them holds with the real engine.
- `AuditLogProofs`: `AuditInvariant`, `AuditTypeOK`, `LogStaysOneChain`,
  `AppendsTellTheTruth`, `VerdictsAreRight`, `RowsAreKept`. Central is `TxIsFresh`: a
  connection that holds a lock has the head as it is, because nobody commits past a
  reader. `Evident` and `WalkIsRight` follow damage through later appends to the verdict
  of a verification. `AuditImplementsLedger` needs one more invariant, `HeadIsOwned`,
  which holds of a damaged file too: what the head commits to was appended, and nothing
  of it was reported failed. With it a COMMIT appends an entry the sequence does not have,
  an error is of an entry that is not in it, and a head rolled back is a shorter sequence
  (`DamageCuts`).
- `FrontEndsProofs`, of two specifications that share no state. `Proxy`: `TypeCorrect`,
  `ForwardedRecorded`, `SecretsHome`, `CredentialFresh`, `ProxyImplementsMediation`. The
  invariant is one formula per request (`RequestInv`): which rows it has at each place,
  what they say once it went out, that a visible secret is tagged from the inspection on,
  that a tagged request is allowed only by its human. `KeyIsDestination` says when the key
  the code looks up is where the request goes.
  `OneRequest` shows that a step leaves the other requests alone, so each action is
  argued for its own request only. `FrontEnds`: `FilesInvariant`, `RolesTakeEffect`,
  `AgentsDoNotGovern`, `FrontEndsFindTheDaemon`, `OneShotsAreClosed`. The role needs
  `SetupAgrees`, `PromisesAgree` and `BootAgrees`, which follow it from init's first write
  to the daemon's last read. What the agent wrote is followed by `TaintAgrees`: it got at
  no file under `~/.guardian`, at no config that is read, and, unless the daemon was
  outdated, at no policy file the environment or a config names; with `ProtectionAgrees`,
  on what a running daemon protects and reads, this gives `AgentNeverGoverns`. The other
  two need types and the lemma `PathsAre`, on what the environment, the config and the
  defaults resolve to.
- `CockpitProofs`, of two specifications that share no state. `Cockpit`:
  `CockpitInvariant`, `AnswersGoToTheirCard`, `PanicDeniesAll`. `AimsAgree` says that an
  answer which waits, or is on its way, was aimed at the card that is now under it, or is
  late. `EntriesGenuine` says an
  id and an action name one entry; `CardGenuine` that a card, however old, agrees with the
  entry of its action, and within one life with the entry of its id; `PanicAgrees` that
  what a panic was shown and still waits is still owed a denial. An action is asked for
  once, so an entry lost in a crash does not come back under another id.
  `SessionVaults`: `VaultsInvariant`, `TokensAtHome`, `ResultStringsAreTokenized`. What a call
  holds between the two locks is tied to the list and to its session's vault: a seed
  taken before the vault was made covers what has been protected ever since the session
  began, and a vault once made keeps what it knows and its tokens.
- `PacksProofs`: `PacksInvariant`, `LoadsAreSigned`, `RecordsAreAuthentic`,
  `OnePublisherKey`. `KeyAgrees` ties a signer's key to the file unless two minted at
  once; `SignaturesGenuine` says a signature by a signer's key was made by a signer over
  those contents; `RunAgrees` and `OnDisk` follow what a loading run has checked of each
  file nobody touched from the first read to the last.
- `McpProxyProofs`: `ProxyInvariant`, `AgentsAnswersMatch`, `CallsReachTheirOwner`,
  `CredentialsGoHome`. `StagesAgree` ties the server's stage to the line it works on,
  `ForwardsAgree` each forwarded call to the routing of its line, `WaitAgrees` the
  awaited id to the newest request of that upstream; ids grow, so an answer that matches
  is the answer to this request. That routing undoes namespacing is the lemma `SplitOnce`.

Only model-checked: the liveness properties (`EveryRequestReturns`, `CallsDoNotHang`,
`AppendReturns`, `RequestsFinish`, `CockpitCatchesUp`, `AgentIsAnswered`), which need
fairness the prover does not handle.

## Not modelled

CEL evaluation, cryptography, the text of spans and of Luhn's sum, lexical path
normalisation, framing and wording are taken by their results. Left out altogether: the
audit report and the archive screen (read-only views of rows), the checker
(`guardian-checker`: advisory text with its own timeout), notifications and the PII
sidecar (best-effort I/O), the keychain, issuing and delegating capability credentials
(`guardian-broker/src/credential.rs`, which no front-end calls), the proxy's certificate
authority, the desktop shell, and the evaluation harness.

## Known limits of the code

Behaviour the models contain and the properties are careful not to deny:

- `respond` may return true for a verdict the deadline overtook: the channel is polled
  empty, the verdict sent, the receiver dropped (`guardian-daemon/src/lib.rs:104,119`).
  It fails closed.
- A front-end whose connection ends after the tool ran is told `Blocked`, so its retry
  would execute the call again (`guardian-daemon/src/lib.rs:754`).
- A value protected between the two locks of `with_vault` is unknown to that session's
  vault (`guardian-mcp-gateway/src/lib.rs:343`), and tokenization is decided before the
  upstream is awaited (`:420`); `ProtectedIsTokenized` speaks of values protected before
  the session's first call and ever since.
- Only strings of a result are tokenized. `tokenize_json` copies object keys and numbers
  (`guardian-broker/src/vault.rs:138-149`), and the text of an upstream's error goes to the
  agent as it is (`guardian-mcp-gateway/src/lib.rs:424,446`): a protected value in either
  is shown. `shown` records these too, and TLC reaches them.
- The port of an absolute-form URI is dropped before the host is looked up
  (`guardian-proxy/src/server.rs:368`), so a secret sent to another port of a host that
  is trusted on its default port is not tagged: `PortUnseen`, which `SecretsStayHome` excepts.
- An answer pressed while the cockpit refreshes waits and is applied to the refreshed
  list (`guardian-cli/src/tui.rs:155-165,380`), where another card may be selected;
  nothing in the code ties it to the card that was on the screen. `AnswersReachTheirCard`
  excepts exactly these (`late`).
- The list of protected paths is made once, when the daemon starts
  (`guardian-daemon/src/main.rs:111`). A policy file that the config names since is open to
  the agent until the daemon is started again and reads it. `override_deny` looks at file
  writes and deletions with a path; what a command writes is left to the OS sandbox and
  is not modelled.
- The hook exits with an error and without a decision if its input cannot be read
  (`guardian-cli/src/main.rs:1044`), although its comment says it always exits 0 with one.
- A head signature whose read fails, for being BUSY too, is reported as tampering
  (`guardian-audit/src/lib.rs:275-280`).
- A credential that expires while the human thinks is used: the caveats are checked at
  the time of `prepare` (`guardian-proxy/src/server.rs:228`).
- After a restart the daemon issues the same ids again; a card kept from before answers
  the new action with its id. A panic covers the cards listed when it was pressed, and
  the header says the same if the daemon heard none of it.
- A label that contains `__` is never routed to, and an unlabelled upstream's tool that
  begins like another's label goes to that other one (`Clean` in `McpProxy`). A request
  of the upstream's own with the awaited id is taken for an empty answer. A program named
  by a dot file gets the empty label although others are registered; a bare name then goes
  to it, with the credential of the upstream whose label the name is
  (`guardian-cli/src/main.rs:1270`), which `CredentialGoesHome` excepts.
  An upstream that lives and never answers holds its line, and the lock, for ever.
- A pack's files are read three times, and what is written in between is loaded
  unverified; `load_pack` has no caller among the front-ends yet. Two signers that mint
  at once leave one of them with a key the file does not hold, and a signer cut off
  between creating and writing the key file leaves an empty one that ends later runs.
- A config file the daemon wrote before `guardian init` is kept, so the role is not
  applied (init says "kept"), and the daemon's test for the file and its write are two
  steps, between which init may write. `log` and `ui` do not read the config file's
  `audit` and `socket`, although the comment at `guardian-cli/src/main.rs:518` claims the
  precedence of `Config::audit_path`, and take a variable set to the empty string as a
  path where the daemon takes it as unset: `FrontEndsMeetTheDaemon` is what is left of the
  claim. An empty GUARDIAN_CONFIG is a path too, at which no file can be. `exec`'s audit entry is best-effort.

## Plan

1. Done: models of the approval queue, the gateway, the policy, the log, the vaults, the
   proxy, the cockpit, the MCP proxy, the packs and the front-ends; proofs of every safety
   property the runs check.
2. Done: the step from `PolicyEngine` to the policy that `Gateway` and `Proxy` assume
   (`EvaluationIsExpected`), and the abstract mediator and ledger with proofs that the
   gateway, the proxy and the log implement them.
3. Left: an abstract view of the queue for the cockpit. A restarted daemon issues its ids
   again, so the abstract view would have to forget them too; `AnswersReachTheirCard`
   states what is true across a restart. Issuing and delegating capability credentials,
   once a front-end calls them.
