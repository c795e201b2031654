----------------------------- MODULE FrontEnds -----------------------------
(***************************************************************************)
(* The files under ~/.guardian and the programs that meet there: `guardian *)
(* init`, the start of guardian-daemon (crates/guardian-daemon, main.rs    *)
(* and config.rs), the cockpit and the log viewer that look for the daemon *)
(* by path, and the one-shot deciders `guardian exec` and the Claude Code   *)
(* hook (crates/guardian-cli, crates/guardian-sandbox).                    *)
(*                                                                         *)
(* init and the daemon read and write their files one at a time and may    *)
(* run at the same time.  A policy file is its content's name, a config    *)
(* file the record of the keys it sets, a path a symbol: "home" is the one *)
(* under ~/.guardian (or in the temp directory), "own" one of the user's.  *)
(* The agent writes files as well, through the running daemon.  The other  *)
(* config keys, permissions and output are left out.                       *)
(***************************************************************************)
EXTENDS Actions, FiniteSets

CONSTANTS
    Envs,        \* the environments the programs may run in
    Says,        \* what a policy's content decides: [content -> [kind -> verdict]]
    Drafts,      \* the config files somebody may write by hand
    ToolNames,   \* names of tools a hook may report, as [known, words]
    MaxEdits     \* bound: changes the user makes to the files by hand

Contents == {"coding-agent", "personal-assistant", "demo", "custom"}
Roles == {"coding-agent", "personal-assistant"}

Paths == {"home", "own"}

\* An environment variable: unset, set to the empty string, or set.
Var == {"unset", "empty", "own"}
EnvVars == [config : Var, policy : Var, audit : Var, socket : Var]

\* A config file's keys, as options; the file may be absent or not parse.
Keys == [policy : Option(Paths), audit : Option({"own"}), socket : Option({"own"})]
Template == [policy |-> None, audit |-> None, socket |-> None]
Config == [is : {"file"}, keys : Keys] \cup [is : {"absent", "malformed"}, keys : {Template}]
File(keys) == [is |-> "file", keys |-> keys]
NoFile == [is |-> "absent", keys |-> Template]

ASSUME FrontEndsAssumption ==
    /\ MaxEdits \in Nat
    /\ Envs \subseteq EnvVars
    /\ Drafts \subseteq Config
    /\ Says \in [Contents -> [ActionKind -> [decision : Decision, sandbox : BOOLEAN]]]

VARIABLES
    env,        \* the GUARDIAN_* variables of the user's shell
    policies,   \* the policy files, by path
    configs,    \* the config files, by path
    edits,      \* changes by hand so far
    init,       \* the run of `guardian init`
    daemon,     \* the daemon process
    backend,    \* the OS sandbox tool is installed
    shot,       \* history: what the last one-shot decider let through
    promised,   \* history: the role the last init set up, if the files are still its own
    tainted     \* history: the files the agent wrote, and nobody else since: [file, outdated]

fileVars == <<env, policies, configs, edits, init, daemon, backend, shot, promised, tainted>>

\* The files given are written by somebody else than the agent, or vouched for.
Untaint(files) == tainted' = {t \in tainted : t.file \notin files}
-----------------------------------------------------------------------------
(* Paths. *)

\* `env_path`: an empty variable counts as unset.
EnvPath(var) == IF var = "own" THEN Some("own") ELSE None

\* `config_path`: an empty variable is a path here, at which nothing is or can be.
ConfigPath == IF env.config = "unset" THEN "home" ELSE env.config
ConfigFile == IF ConfigPath \in Paths THEN configs[ConfigPath] ELSE NoFile

\* `kill_switch_path`: beside the config, or else in ~/.guardian.
StopPath == IF ConfigPath \in Paths THEN ConfigPath ELSE "home"

PolicyPath(cfg) == OrElse(EnvPath(env.policy), cfg.policy)
AuditPath(cfg) == OrElse(OrElse(EnvPath(env.audit), cfg.audit), Some("home"))
SocketPath(cfg) == OrElse(OrElse(EnvPath(env.socket), cfg.socket), Some("home"))

\* Fault: the variable is not looked at.
BadResolve(var) == "home"

\* `resolve_audit_path`, and the socket of `guardian ui`: an empty variable is a path,
\* and the config file is not read.
Resolve(var) == CASE var = "unset" -> "home" [] OTHER -> var

LogPath == Resolve(env.audit)
UiPath == Resolve(env.socket)
-----------------------------------------------------------------------------
(* `guardian init`: two files, the policy first. *)

Idle == [at |-> "idle", role |-> "coding-agent", force |-> FALSE, written |-> FALSE]

InitPolicy(role, force) ==
    /\ init.at = "idle"
    /\ LET write == policies["home"] = "absent" \/ force
       IN /\ policies' = IF write THEN [policies EXCEPT !["home"] = role] ELSE policies
          /\ init' = [at |-> "config", role |-> role, force |-> force, written |-> write]
          /\ promised' = IF write THEN None ELSE promised
          /\ Untaint(IF write THEN {<<"policy", "home">>} ELSE {})
    /\ UNCHANGED <<env, configs, edits, daemon, backend, shot>>

\* Fault: the config written is the commented template only.
BadInitKeys == Template

\* The config points at the policy file of the same directory.
InitKeys == [Template EXCEPT !.policy = Some("home")]

\* The role is set up when both files were written, unless a daemon that found no
\* config is about to write its own over it.
InitConfig ==
    /\ init.at = "config"
    /\ LET write == configs["home"].is = "absent" \/ init.force
       IN /\ configs' = IF write THEN [configs EXCEPT !["home"] = File(InitKeys)] ELSE configs
          /\ promised' = IF write /\ init.written /\ daemon.at # "fresh" THEN Some(init.role)
                         ELSE IF write THEN None ELSE promised
          /\ Untaint(IF write THEN {<<"config", "home">>} ELSE {})
    /\ init' = Idle
    /\ UNCHANGED <<env, policies, edits, daemon, backend, shot>>

InitAbort ==
    /\ init.at = "config"
    /\ init' = Idle
    /\ UNCHANGED <<env, policies, configs, edits, daemon, backend, shot, promised, tainted>>
-----------------------------------------------------------------------------
(* The daemon's start: its config, its policy, its log, its socket. *)

Down == [at |-> "down", cfg |-> Template, policy |-> "none", reads |-> None, audit |-> None,
         socket |-> None, protects |-> {}, promise |-> None]

\* `Config::load` of a file that is there; one that does not parse is fatal.
LoadConfig ==
    /\ daemon.at = "down"
    /\ LET file == ConfigFile
       IN daemon' = CASE file.is = "file" ->
                             [Down EXCEPT !.at = "boot", !.cfg = file.keys, !.promise = promised]
                      [] file.is = "absent" -> [Down EXCEPT !.at = "fresh"]
                      [] OTHER -> Down
    /\ UNCHANGED <<env, policies, configs, edits, init, backend, shot, promised, tainted>>

\* First run: the template is written, whatever is there by now, or cannot be.
WriteTemplate(written) ==
    /\ daemon.at = "fresh"
    /\ written => ConfigPath \in Paths
    /\ configs' = IF written THEN [configs EXCEPT ![ConfigPath] = File(Template)] ELSE configs
    /\ promised' = IF written /\ ConfigPath = "home" THEN None ELSE promised
    /\ Untaint(IF written THEN {<<"config", ConfigPath>>} ELSE {})
    /\ daemon' = [Down EXCEPT !.at = "boot"]
    /\ UNCHANGED <<env, policies, edits, init, backend, shot>>

Loads(content) == content \in Contents

\* The policy at a path, or the built-in one without a path; none if it does not load.
LoadPolicy(path, builtin) ==
    IF path = None THEN Some(builtin)
    ELSE {policies[p] : p \in {q \in path : Loads(policies[q])}}

\* Fault: only what the config file names is protected.
BadProtected(cfg) ==
    {<<"dir", "home">>, <<"config", ConfigPath>>, <<"stop", StopPath>>}
        \cup {<<"audit", p>> : p \in cfg.audit}
        \cup {<<"socket", p>> : p \in cfg.socket}
        \cup {<<"policy", p>> : p \in cfg.policy}

\* The agent may not write the directory ~/.guardian, the config, the STOP file beside
\* it, the log, the socket and the policy.
Protected(cfg) ==
    {<<"dir", "home">>, <<"config", ConfigPath>>, <<"stop", StopPath>>}
        \cup {<<"audit", p>> : p \in AuditPath(cfg)}
        \cup {<<"socket", p>> : p \in SocketPath(cfg)}
        \cup {<<"policy", p>> : p \in PolicyPath(cfg)}

\* The rest of `main`: a policy that does not load, or a log that is not intact,
\* ends the process.
Boot(intact) ==
    /\ daemon.at = "boot"
    /\ LET cfg == daemon.cfg
           policy == LoadPolicy(PolicyPath(cfg), "personal-assistant")
       IN daemon' = IF policy # None /\ intact
            THEN [daemon EXCEPT !.at = "up", !.policy = CHOOSE c \in policy : TRUE,
                      !.reads = PolicyPath(cfg), !.audit = AuditPath(cfg),
                      !.socket = SocketPath(cfg), !.protects = Protected(cfg),
                      !.promise = @ \cap promised]
            ELSE Down
    /\ UNCHANGED <<env, policies, configs, edits, init, backend, shot, promised, tainted>>

Stop ==
    /\ daemon.at = "up"
    /\ daemon' = Down
    /\ UNCHANGED <<env, policies, configs, edits, init, backend, shot, promised, tainted>>
-----------------------------------------------------------------------------
(* The one-shot deciders: a policy file is loaded, or the demo policy. *)

Flag == Option(Paths)

\* `detect` and `wrap`: what the sandbox leaves the command.
Wrap(network) == [sandboxed |-> TRUE, network |-> network]
Unconfined == [sandboxed |-> FALSE, network |-> TRUE]

\* `run_exec`, when it gets to run the command: an ask is a denial, and a sandbox that
\* is required but missing refuses.
Exec(flag, network) ==
    /\ \E policy \in LoadPolicy(flag, "demo") :
           LET says == Says[policy]["Exec"]
           IN /\ says.decision = "allow"
              /\ says.sandbox => backend
              /\ shot' = Some([by |-> "exec", verdict |-> says, network |-> network,
                     how |-> IF says.sandbox THEN Wrap(network) ELSE Unconfined])
    /\ UNCHANGED <<env, policies, configs, edits, init, daemon, backend, promised, tainted>>

\* The native tools of Claude Code the hook knows, by kind.
KnownTools ==
    [FileRead |-> {"Read", "Glob", "Grep", "LS", "NotebookRead"},
     FileWrite |-> {"Write", "Edit", "MultiEdit", "NotebookEdit"},
     Exec |-> {"Bash"},
     HttpRequest |-> {"WebFetch", "WebSearch"}]

\* Fault: a tool the hook does not know is left to `build_action` to classify.
BadClaudeToolToCall(tool) ==
    LET kinds == {k \in DOMAIN KnownTools : tool.known \in KnownTools[k]}
    IN [tool |-> tool.words, kind |-> kinds, capability |-> None, args |-> None]

\* `claude_tool_to_call`: any other tool is Other, whatever its name contains.
ClaudeToolToCall(tool) ==
    LET kinds == {k \in DOMAIN KnownTools : tool.known \in KnownTools[k]}
    IN [tool |-> tool.words, kind |-> OrElse(kinds, Some("Other")), capability |-> None,
        args |-> None]

\* `run_claude_hook` and `decide_hook`: a policy that does not load, or input that does not
\* parse, is an ask; input that cannot be read ends the hook with an error and no decision.
Inputs == {"parses", "garbled", "unreadable"}

Hook(flag, tool, input) ==
    /\ LET policy == LoadPolicy(flag, "demo")
           action == BuildAction(ClaudeToolToCall(tool))
           decision == IF policy = None \/ input = "garbled" THEN "ask"
                       ELSE Says[CHOOSE c \in policy : TRUE][action.kind].decision
       IN shot' = IF input # "unreadable" /\ decision = "allow"
                  THEN Some([by |-> "hook", tool |-> tool, policy |-> policy])
                  ELSE None
    /\ UNCHANGED <<env, policies, configs, edits, init, daemon, backend, promised, tainted>>
-----------------------------------------------------------------------------
(* The user's hand, not while init runs. *)

Edited == init.at = "idle" /\ edits < MaxEdits /\ edits' = edits + 1

EditPolicy(path, content) ==
    /\ Edited
    /\ policies' = [policies EXCEPT ![path] = content]
    /\ promised' = IF path = "home" THEN None ELSE promised
    /\ Untaint({<<"policy", path>>})
    /\ UNCHANGED <<env, configs, init, daemon, backend, shot>>

\* Who names a policy file in a config vouches for what the file holds now.
EditConfig(path, config) ==
    /\ Edited
    /\ configs' = [configs EXCEPT ![path] = config]
    /\ promised' = IF path = "home" THEN None ELSE promised
    /\ Untaint({<<"config", path>>} \cup {<<"policy", p>> : p \in config.keys.policy})
    /\ UNCHANGED <<env, policies, init, daemon, backend, shot>>
-----------------------------------------------------------------------------
(* The agent, whose tools write and delete files through the running daemon: a policy of its
   own, a config, or nothing. *)

\* `override_deny`, on the prefixes the daemon collected when it started.  What passes it is
\* up to the policy and the human.  The daemon may be older than the config it has read.
AgentWrites(file) ==
    /\ daemon.at = "up"
    /\ {file, <<"dir", file[2]>>} \cap daemon.protects = {}
    /\ tainted' = tainted \cup {[file |-> file, outdated |-> daemon.cfg # ConfigFile.keys]}

AgentWritesPolicy(path, content) ==
    /\ AgentWrites(<<"policy", path>>)
    /\ policies' = [policies EXCEPT ![path] = content]
    /\ UNCHANGED <<env, configs, edits, init, daemon, backend, shot, promised>>

AgentWritesConfig(path, config) ==
    /\ AgentWrites(<<"config", path>>)
    /\ configs' = [configs EXCEPT ![path] = config]
    /\ UNCHANGED <<env, policies, edits, init, daemon, backend, shot, promised>>
-----------------------------------------------------------------------------
InitState ==
    /\ env \in Envs
    /\ policies = [path \in Paths |-> "absent"]
    /\ configs = [path \in Paths |-> NoFile]
    /\ edits = 0
    /\ init = Idle
    /\ daemon = Down
    /\ backend \in BOOLEAN
    /\ shot = None
    /\ promised = None
    /\ tainted = {}

Setup ==
    \/ \E role \in Roles, force \in BOOLEAN : InitPolicy(role, force)
    \/ InitConfig
    \/ InitAbort

Daemon ==
    \/ LoadConfig
    \/ \E written \in BOOLEAN : WriteTemplate(written)
    \/ \E intact \in BOOLEAN : Boot(intact)
    \/ Stop

OneShot ==
    \/ \E flag \in Flag, network \in BOOLEAN : Exec(flag, network)
    \/ \E flag \in Flag, tool \in ToolNames, input \in Inputs : Hook(flag, tool, input)

User ==
    \/ \E path \in Paths, content \in Contents \cup {"absent", "broken"} : EditPolicy(path, content)
    \/ \E path \in Paths, config \in Drafts : EditConfig(path, config)

Agent ==
    \/ \E path \in Paths, content \in {"custom", "absent"} : AgentWritesPolicy(path, content)
    \/ \E path \in Paths, config \in Drafts : AgentWritesConfig(path, config)

FilesNext == Setup \/ Daemon \/ OneShot \/ User \/ Agent

FilesSpec == InitState /\ [][FilesNext]_fileVars
-----------------------------------------------------------------------------
(* What the parts promise each other. *)

\* The role chosen with `guardian init` is the policy the daemon runs, without any
\* environment variable: a daemon that started on files init reported as created,
\* and nobody changed since, runs that role's policy, although both run file by
\* file.  (A config that was there before, such as the template of a daemon started
\* first, is kept: init says so, and the daemon runs its built-in policy.)
RoleTakesEffect ==
    daemon.at = "up" /\ env.config = "unset" /\ env.policy # "own" =>
        \A role \in daemon.promise : daemon.policy = role

\* What the agent wrote never comes to govern it: neither the config nor the policy file a
\* running daemon works from was last written by the agent, whichever of the config, the
\* environment or the default names it, and however often the files are edited, init is run
\* and the daemon restarted.  A user who names a policy file in a config vouches for it.
\* There is one exception, a real one: the daemon protects the files its own config named,
\* so a policy file named in the config since it started is open to the agent until the
\* next start, which then reads it.
AgentNeverGoverns ==
    daemon.at = "up" =>
        \A t \in tainted :
            t.file \in {<<"config", ConfigPath>>} \cup {<<"policy", p>> : p \in daemon.reads}
                => t.outdated

\* `guardian log` shows the log the running daemon writes and `guardian ui` finds its
\* socket, with the same environment: unless the config file names them (the two do
\* not read it) or the variable is set to the empty string.
FrontEndsMeetTheDaemon ==
    daemon.at = "up" =>
        /\ env.audit # "empty" /\ daemon.cfg.audit = None => daemon.audit = Some(LogPath)
        /\ env.socket # "empty" /\ daemon.cfg.socket = None => daemon.socket = Some(UiPath)

\* The one-shot deciders fail closed.  The hook says allow only if the policy it could
\* load allows the kind of a tool it knows, or kind Other: a name proves nothing.
\* `guardian exec` ran a command only if the policy allows it, in a sandbox if it
\* says so, and with network access in the sandbox only if it was asked for.
OneShotsFailClosed ==
    /\ \A h \in shot : h.by = "hook" =>
           \E policy \in h.policy, kind \in ActionKind :
               /\ Says[policy][kind].decision = "allow"
               /\ kind # "Other" => kind \in DOMAIN KnownTools /\ h.tool.known \in KnownTools[kind]
    /\ \A r \in shot : r.by = "exec" =>
           /\ r.verdict.decision = "allow"
           /\ r.verdict.sandbox => r.how.sandboxed /\ (r.how.network => r.network)
-----------------------------------------------------------------------------
(* Why: the inductive invariant. *)

Places == {"dir", "config", "stop", "audit", "socket", "policy"} \X (Paths \cup {"empty"})

Daemons == [at : {"down", "fresh", "boot", "up"}, cfg : Keys,
            policy : Contents \cup {"none"}, reads : Option(Paths),
            audit : Option(Paths), socket : Option(Paths),
            protects : SUBSET Places, promise : Option(Roles)]

FilesTypeOK ==
    /\ env \in EnvVars
    /\ policies \in [Paths -> Contents \cup {"absent", "broken"}]
    /\ configs \in [Paths -> Config]
    /\ edits \in 0..MaxEdits
    /\ init \in [at : {"idle", "config"}, role : Roles, force : BOOLEAN, written : BOOLEAN]
    /\ daemon \in Daemons
    /\ backend \in BOOLEAN
    /\ promised \in Option(Roles)
    /\ \A t \in tainted : t.outdated \in BOOLEAN

\* Between init's two writes the policy file is the one it wrote, if it wrote it.
SetupAgrees == init.at = "config" /\ init.written => policies["home"] = init.role

\* Files that still carry a promise are the ones init writes for that role.
PromisesAgree ==
    \A role \in promised : policies["home"] = role /\ configs["home"] = File(InitKeys)

\* A daemon that read such a config follows it to the policy file.
BootAgrees ==
    daemon.at = "boot" /\ env.config = "unset" =>
        \A role \in daemon.promise : daemon.cfg = InitKeys

\* A running daemon protects what its config, the environment and the defaults name.
ProtectionAgrees ==
    daemon.at = "up" =>
        daemon.protects = Protected(daemon.cfg) /\ daemon.reads = PolicyPath(daemon.cfg)

\* The agent got at files outside ~/.guardian only, at a config nobody reads, and, unless
\* the daemon was outdated, at a policy file that neither the environment nor the config
\* named, and that no config has named since.
TaintAgrees ==
    \A t \in tainted :
        /\ t.file \in {<<"policy", "own">>, <<"config", "own">>}
        /\ t.file = <<"config", "own">> => ConfigPath # "own"
        /\ t.file = <<"policy", "own">> /\ ~t.outdated =>
               /\ env.policy # "own"
               /\ "own" \notin ConfigFile.keys.policy \cup daemon.cfg.policy

FilesInv ==
    /\ FilesTypeOK
    /\ SetupAgrees
    /\ PromisesAgree
    /\ BootAgrees
    /\ ProtectionAgrees
    /\ TaintAgrees
    /\ RoleTakesEffect
    /\ FrontEndsMeetTheDaemon
    /\ OneShotsFailClosed
=============================================================================
