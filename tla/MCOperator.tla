----------------------------- MODULE MCOperator -----------------------------
(***************************************************************************)
(* What an operator does at the command line, in one run: Packs and        *)
(* FrontEnds share no variable, so each is checked with the other at rest  *)
(* in one of its initial states.  Of the files, the one-shot deciders are  *)
(* checked apart from the daemon: they read the policy files and write     *)
(* nothing that anybody reads.                                             *)
(*                                                                         *)
(* Packs: two policy files, of which the second may widen, two runs of     *)
(* `pack sign`, one user, and somebody else who writes twice.  The files:  *)
(* the shipped packs and the demo policy, roughly, by what they say of a   *)
(* kind, and a policy of the user's that allows commands in a sandbox;     *)
(* three tools, one of which is named to look like a read; two edits.      *)
(***************************************************************************)
EXTENDS Packs, FrontEnds, TLC

CONSTANTS s1, s2

VARIABLE side  \* which of the three is at work

MCSigners == {s1, s2}
MCSymmetry == Permutations(MCSigners)

\* The policy, the log and the socket are looked up one by one, in the same way.
MCEnvs == {e \in EnvVars : e.socket = e.audit /\ e.audit = e.policy}
MCSays ==
    [content \in Contents |-> [kind \in ActionKind |->
        [decision |-> IF kind = "FileRead" \/ (content = "custom" /\ kind = "Exec")
                      THEN "allow" ELSE "ask",
         sandbox |-> kind = "Exec"]]]
MCToolNames ==
    {[known |-> "Read", words |-> {"read"}],
     [known |-> "Bash", words |-> {"bash"}],
     [known |-> "mcp", words |-> {"read"}]}
MCDrafts ==
    {NoFile, [is |-> "malformed", keys |-> Template], File(Template), File(InitKeys),
     File([policy |-> Some("own"), audit |-> Some("own"), socket |-> Some("own")])}

PacksAtRest == \A n \in Names : dir[n] = "plain"
FilesAtRest == \A var \in DOMAIN env : env[var] = "unset"

MCInit ==
    /\ Init
    /\ InitState
    /\ \/ side = "packs" /\ FilesAtRest /\ ~backend /\ dir[1] = "plain"
       \/ side = "daemon" /\ PacksAtRest /\ ~backend
       \/ side = "deciders" /\ PacksAtRest /\ FilesAtRest

MCNext ==
    /\ UNCHANGED side
    /\ \/ side = "packs" /\ Next /\ UNCHANGED fileVars
       \/ side = "daemon" /\ (Setup \/ Daemon \/ User \/ Agent) /\ UNCHANGED vars
       \/ side = "deciders" /\ (Setup \/ User \/ OneShot) /\ UNCHANGED vars

MCSpec == MCInit /\ [][MCNext]_<<vars, fileVars, side>>
=============================================================================
