-------------------------------- MODULE Packs --------------------------------
(***************************************************************************)
(* Signed policy packs (crates/guardian-policy/src/pack.rs) and            *)
(* `guardian pack` (crates/guardian-cli): a publisher signs a directory of *)
(* policy files, a user verifies or loads it, and somebody else may write  *)
(* to the directory between any two file operations.                       *)
(*                                                                         *)
(* Files are numbered in the order of their names.  A hash is the content  *)
(* itself (collisions are left out) and a signature a record of the key    *)
(* and what was signed: only the holder of a key makes one, anybody copies *)
(* one.  Names, versions and hex are left out.                             *)
(***************************************************************************)
EXTENDS Naturals, FiniteSets, FiniteSetsExt, Functions

CONSTANTS
    NumFiles,    \* the policy files a directory may hold
    Signers,     \* runs of `guardian pack sign`; each may mint the key named after it
    Stranger,    \* a key of somebody else, who also writes to the directory
    MaxWrites     \* bound: how often the directory is written to by others

ASSUME PacksAssumption ==
    /\ NumFiles \in Nat /\ MaxWrites \in Nat
    /\ {Stranger, "absent", "empty"} \cap Signers = {}

VARIABLES
    dir,        \* the .toml files on disk and their content
    manifest,   \* guardian-pack.json, a set of at most one
    keyFile,    \* the seed file: absent, empty (created, not yet written) or a key
    signer,     \* the runs of `pack sign`
    pin,        \* the publisher the user trusts, a set of at most one
    optIn,      \* load_pack's allow_critical
    user,       \* the run of `pack verify` or load_pack
    recorded,   \* the packs whose provenance was recorded
    writes,     \* how often others wrote
    touched,    \* history: the files they wrote since the user's run began
    raced,      \* history: a signer minted while another did
    released    \* history: what each key signed

signVars == <<keyFile, signer, raced, released>>
userVars == <<pin, optIn, user, recorded>>
vars == <<dir, manifest, signVars, userVars, writes, touched>>

Names == 1..NumFiles
\* What a file can be to the code: a policy, one with a critical `allow`, not a policy.
PolicyTexts == {"plain", "widening", "broken"}
PublisherKeys == Signers \cup {Stranger}

Empty == [n \in {} |-> "plain"]
With(files, n, content) == [m \in DOMAIN files \cup {n} |-> IF m = n THEN content ELSE files[m]]
-----------------------------------------------------------------------------
(* `guardian pack sign`. *)

Minting(s) == signer[s].at \in {"mint", "write"}

Signed(s, at, key, left, files) ==
    signer' = [signer EXCEPT ![s] = [at |-> at, key |-> key, left |-> left, files |-> files]]

\* Fault: a new key is minted although there is one.
BadStartSign(s) ==
    /\ signer[s].at = "idle"
    /\ Signed(s, "mint", s, {}, Empty)
    /\ raced' = (raced \/ (keyFile = "absent" /\ \E o \in Signers : Minting(o)))
    /\ UNCHANGED <<dir, manifest, keyFile, released, userVars, writes, touched>>

\* Reuse the seed if the file exists; a seed that does not decode ends the run.
StartSign(s) ==
    /\ signer[s].at = "idle"
    /\ CASE keyFile \in Signers -> Signed(s, "read", keyFile, DOMAIN dir, Empty)
         [] keyFile = "empty" -> Signed(s, "failed", s, {}, Empty)
         [] OTHER -> Signed(s, "mint", s, {}, Empty)
    /\ raced' = (raced \/ (keyFile = "absent" /\ \E o \in Signers : Minting(o)))
    /\ UNCHANGED <<dir, manifest, keyFile, released, userVars, writes, touched>>

\* `write_private_file`: create or truncate, then write.
CreateKeyFile(s) ==
    /\ signer[s].at = "mint"
    /\ keyFile' = "empty"
    /\ signer' = [signer EXCEPT ![s].at = "write"]
    /\ UNCHANGED <<dir, manifest, raced, released, userVars, writes, touched>>

WriteKeyFile(s) ==
    /\ signer[s].at = "write"
    /\ keyFile' = s
    /\ Signed(s, "read", s, DOMAIN dir, Empty)
    /\ UNCHANGED <<dir, manifest, raced, released, userVars, writes, touched>>

\* `build_manifest`, file by file; one that is gone ends the run.
HashFile(s) ==
    /\ signer[s].at = "read"
    /\ LET left == signer[s].left
           n == Min(left)
       IN IF left = {}
          THEN signer' = [signer EXCEPT ![s].at = "publish"]
          ELSE IF n \in DOMAIN dir
               THEN Signed(s, "read", signer[s].key, left \ {n}, With(signer[s].files, n, dir[n]))
               ELSE Signed(s, "failed", s, {}, Empty)
    /\ UNCHANGED <<dir, manifest, keyFile, raced, released, userVars, writes, touched>>

\* `sign`, and the manifest is written.
Publish(s) ==
    /\ signer[s].at = "publish"
    /\ LET files == signer[s].files
           key == signer[s].key
       IN /\ manifest' = {[files |-> files, publisher |-> key, by |-> key, over |-> files]}
          /\ released' = released \cup {[by |-> key, over |-> files]}
    /\ Signed(s, "done", s, {}, Empty)
    /\ UNCHANGED <<dir, keyFile, raced, userVars, writes, touched>>

\* The run is interrupted.
Abort(s) ==
    /\ signer[s].at \in {"mint", "write", "read", "publish"}
    /\ Signed(s, "failed", s, {}, Empty)
    /\ UNCHANGED <<dir, manifest, keyFile, raced, released, userVars, writes, touched>>
-----------------------------------------------------------------------------
(* `guardian pack verify` and load_pack: the user's run. *)

To(at) == [user EXCEPT !.at = at]
Fail == To("failed")
Pack == CHOOSE m \in user.signed : TRUE

\* `load_signed`: the manifest is read once.
StartUser(load, critical, trusted) ==
    /\ user.at = "idle"
    /\ manifest # {}
    /\ user' = [To("verify") EXCEPT !.load = load, !.signed = manifest]
    /\ pin' = trusted
    /\ optIn' = critical
    /\ touched' = {}
    /\ UNCHANGED <<dir, manifest, signVars, recorded, writes>>

\* Fault: the signature is not checked against the manifest it comes with.
BadSignatureHolds(m) == m.publisher = m.by

SignatureHolds(m) == m.publisher = m.by /\ m.files = m.over

\* `verify` up to the hashes: the signature, the publisher, the set of names.
Accepts(m) ==
    /\ SignatureHolds(m)
    /\ \A key \in pin : m.publisher = key
    /\ DOMAIN dir = DOMAIN m.files

Verify ==
    /\ user.at = "verify"
    /\ user' = IF Accepts(Pack) THEN [To("hash") EXCEPT !.left = DOMAIN Pack.files] ELSE Fail
    /\ UNCHANGED <<dir, manifest, signVars, pin, optIn, recorded, writes, touched>>

\* Fault: a file is only looked for.
BadIntact(n) == n \in DOMAIN dir

\* The content on disk still has the signed hash.
Intact(n) == n \in DOMAIN dir /\ dir[n] = Pack.files[n]

CheckHash ==
    /\ user.at = "hash"
    /\ LET n == Min(user.left)
       IN user' = CASE user.left = {} -> To("list")
                    [] user.left # {} /\ Intact(n) -> [user EXCEPT !.left = @ \ {n}]
                    [] OTHER -> Fail
    /\ UNCHANGED <<dir, manifest, signVars, pin, optIn, recorded, writes, touched>>

\* `critical_widening_rules` lists the directory again, then reads each file.
ListAgain ==
    /\ user.at = "list"
    /\ user' = [To("scan") EXCEPT !.left = DOMAIN dir]
    /\ UNCHANGED <<dir, manifest, signVars, pin, optIn, recorded, writes, touched>>

Scan ==
    /\ user.at = "scan"
    /\ LET n == Min(user.left)
       IN user' = CASE user.left = {} -> To("judge")
                    [] user.left # {} /\ n \in DOMAIN dir /\ dir[n] # "broken" ->
                           [user EXCEPT !.left = @ \ {n}, !.widens = @ \/ dir[n] = "widening"]
                    [] OTHER -> Fail
    /\ UNCHANGED <<dir, manifest, signVars, pin, optIn, recorded, writes, touched>>

\* load_pack refuses widening without the opt-in and reads on; `pack verify` warns and,
\* with --audit, records the provenance of the manifest it has in memory.
Judge ==
    /\ user.at = "judge"
    /\ user' = CASE ~user.load -> To("done")
                 [] user.load /\ (optIn \/ ~user.widens) ->
                        [To("read") EXCEPT !.left = DOMAIN Pack.files]
                 [] OTHER -> Fail
    /\ recorded' \in IF user.load THEN {recorded} ELSE {recorded, recorded \cup user.signed}
    /\ UNCHANGED <<dir, manifest, signVars, pin, optIn, writes, touched>>

\* The policies are read from disk once more.
ReadPolicy ==
    /\ user.at = "read"
    /\ LET n == Min(user.left)
       IN user' = CASE user.left = {} -> To("done")
                    [] user.left # {} /\ n \in DOMAIN dir /\ dir[n] # "broken" ->
                           [user EXCEPT !.left = @ \ {n}, !.got = With(@, n, dir[n])]
                    [] OTHER -> Fail
    /\ UNCHANGED <<dir, manifest, signVars, pin, optIn, recorded, writes, touched>>
-----------------------------------------------------------------------------
(* Others write to the directory: a file, or a manifest with a key of their *)
(* own or with the signature that is there.                                 *)

OthersWrite == writes < MaxWrites /\ writes' = writes + 1

WriteFile(n, content) ==
    /\ OthersWrite
    /\ dir' = With(dir, n, content)
    /\ touched' = touched \cup {n}
    /\ UNCHANGED <<manifest, signVars, userVars>>

RemoveFile(n) ==
    /\ OthersWrite
    /\ n \in DOMAIN dir
    /\ dir' = Restrict(dir, DOMAIN dir \ {n})
    /\ touched' = touched \cup {n}
    /\ UNCHANGED <<manifest, signVars, userVars>>

Forge(publisher) ==
    /\ OthersWrite
    /\ manifest' \in
           {{[files |-> dir, publisher |-> publisher, by |-> Stranger, over |-> dir]}}
               \cup {{[m EXCEPT !.files = dir, !.publisher = publisher]} : m \in manifest}
    /\ UNCHANGED <<dir, signVars, userVars, touched>>
-----------------------------------------------------------------------------
Init ==
    /\ dir \in [Names -> {"plain", "widening"}]
    /\ manifest = {}
    /\ keyFile = "absent"
    /\ signer = [s \in Signers |-> [at |-> "idle", key |-> s, left |-> {}, files |-> Empty]]
    /\ pin = {}
    /\ optIn = FALSE
    /\ user = [at |-> "idle", load |-> FALSE, signed |-> {}, left |-> {}, widens |-> FALSE,
               got |-> Empty]
    /\ recorded = {}
    /\ writes = 0
    /\ touched = {}
    /\ raced = FALSE
    /\ released = {}

Sign(s) == StartSign(s) \/ CreateKeyFile(s) \/ WriteKeyFile(s) \/ HashFile(s) \/ Publish(s)

UserRun == Verify \/ CheckHash \/ ListAgain \/ Scan \/ Judge \/ ReadPolicy

Others ==
    \/ \E n \in Names : RemoveFile(n) \/ \E content \in PolicyTexts : WriteFile(n, content)
    \/ \E publisher \in PublisherKeys : Forge(publisher)

Next ==
    \/ \E s \in Signers : Sign(s) \/ Abort(s)
    \/ \E load, critical \in BOOLEAN, trusted \in {{}} \cup {{s} : s \in Signers} :
          StartUser(load, critical, trusted)
    \/ UserRun
    \/ Others

Spec == Init /\ [][Next]_vars
-----------------------------------------------------------------------------
(* What a pack promises. *)

Loaded == user.at = "done" /\ user.load

\* A loaded pack is what its publisher signed: every file nobody wrote to during
\* the load has the content a key (the pinned one, if one is pinned) signed, with all
\* the files of that signature and no others, and none of them widens unless the user
\* opted in.  The files are read three times; what is written between the reads is
\* beyond this promise.
LoadedIsSigned ==
    Loaded => \E r \in released \cup [by : {Stranger}, over : {Pack.files}] :
        /\ r.by = Pack.publisher
        /\ \A key \in pin : r.by = key
        /\ DOMAIN user.got = DOMAIN r.over
        /\ \A n \in DOMAIN user.got \ touched :
              user.got[n] = r.over[n] /\ (user.got[n] = "widening" => optIn)

\* The provenance recorded is of a manifest the pinned key really signed.
ProvenanceIsAuthentic ==
    \A m \in recorded :
        /\ m.publisher = Stranger \/ [by |-> m.publisher, over |-> m.files] \in released
        /\ \A key \in pin : m.publisher = key

\* The publisher key is stable across signings: unless two runs minted at the same
\* time, every pack ever signed has the key the file holds, runs that were cut off
\* included (a key file left empty ends every later run instead).
PublisherIsStable ==
    ~raced => \A r \in released : r.by = keyFile
-----------------------------------------------------------------------------
(* The inductive invariant the proofs rest on. *)

Files == UNION {[D -> PolicyTexts] : D \in SUBSET Names}
Manifest == [files : Files, publisher : PublisherKeys, by : PublisherKeys, over : Files]
SignerPCs == {"idle", "mint", "write", "read", "publish", "done", "failed"}
UserPCs == {"idle", "verify", "hash", "list", "scan", "judge", "read", "done", "failed"}

TypeOK ==
    /\ dir \in Files
    /\ manifest \subseteq Manifest
    /\ keyFile \in Signers \cup {"absent", "empty"}
    /\ signer \in [Signers -> [at : SignerPCs, key : Signers, left : SUBSET Names, files : Files]]
    /\ pin \subseteq PublisherKeys
    /\ optIn \in BOOLEAN
    /\ user \in [at : UserPCs, load : BOOLEAN, signed : SUBSET Manifest, left : SUBSET Names,
                 widens : BOOLEAN, got : Files]
    /\ recorded \subseteq Manifest
    /\ writes \in Nat
    /\ touched \subseteq Names
    /\ raced \in BOOLEAN
    /\ released \subseteq [by : Signers, over : Files]

\* Without a race one run mints at a time, the key file shows how far it is, and whoever
\* is past the key has the one in the file.
KeyAgrees ==
    ~raced => \A s \in Signers :
        /\ signer[s].at = "mint" => keyFile = "absent"
        /\ signer[s].at = "write" => keyFile = "empty"
        /\ signer[s].at \in {"read", "publish"} => signer[s].key = keyFile
        /\ \A o \in Signers : Minting(s) /\ Minting(o) => s = o

\* A signature that is about is a stranger's or was made by its key.
SignaturesGenuine ==
    \A m \in manifest \cup user.signed :
        m.by = Stranger \/ [by |-> m.by, over |-> m.over] \in released

\* There is one manifest on disk at most, the user's run has one in memory, and nothing
\* is recorded or read early.
RunAgrees ==
    /\ \A m, n \in manifest : m = n
    /\ \A m, n \in user.signed : m = n
    /\ user.at # "idle" => user.signed # {}
    /\ recorded # {} => user.at = "done"
    /\ recorded \subseteq user.signed
    /\ user.at \notin {"read", "done", "failed"} => DOMAIN user.got = {}

\* File n is on disk as manifest m has it.
OnDisk(m, n) == n \in DOMAIN dir /\ dir[n] = m.files[n]

\* What the run has established of the manifest, and of the files nobody wrote to since.
Established(m) ==
    /\ user.at \in {"hash", "list", "scan", "judge", "read", "done"} =>
           SignatureHolds(m) /\ \A key \in pin : m.publisher = key
    /\ user.at = "hash" => \A n \in DOMAIN m.files \ touched : n \in user.left \/ OnDisk(m, n)
    /\ user.at \in {"list", "scan", "judge", "read"} =>
           \A n \in DOMAIN m.files \ touched : OnDisk(m, n)
    /\ user.at \in {"scan", "judge"} =>
           \A n \in DOMAIN m.files \ touched :
               (user.at = "scan" /\ n \in user.left) \/ (m.files[n] = "widening" => user.widens)
    /\ user.at = "read" \/ Loaded =>
           /\ \A n \in DOMAIN m.files \ touched : m.files[n] = "widening" => optIn
           /\ \A n \in DOMAIN user.got \ touched : user.got[n] = m.files[n]
    /\ user.at = "read" => DOMAIN user.got \cup user.left = DOMAIN m.files
    /\ Loaded => DOMAIN user.got = DOMAIN m.files

IInv ==
    /\ TypeOK
    /\ KeyAgrees
    /\ PublisherIsStable
    /\ SignaturesGenuine
    /\ RunAgrees
    /\ \A m \in user.signed : Established(m)
=============================================================================
