---------------------------- MODULE PacksProofs ----------------------------
(***************************************************************************)
(* Signed policy packs, for any number of files, signers and writes by     *)
(* others: what is loaded or recorded was signed, and the publisher key is *)
(* stable.  One lemma per step of a signer, of the user's run and of the   *)
(* others; the frame lemmas say what a step of one leaves to the rest.     *)
(***************************************************************************)
EXTENDS Packs, WellFoundedInduction, TLAPS

-----------------------------------------------------------------------------
(* Directories, and the least file of a set. *)

\* A directory is a map from some of the names to contents.
LEMMA FilesAre ==
  ASSUME NEW f
  PROVE  f \in Files <=> (DOMAIN f \subseteq Names /\ f \in [DOMAIN f -> PolicyTexts])
BY DEF Files

LEMMA EmptyFiles == Empty \in Files /\ DOMAIN Empty = {}
BY FilesAre DEF Empty

\* Writing a file keeps the others.
LEMMA WithFiles ==
  ASSUME NEW f \in Files, NEW n \in Names, NEW c \in PolicyTexts
  PROVE  /\ With(f, n, c) \in Files
         /\ DOMAIN With(f, n, c) = DOMAIN f \cup {n}
         /\ With(f, n, c)[n] = c
         /\ \A m \in DOMAIN f : m # n => With(f, n, c)[m] = f[m]
<1> DEFINE g == With(f, n, c)
<1>1. DOMAIN f \subseteq Names /\ f \in [DOMAIN f -> PolicyTexts]
  BY FilesAre
<1>2. DOMAIN g = DOMAIN f \cup {n}
  BY DEF With
<1>3. g \in [DOMAIN g -> PolicyTexts]
  BY <1>1, <1>2 DEF With
<1>4. g \in Files
  BY <1>1, <1>2, <1>3, FilesAre
<1> QED
  BY <1>2, <1>4 DEF With

\* Removing a file keeps the others.
LEMMA RestrictFiles ==
  ASSUME NEW f \in Files, NEW D \in SUBSET DOMAIN f
  PROVE  /\ Restrict(f, D) \in Files
         /\ DOMAIN Restrict(f, D) = D
         /\ \A m \in D : Restrict(f, D)[m] = f[m]
<1> DEFINE g == Restrict(f, D)
<1>1. DOMAIN f \subseteq Names /\ f \in [DOMAIN f -> PolicyTexts]
  BY FilesAre
<1>2. DOMAIN g = D /\ \A m \in D : g[m] = f[m]
  BY DEF Restrict
<1>3. g \in [DOMAIN g -> PolicyTexts]
  BY <1>1, <1>2 DEF Restrict
<1> QED
  BY <1>1, <1>2, <1>3, FilesAre

\* What is left to read is read from its least file.
LEMMA MinIn ==
  ASSUME NEW S \in SUBSET Names, S # {}
  PROVE  Min(S) \in S
<1>0. S \in SUBSET Nat
  BY DEF Names
<1>1. IsWellFoundedOn(OpToRel(<, Nat), Nat)
  BY NatLessThanWellFounded
<1>2. PICK x \in S : \A y \in S : ~(<<y, x>> \in OpToRel(<, Nat))
  BY <1>0, <1>1, WFMin
<1>3. OpToRel(<, Nat) = {p \in Nat \X Nat : p[1] < p[2]}
  BY DEF OpToRel
<1>4. \A y \in S : ~(<<y, x>> \in {p \in Nat \X Nat : p[1] < p[2]})
  BY <1>2, <1>3
<1>5. \A y \in S : x =< y
  <2> SUFFICES ASSUME NEW y \in S, y < x PROVE FALSE
    BY <1>0
  <2>1. <<y, x>> \in Nat \X Nat /\ <<y, x>>[1] < <<y, x>>[2]
    BY <1>0
  <2> QED
    BY <1>4, <2>1, Zenon
<1> QED
  BY <1>5 DEF Min

\* A run has one manifest in memory, so `Pack` is that one.
LEMMA PackIs ==
  ASSUME RunAgrees, NEW m \in user.signed
  PROVE  Pack = m
BY DEF RunAgrees, Pack

\* A signer's new record.
LEMMA SignedType ==
  ASSUME TypeOK, NEW s \in Signers, NEW at \in SignerPCs, NEW key \in Signers,
         NEW left \in SUBSET Names, NEW files \in Files,
         Signed(s, at, key, left, files)
  PROVE  /\ signer' \in [Signers -> [at : SignerPCs, key : Signers, left : SUBSET Names,
                                     files : Files]]
         /\ signer'[s].at = at /\ signer'[s].key = key
         /\ \A o \in Signers : o # s => signer'[o] = signer[o]
BY DEF TypeOK, Signed

-----------------------------------------------------------------------------
(* Frames. *)

\* A signer's step leaves the user's run where it was.
LEMMA UserFrame ==
  ASSUME RunAgrees, \A m \in user.signed : Established(m),
         UNCHANGED <<dir, userVars, touched>>, \A m, n \in manifest' : m = n
  PROVE  RunAgrees' /\ \A m \in user'.signed : Established(m)'
<1>1. RunAgrees'
  BY DEF RunAgrees, userVars
<1>2. ASSUME NEW m \in user'.signed PROVE Established(m)'
  BY <1>2 DEF userVars, Established, OnDisk, SignatureHolds, Loaded
<1> QED
  BY <1>1, <1>2

\* A step of anybody else leaves the signers where they were.
LEMMA SignFrame ==
  ASSUME KeyAgrees, PublisherIsStable, UNCHANGED signVars
  PROVE  KeyAgrees' /\ PublisherIsStable'
BY DEF signVars, KeyAgrees, PublisherIsStable, Minting

\* The user's run copies signatures and makes none.
LEMMA GenuineFrame ==
  ASSUME SignaturesGenuine, manifest' \subseteq manifest, released \subseteq released',
         user'.signed \subseteq user.signed \cup manifest
  PROVE  SignaturesGenuine'
BY DEF SignaturesGenuine

LEMMA InitIInv == Init => IInv
<1> SUFFICES ASSUME Init PROVE IInv
  OBVIOUS
<1>1. dir \in Files
  BY FilesAre DEF Init, PolicyTexts
<1>2. TypeOK
  BY <1>1, EmptyFiles DEF Init, TypeOK, SignerPCs, UserPCs
<1>3. KeyAgrees /\ PublisherIsStable /\ SignaturesGenuine
  BY DEF Init, KeyAgrees, PublisherIsStable, SignaturesGenuine, Minting
<1>4. RunAgrees /\ \A m \in user.signed : Established(m)
  BY EmptyFiles DEF Init, RunAgrees
<1> QED
  BY <1>2, <1>3, <1>4 DEF IInv
-----------------------------------------------------------------------------
(* The signers. *)

\* The key of the file is reused, or one is minted while there is none.
LEMMA StartSignStep ==
  ASSUME IInv, NEW s \in Signers, StartSign(s)
  PROVE  IInv'
<1> USE DEF IInv
<1>0. DOMAIN dir \in SUBSET Names
  BY FilesAre DEF TypeOK
<1>1. PICK at \in SignerPCs, key \in Signers, left \in SUBSET Names :
         /\ Signed(s, at, key, left, Empty)
         /\ \/ at = "read" /\ keyFile = key
            \/ at = "failed"
            \/ at = "mint" /\ keyFile = "absent"
  <2>1. CASE keyFile \in Signers
    BY <1>0, <2>1 DEF StartSign, SignerPCs
  <2>2. CASE keyFile = "empty"
    BY <2>2, PacksAssumption DEF StartSign, SignerPCs
  <2>3. CASE keyFile = "absent"
    BY <2>3, PacksAssumption DEF StartSign, SignerPCs
  <2> QED
    BY <2>1, <2>2, <2>3 DEF TypeOK
<1>2. /\ signer' \in [Signers -> [at : SignerPCs, key : Signers, left : SUBSET Names,
                                  files : Files]]
      /\ signer'[s].at = at /\ signer'[s].key = key
      /\ \A o \in Signers : o # s => signer'[o] = signer[o]
  BY <1>1, EmptyFiles, SignedType
<1>3. TypeOK'
  BY <1>2 DEF StartSign, TypeOK, userVars
<1>4. KeyAgrees'
  <2> SUFFICES ASSUME ~raced' PROVE KeyAgrees'
    BY DEF KeyAgrees
  <2>1. ~raced /\ ~(keyFile = "absent" /\ \E o \in Signers : Minting(o)) /\ keyFile' = keyFile
    BY DEF StartSign
  <2> QED
    BY <1>1, <1>2, <2>1 DEF KeyAgrees, Minting
<1>5. PublisherIsStable'
  BY DEF StartSign, PublisherIsStable
<1>6. SignaturesGenuine' /\ RunAgrees' /\ \A m \in user'.signed : Established(m)'
  BY GenuineFrame, UserFrame DEF StartSign, userVars, RunAgrees
<1> QED
  BY <1>3, <1>4, <1>5, <1>6

\* Between the two steps of `write_private_file` the file is empty, and was absent before.
LEMMA CreateKeyFileStep ==
  ASSUME IInv, NEW s \in Signers, CreateKeyFile(s)
  PROVE  IInv'
<1> USE DEF IInv
<1>1. TypeOK'
  BY DEF CreateKeyFile, TypeOK, SignerPCs, userVars
<1>2. KeyAgrees'
  BY PacksAssumption DEF CreateKeyFile, TypeOK, KeyAgrees, Minting
<1>3. PublisherIsStable'
  BY PacksAssumption DEF CreateKeyFile, TypeOK, KeyAgrees, PublisherIsStable
<1>4. SignaturesGenuine' /\ RunAgrees' /\ \A m \in user'.signed : Established(m)'
  BY GenuineFrame, UserFrame DEF CreateKeyFile, userVars, RunAgrees
<1> QED
  BY <1>1, <1>2, <1>3, <1>4

LEMMA WriteKeyFileStep ==
  ASSUME IInv, NEW s \in Signers, WriteKeyFile(s)
  PROVE  IInv'
<1> USE DEF IInv
<1>0. DOMAIN dir \in SUBSET Names
  BY FilesAre DEF TypeOK
<1>1. /\ signer' \in [Signers -> [at : SignerPCs, key : Signers, left : SUBSET Names,
                                  files : Files]]
      /\ signer'[s].at = "read" /\ signer'[s].key = s
      /\ \A o \in Signers : o # s => signer'[o] = signer[o]
  BY <1>0, EmptyFiles, SignedType DEF WriteKeyFile, SignerPCs
<1>2. TypeOK'
  BY <1>1 DEF WriteKeyFile, TypeOK, userVars
<1>3. KeyAgrees'
  BY <1>1, PacksAssumption DEF WriteKeyFile, TypeOK, KeyAgrees, Minting
<1>4. PublisherIsStable'
  BY PacksAssumption DEF WriteKeyFile, TypeOK, KeyAgrees, PublisherIsStable
<1>5. SignaturesGenuine' /\ RunAgrees' /\ \A m \in user'.signed : Established(m)'
  BY GenuineFrame, UserFrame DEF WriteKeyFile, userVars, RunAgrees
<1> QED
  BY <1>2, <1>3, <1>4, <1>5

\* A signer that stops, or goes on with the key it has, agrees with the key file.
LEMMA KeyKept ==
  ASSUME IInv, NEW s \in Signers, UNCHANGED <<keyFile, raced>>,
         ~Minting(s) \/ signer'[s].at \in {"done", "failed"},
         \/ signer'[s].at \in {"done", "failed"}
         \/ /\ signer'[s].at \in {"read", "publish"} /\ signer[s].at \in {"read", "publish"}
            /\ signer'[s].key = signer[s].key,
         \A o \in Signers : o # s => signer'[o] = signer[o]
  PROVE  KeyAgrees'
BY DEF IInv, KeyAgrees, Minting

LEMMA HashFileStep ==
  ASSUME IInv, NEW s \in Signers, HashFile(s)
  PROVE  IInv'
<1> USE DEF IInv
<1> DEFINE left == signer[s].left
           n == Min(left)
<1>0. left \in SUBSET Names /\ signer[s].files \in Files /\ signer[s].key \in Signers
  BY DEF TypeOK
<1>1. /\ signer' \in [Signers -> [at : SignerPCs, key : Signers, left : SUBSET Names,
                                  files : Files]]
      /\ \/ signer'[s].at = "failed"
         \/ signer'[s].at \in {"read", "publish"} /\ signer'[s].key = signer[s].key
      /\ \A o \in Signers : o # s => signer'[o] = signer[o]
  <2>1. CASE left = {}
    BY <2>1 DEF HashFile, TypeOK, SignerPCs
  <2>2. CASE left # {} /\ n \in DOMAIN dir
    <3>1. n \in Names /\ dir[n] \in PolicyTexts
      BY <1>0, <2>2, MinIn, FilesAre DEF TypeOK
    <3>2. With(signer[s].files, n, dir[n]) \in Files
      BY <1>0, <3>1, WithFiles
    <3>3. Signed(s, "read", signer[s].key, left \ {n}, With(signer[s].files, n, dir[n]))
      BY <2>2 DEF HashFile
    <3> HIDE DEF left, n
    <3> QED
      BY <1>0, <3>2, <3>3, SignedType DEF SignerPCs
  <2>3. CASE left # {} /\ n \notin DOMAIN dir
    <3>1. Signed(s, "failed", s, {}, Empty)
      BY <2>3 DEF HashFile
    <3> QED
      BY <3>1, EmptyFiles, SignedType DEF SignerPCs
  <2> QED
    BY <2>1, <2>2, <2>3
<1>2. TypeOK'
  BY <1>1 DEF HashFile, TypeOK, userVars
<1>3. KeyAgrees'
  BY <1>1, KeyKept DEF HashFile, Minting
<1>4. PublisherIsStable'
  BY DEF HashFile, PublisherIsStable
<1>5. SignaturesGenuine' /\ RunAgrees' /\ \A m \in user'.signed : Established(m)'
  BY GenuineFrame, UserFrame DEF HashFile, userVars, RunAgrees
<1> QED
  BY <1>2, <1>3, <1>4, <1>5

\* The manifest that is published is signed by its key, over its own files.
LEMMA PublishStep ==
  ASSUME IInv, NEW s \in Signers, Publish(s)
  PROVE  IInv'
<1> USE DEF IInv
<1> DEFINE files == signer[s].files
           key == signer[s].key
           m == [files |-> files, publisher |-> key, by |-> key, over |-> files]
           r == [by |-> key, over |-> files]
<1>0. /\ files \in Files /\ key \in Signers
      /\ manifest' = {m} /\ released' = released \cup {r}
      /\ m.by = key /\ m.over = files
  BY DEF Publish, TypeOK
<1>1. m \in Manifest /\ r \in [by : Signers, over : Files]
  BY <1>0 DEF Manifest, PublisherKeys
<1>2. /\ signer' \in [Signers -> [at : SignerPCs, key : Signers, left : SUBSET Names,
                                  files : Files]]
      /\ signer'[s].at = "done"
      /\ \A o \in Signers : o # s => signer'[o] = signer[o]
  BY EmptyFiles, SignedType DEF Publish, SignerPCs
<1>3. TypeOK'
  <2> HIDE DEF m, r
  <2> QED
    BY <1>0, <1>1, <1>2 DEF Publish, TypeOK, userVars
<1>4. KeyAgrees'
  BY <1>2, KeyKept DEF Publish
<1>5. PublisherIsStable'
  BY <1>0 DEF Publish, KeyAgrees, PublisherIsStable
<1>6. SignaturesGenuine'
  <2> SUFFICES ASSUME NEW x \in manifest' \cup user'.signed
               PROVE  x.by = Stranger \/ [by |-> x.by, over |-> x.over] \in released'
    BY DEF SignaturesGenuine
  <2>1. CASE x = m
    BY <1>0, <2>1
  <2>2. CASE x \in user.signed
    BY <1>0, <2>2 DEF SignaturesGenuine
  <2> QED
    BY <1>0, <2>1, <2>2 DEF Publish, userVars
<1>7. RunAgrees' /\ \A x \in user'.signed : Established(x)'
  BY <1>0, UserFrame DEF Publish, userVars
<1> QED
  BY <1>3, <1>4, <1>5, <1>6, <1>7

LEMMA AbortStep ==
  ASSUME IInv, NEW s \in Signers, Abort(s)
  PROVE  IInv'
<1> USE DEF IInv
<1>1. /\ signer' \in [Signers -> [at : SignerPCs, key : Signers, left : SUBSET Names,
                                  files : Files]]
      /\ signer'[s].at = "failed"
      /\ \A o \in Signers : o # s => signer'[o] = signer[o]
  BY EmptyFiles, SignedType DEF Abort, SignerPCs
<1>2. TypeOK'
  BY <1>1 DEF Abort, TypeOK, userVars
<1>3. KeyAgrees'
  BY <1>1, KeyKept DEF Abort
<1>4. PublisherIsStable'
  BY DEF Abort, PublisherIsStable
<1>5. SignaturesGenuine' /\ RunAgrees' /\ \A m \in user'.signed : Established(m)'
  BY GenuineFrame, UserFrame DEF Abort, userVars, RunAgrees
<1> QED
  BY <1>2, <1>3, <1>4, <1>5
-----------------------------------------------------------------------------
(* The user's run. *)

\* The run begins with the manifest that is there, and with nothing written to yet.
LEMMA StartUserStep ==
  ASSUME IInv, NEW load \in BOOLEAN, NEW critical \in BOOLEAN, NEW trusted \in SUBSET PublisherKeys,
         StartUser(load, critical, trusted)
  PROVE  IInv'
<1> USE DEF IInv
<1>1. /\ user'.at = "verify" /\ user'.signed = manifest /\ user'.got = user.got
      /\ user' \in [at : UserPCs, load : BOOLEAN, signed : SUBSET Manifest, left : SUBSET Names,
                    widens : BOOLEAN, got : Files]
  BY DEF StartUser, To, TypeOK, UserPCs
<1>2. TypeOK'
  BY <1>1 DEF StartUser, TypeOK, signVars
<1>3. KeyAgrees' /\ PublisherIsStable' /\ SignaturesGenuine'
  BY <1>1, SignFrame, GenuineFrame DEF StartUser, signVars
<1>4. RunAgrees'
  BY <1>1 DEF StartUser, RunAgrees
<1>5. ASSUME NEW m \in user'.signed PROVE Established(m)'
  BY <1>1 DEF Established, Loaded
<1> QED
  BY <1>2, <1>3, <1>4, <1>5

\* A step of the run itself: what it must show.
LEMMA UserStep ==
  ASSUME IInv, UNCHANGED <<dir, manifest, signVars, pin, optIn, writes, touched>>,
         user' \in [at : UserPCs, load : BOOLEAN, signed : SUBSET Manifest, left : SUBSET Names,
                    widens : BOOLEAN, got : Files],
         user'.signed = user.signed, user.at # "idle",
         user'.got = user.got \/ user.at = "read",
         user'.at # "idle", user.at = "read" => user'.at \in {"read", "done", "failed"},
         user.at \notin {"done", "failed"},
         recorded' = recorded \/ (recorded' = recorded \cup user.signed /\ user'.at = "done"),
         \A m \in user.signed : Established(m)'
  PROVE  IInv'
<1> USE DEF IInv
<1>1. recorded = {}
  BY DEF RunAgrees
<1>2. TypeOK'
  BY <1>1 DEF TypeOK, signVars
<1>3. KeyAgrees' /\ PublisherIsStable' /\ SignaturesGenuine'
  BY SignFrame, GenuineFrame DEF signVars
<1>4. RunAgrees'
  BY <1>1 DEF RunAgrees
<1> QED
  BY <1>2, <1>3, <1>4

\* Whoever gives up promises nothing.
LEMMA FailStep ==
  ASSUME IInv, UNCHANGED <<dir, manifest, signVars, pin, optIn, writes, touched, recorded>>,
         user' = Fail, user.at \notin {"idle", "done", "failed"}
  PROVE  IInv'
<1>1. /\ user' \in [at : UserPCs, load : BOOLEAN, signed : SUBSET Manifest, left : SUBSET Names,
                    widens : BOOLEAN, got : Files]
      /\ user'.at = "failed" /\ user'.signed = user.signed /\ user'.got = user.got
  BY DEF IInv, TypeOK, UserPCs, Fail, To
<1>2. ASSUME NEW m \in user.signed PROVE Established(m)'
  BY <1>1 DEF Established, Loaded
<1> QED
  BY <1>1, <1>2, UserStep

\* `verify` up to the hashes.
LEMMA VerifyStep == ASSUME IInv, Verify PROVE IInv'
<1> USE DEF IInv
<1>1. CASE ~Accepts(Pack)
  BY <1>1, FailStep DEF Verify
<1>2. CASE Accepts(Pack)
  <2>1. PICK m \in user.signed : TRUE
    BY DEF Verify, RunAgrees
  <2>2. Pack = m /\ m \in Manifest
    BY <2>1, PackIs DEF TypeOK
  <2>3. DOMAIN m.files \in SUBSET Names
    BY <2>2, FilesAre DEF Manifest
  <2>4. /\ user'.at = "hash" /\ user'.left = DOMAIN m.files
        /\ user'.signed = user.signed /\ user'.got = user.got
        /\ user' \in [at : UserPCs, load : BOOLEAN, signed : SUBSET Manifest,
                      left : SUBSET Names, widens : BOOLEAN, got : Files]
    BY <1>2, <2>2, <2>3 DEF Verify, To, TypeOK, UserPCs
  <2>5. Established(m)'
    BY <1>2, <2>2, <2>4 DEF Verify, Accepts, SignatureHolds, Established, Loaded
  <2>6. \A x \in user.signed : x = m
    BY <2>1 DEF RunAgrees
  <2> QED
    BY <2>4, <2>5, <2>6, UserStep DEF Verify
<1> QED
  BY <1>1, <1>2

\* `verify`, one hash: the file is as the manifest has it, or the run ends.
LEMMA CheckHashStep == ASSUME IInv, CheckHash PROVE IInv'
<1> USE DEF IInv
<1> DEFINE n == Min(user.left)
<1>0. /\ user.left \in SUBSET Names
      /\ UNCHANGED <<dir, manifest, signVars, pin, optIn, recorded, writes, touched>>
      /\ user.at = "hash"
  BY DEF CheckHash, TypeOK
<1>1. CASE user.left = {}
  <2>1. /\ user'.at = "list" /\ user'.signed = user.signed /\ user'.got = user.got
        /\ user' \in [at : UserPCs, load : BOOLEAN, signed : SUBSET Manifest,
                      left : SUBSET Names, widens : BOOLEAN, got : Files]
    BY <1>1 DEF CheckHash, To, TypeOK, UserPCs
  <2>2. ASSUME NEW m \in user.signed PROVE Established(m)'
    BY <1>0, <1>1, <2>1, <2>2 DEF Established, Loaded, OnDisk, SignatureHolds
  <2> QED
    BY <1>0, <2>1, <2>2, UserStep
<1>2. CASE user.left # {} /\ Intact(n)
  <2>1. /\ user'.at = "hash" /\ user'.left = user.left \ {n}
        /\ user'.signed = user.signed /\ user'.got = user.got
        /\ user' \in [at : UserPCs, load : BOOLEAN, signed : SUBSET Manifest,
                      left : SUBSET Names, widens : BOOLEAN, got : Files]
    <3>1. user' = [user EXCEPT !.left = @ \ {n}]
      BY <1>2 DEF CheckHash
    <3> HIDE DEF n
    <3> QED
      BY <1>0, <3>1 DEF TypeOK, UserPCs
  <2>2. ASSUME NEW m \in user.signed PROVE Established(m)'
    <3>1. OnDisk(m, n)
      BY <1>2, <2>2, PackIs DEF Intact, OnDisk
    <3> HIDE DEF n
    <3> QED
      BY <1>0, <2>1, <2>2, <3>1 DEF Established, Loaded, OnDisk, SignatureHolds
  <2> QED
    BY <1>0, <2>1, <2>2, UserStep
<1>3. CASE user.left # {} /\ ~Intact(n)
  <2>1. user' = Fail
    BY <1>3 DEF CheckHash
  <2> QED
    BY <1>0, <2>1, FailStep
<1> QED
  BY <1>1, <1>2, <1>3

LEMMA ListAgainStep == ASSUME IInv, ListAgain PROVE IInv'
<1> USE DEF IInv
<1>1. DOMAIN dir \in SUBSET Names
  BY FilesAre DEF TypeOK
<1>2. /\ user'.at = "scan" /\ user'.left = DOMAIN dir
      /\ user'.signed = user.signed /\ user'.got = user.got
      /\ user' \in [at : UserPCs, load : BOOLEAN, signed : SUBSET Manifest,
                    left : SUBSET Names, widens : BOOLEAN, got : Files]
  BY <1>1 DEF ListAgain, To, TypeOK, UserPCs
<1>3. ASSUME NEW m \in user.signed PROVE Established(m)'
  BY <1>2, <1>3 DEF ListAgain, Established, Loaded, OnDisk, SignatureHolds
<1> QED
  BY <1>2, <1>3, UserStep DEF ListAgain

\* `critical_widening_rules`, one file: what nobody wrote to is what was signed, so
\* a signed file that widens is noticed.
LEMMA ScanStep == ASSUME IInv, Scan PROVE IInv'
<1> USE DEF IInv
<1> DEFINE n == Min(user.left)
           fine == n \in DOMAIN dir /\ dir[n] # "broken"
<1>0. /\ user.left \in SUBSET Names
      /\ UNCHANGED <<dir, manifest, signVars, pin, optIn, recorded, writes, touched>>
      /\ user.at = "scan"
  BY DEF Scan, TypeOK
<1>1. CASE user.left = {}
  <2>1. /\ user'.at = "judge" /\ user'.signed = user.signed /\ user'.got = user.got
        /\ user'.widens = user.widens
        /\ user' \in [at : UserPCs, load : BOOLEAN, signed : SUBSET Manifest,
                      left : SUBSET Names, widens : BOOLEAN, got : Files]
    BY <1>1 DEF Scan, To, TypeOK, UserPCs
  <2>2. ASSUME NEW m \in user.signed PROVE Established(m)'
    BY <1>0, <1>1, <2>1, <2>2 DEF Established, Loaded, OnDisk, SignatureHolds
  <2> QED
    BY <1>0, <2>1, <2>2, UserStep
<1>2. CASE user.left # {} /\ fine
  <2>1. /\ user'.at = "scan" /\ user'.left = user.left \ {n}
        /\ user.widens \/ dir[n] = "widening" => user'.widens
        /\ user'.signed = user.signed /\ user'.got = user.got
        /\ user' \in [at : UserPCs, load : BOOLEAN, signed : SUBSET Manifest,
                      left : SUBSET Names, widens : BOOLEAN, got : Files]
    <3>1. user' = [user EXCEPT !.left = @ \ {n}, !.widens = @ \/ dir[n] = "widening"]
      BY <1>2 DEF Scan
    <3> HIDE DEF n
    <3> QED
      BY <1>0, <3>1 DEF TypeOK, UserPCs
  <2>2. ASSUME NEW m \in user.signed PROVE Established(m)'
    <3> HIDE DEF n
    <3> QED
      BY <1>0, <2>1, <2>2 DEF Established, Loaded, OnDisk, SignatureHolds
  <2> QED
    BY <1>0, <2>1, <2>2, UserStep
<1>3. CASE user.left # {} /\ ~fine
  <2>1. user' = Fail
    BY <1>3 DEF Scan
  <2> QED
    BY <1>0, <2>1, FailStep
<1> QED
  BY <1>1, <1>2, <1>3

\* The decision: no widening is read on without the opt-in.
LEMMA JudgeStep == ASSUME IInv, Judge PROVE IInv'
<1> USE DEF IInv
<1>0. /\ UNCHANGED <<dir, manifest, signVars, pin, optIn, writes, touched>>
      /\ user.at = "judge"
      /\ user.load => recorded' = recorded
      /\ recorded' = recorded \/ recorded' = recorded \cup user.signed
  BY DEF Judge
<1>1. CASE ~user.load
  <2>1. /\ user'.at = "done" /\ user'.signed = user.signed /\ user'.got = user.got
        /\ ~user'.load
        /\ user' \in [at : UserPCs, load : BOOLEAN, signed : SUBSET Manifest,
                      left : SUBSET Names, widens : BOOLEAN, got : Files]
    BY <1>1 DEF Judge, To, TypeOK, UserPCs
  <2>2. ASSUME NEW m \in user.signed PROVE Established(m)'
    BY <1>0, <2>1, <2>2 DEF Established, Loaded, SignatureHolds
  <2> QED
    BY <1>0, <2>1, <2>2, UserStep
<1>2. CASE user.load /\ (optIn \/ ~user.widens)
  <2>1. PICK m \in user.signed : TRUE
    BY <1>0 DEF RunAgrees
  <2>2. Pack = m /\ m \in Manifest /\ \A x \in user.signed : x = m
    BY <2>1, PackIs DEF TypeOK, RunAgrees
  <2>3. DOMAIN m.files \in SUBSET Names
    BY <2>2, FilesAre DEF Manifest
  <2>4. /\ user'.at = "read" /\ user'.left = DOMAIN m.files
        /\ user'.signed = user.signed /\ user'.got = user.got
        /\ user' \in [at : UserPCs, load : BOOLEAN, signed : SUBSET Manifest,
                      left : SUBSET Names, widens : BOOLEAN, got : Files]
    BY <1>2, <2>2, <2>3 DEF Judge, To, TypeOK, UserPCs
  <2>5. DOMAIN user.got = {}
    BY <1>0 DEF RunAgrees
  <2>6. Established(m)'
    BY <1>0, <1>2, <2>1, <2>4, <2>5 DEF Established, Loaded, OnDisk, SignatureHolds
  <2> QED
    BY <1>0, <1>2, <2>2, <2>4, <2>6, UserStep
<1>3. CASE user.load /\ ~(optIn \/ ~user.widens)
  <2>1. user' = Fail
    BY <1>3 DEF Judge
  <2> QED
    BY <1>0, <1>3, <2>1, FailStep
<1> QED
  BY <1>1, <1>2, <1>3

\* The policies are read: a file nobody wrote to is still the one that was hashed.
LEMMA ReadPolicyStep == ASSUME IInv, ReadPolicy PROVE IInv'
<1> USE DEF IInv
<1> DEFINE n == Min(user.left)
           fine == n \in DOMAIN dir /\ dir[n] # "broken"
<1>0. /\ user.left \in SUBSET Names /\ user.got \in Files
      /\ UNCHANGED <<dir, manifest, signVars, pin, optIn, recorded, writes, touched>>
      /\ user.at = "read"
  BY DEF ReadPolicy, TypeOK
<1>1. CASE user.left = {}
  <2>1. /\ user'.at = "done" /\ user'.signed = user.signed /\ user'.got = user.got
        /\ user'.load = user.load
        /\ user' \in [at : UserPCs, load : BOOLEAN, signed : SUBSET Manifest,
                      left : SUBSET Names, widens : BOOLEAN, got : Files]
    BY <1>1 DEF ReadPolicy, To, TypeOK, UserPCs
  <2>2. ASSUME NEW m \in user.signed PROVE Established(m)'
    BY <1>0, <1>1, <2>1, <2>2 DEF Established, Loaded, OnDisk, SignatureHolds
  <2> QED
    BY <1>0, <2>1, <2>2, UserStep
<1>2. CASE user.left # {} /\ fine
  <2> DEFINE got == With(user.got, n, dir[n])
  <2>0. n \in Names /\ n \in user.left /\ dir[n] \in PolicyTexts /\ n \in DOMAIN dir
    BY <1>0, <1>2, MinIn, FilesAre DEF TypeOK
  <2>1. /\ got \in Files
        /\ DOMAIN got = DOMAIN user.got \cup {n}
        /\ got[n] = dir[n]
        /\ \A m \in DOMAIN user.got : m # n => got[m] = user.got[m]
    BY <1>0, <2>0, WithFiles
  <2>2. user' = [user EXCEPT !.left = @ \ {n}, !.got = With(@, n, dir[n])]
    BY <1>2 DEF ReadPolicy
  <2>3. user' = [user EXCEPT !.left = user.left \ {n}, !.got = got]
    BY <2>2 DEF TypeOK
  <2> HIDE DEF n, got
  <2>4. /\ user'.at = "read" /\ user'.left = user.left \ {n} /\ user'.got = got
        /\ user'.signed = user.signed
        /\ user' \in [at : UserPCs, load : BOOLEAN, signed : SUBSET Manifest,
                      left : SUBSET Names, widens : BOOLEAN, got : Files]
    BY <1>0, <2>1, <2>3 DEF TypeOK, UserPCs
  <2>5. ASSUME NEW m \in user.signed PROVE Established(m)'
    <3>1. /\ \A k \in DOMAIN m.files \ touched : OnDisk(m, k)
          /\ DOMAIN user.got \cup user.left = DOMAIN m.files
          /\ \A k \in DOMAIN user.got \ touched : user.got[k] = m.files[k]
      BY <1>0, <2>5 DEF Established
    <3>2. \A k \in DOMAIN got \ touched : got[k] = m.files[k]
      BY <2>0, <2>1, <3>1 DEF OnDisk
    <3>3. DOMAIN got \cup (user.left \ {n}) = DOMAIN m.files
      BY <2>0, <2>1, <3>1
    <3> QED
      BY <1>0, <2>4, <2>5, <3>2, <3>3 DEF Established, Loaded, OnDisk, SignatureHolds
  <2> QED
    BY <1>0, <2>4, <2>5, UserStep
<1>3. CASE user.left # {} /\ ~fine
  <2>1. user' = Fail
    BY <1>3 DEF ReadPolicy
  <2> QED
    BY <1>0, <2>1, FailStep
<1> QED
  BY <1>1, <1>2, <1>3
-----------------------------------------------------------------------------
(* The others. *)

\* A file is written or removed: it counts as touched, and the rest stays.
LEMMA DirectoryStep ==
  ASSUME IInv, NEW n \in Names, OthersWrite, dir' \in Files, touched' = touched \cup {n},
         \A k \in DOMAIN dir : k # n => k \in DOMAIN dir' /\ dir'[k] = dir[k],
         UNCHANGED <<manifest, signVars, userVars>>
  PROVE  IInv'
<1> USE DEF IInv
<1>1. TypeOK'
  BY DEF TypeOK, OthersWrite, signVars, userVars
<1>2. KeyAgrees' /\ PublisherIsStable' /\ SignaturesGenuine'
  BY SignFrame, GenuineFrame DEF userVars, signVars
<1>3. RunAgrees'
  BY DEF RunAgrees, userVars
<1>4. ASSUME NEW m \in user'.signed PROVE Established(m)'
  BY <1>4 DEF userVars, Established, OnDisk, SignatureHolds, Loaded
<1> QED
  BY <1>1, <1>2, <1>3, <1>4

LEMMA WriteFileStep ==
  ASSUME IInv, NEW n \in Names, NEW content \in PolicyTexts, WriteFile(n, content)
  PROVE  IInv'
<1>0. dir' = With(dir, n, content) /\ dir \in Files
  BY DEF WriteFile, IInv, TypeOK
<1>1. /\ dir' \in Files
      /\ \A k \in DOMAIN dir : k # n => k \in DOMAIN dir' /\ dir'[k] = dir[k]
  <2> DEFINE g == With(dir, n, content)
  <2>1. /\ g \in Files
        /\ DOMAIN g = DOMAIN dir \cup {n}
        /\ \A k \in DOMAIN dir : k # n => g[k] = dir[k]
    BY <1>0, WithFiles
  <2> HIDE DEF g
  <2>2. dir' = g
    BY <1>0 DEF g
  <2> QED
    BY <2>1, <2>2
<1> QED
  BY <1>1, DirectoryStep DEF WriteFile

LEMMA RemoveFileStep ==
  ASSUME IInv, NEW n \in Names, RemoveFile(n)
  PROVE  IInv'
<1>1. /\ dir' \in Files
      /\ \A k \in DOMAIN dir : k # n => k \in DOMAIN dir' /\ dir'[k] = dir[k]
  BY RestrictFiles DEF RemoveFile, IInv, TypeOK
<1> QED
  BY <1>1, DirectoryStep DEF RemoveFile

\* A forged manifest has a stranger's signature or the one that was there.
LEMMA ForgeStep ==
  ASSUME IInv, NEW publisher \in PublisherKeys, Forge(publisher)
  PROVE  IInv'
<1> USE DEF IInv
<1>1. PICK f \in Manifest :
         /\ manifest' = {f}
         /\ f.by = Stranger \/ [by |-> f.by, over |-> f.over] \in released
  <2>1. CASE manifest' = {[files |-> dir, publisher |-> publisher, by |-> Stranger,
                           over |-> dir]}
    <3> DEFINE f == [files |-> dir, publisher |-> publisher, by |-> Stranger, over |-> dir]
    <3>1. f \in Manifest /\ f.by = Stranger
      BY DEF TypeOK, Manifest, PublisherKeys
    <3> QED
      BY <2>1, <3>1
  <2>2. ASSUME NEW m \in manifest, manifest' = {[m EXCEPT !.files = dir, !.publisher = publisher]}
        PROVE  \E f \in Manifest :
                  /\ manifest' = {f}
                  /\ f.by = Stranger \/ [by |-> f.by, over |-> f.over] \in released
    <3> DEFINE f == [m EXCEPT !.files = dir, !.publisher = publisher]
    <3>1. f \in Manifest /\ f.by = m.by /\ f.over = m.over
      BY DEF TypeOK, Manifest
    <3>2. m.by = Stranger \/ [by |-> m.by, over |-> m.over] \in released
      BY DEF SignaturesGenuine
    <3> QED
      BY <2>2, <3>1, <3>2
  <2> QED
    BY <2>1, <2>2 DEF Forge
<1>2. TypeOK'
  <2>0. OthersWrite
    BY DEF Forge
  <2>1. manifest' \subseteq Manifest /\ writes' \in Nat
    BY <1>1, <2>0 DEF OthersWrite, TypeOK
  <2>2. UNCHANGED <<dir, signVars, userVars, touched>>
    BY DEF Forge
  <2> QED
    BY <2>1, <2>2 DEF TypeOK, signVars, userVars
<1>3. KeyAgrees' /\ PublisherIsStable'
  BY SignFrame DEF Forge
<1>4. SignaturesGenuine'
  BY <1>1 DEF Forge, SignaturesGenuine, signVars, userVars
<1>5. RunAgrees' /\ \A m \in user'.signed : Established(m)'
  BY <1>1, UserFrame DEF Forge
<1> QED
  BY <1>2, <1>3, <1>4, <1>5
-----------------------------------------------------------------------------
LEMMA NextIInv == IInv /\ [Next]_vars => IInv'
<1> SUFFICES ASSUME IInv, [Next]_vars PROVE IInv'
  OBVIOUS
<1>1. ASSUME NEW s \in Signers, Sign(s) \/ Abort(s) PROVE IInv'
  BY <1>1, StartSignStep, CreateKeyFileStep, WriteKeyFileStep, HashFileStep, PublishStep,
     AbortStep DEF Sign
<1>2. ASSUME NEW load \in BOOLEAN, NEW critical \in BOOLEAN,
             NEW trusted \in {{}} \cup {{s} : s \in Signers},
             StartUser(load, critical, trusted)
      PROVE  IInv'
  <2>1. trusted \in SUBSET PublisherKeys
    BY DEF PublisherKeys
  <2> QED
    BY <1>2, <2>1, StartUserStep
<1>3. CASE UserRun
  BY <1>3, VerifyStep, CheckHashStep, ListAgainStep, ScanStep, JudgeStep, ReadPolicyStep DEF UserRun
<1>4. CASE Others
  BY <1>4, WriteFileStep, RemoveFileStep, ForgeStep DEF Others
<1>5. CASE UNCHANGED vars
  <2>1. UNCHANGED <<dir, manifest, signVars, userVars, writes, touched>>
    BY <1>5 DEF vars
  <2>2. TypeOK'
    BY <2>1 DEF IInv, TypeOK, signVars, userVars
  <2>3. KeyAgrees' /\ PublisherIsStable' /\ SignaturesGenuine'
    BY <2>1, SignFrame, GenuineFrame DEF IInv, signVars, userVars
  <2>4. RunAgrees' /\ \A m \in user'.signed : Established(m)'
    BY <2>1, UserFrame DEF IInv, RunAgrees
  <2> QED
    BY <2>2, <2>3, <2>4 DEF IInv
<1> QED
  BY <1>1, <1>2, <1>3, <1>4, <1>5 DEF Next

\* Every state of `guardian pack` keeps the invariant: one manifest in memory, genuine
\* signatures, one key, and what each phase of a load has established of the files
\* nobody wrote to.
THEOREM PacksInvariant == Spec => []IInv
BY InitIInv, NextIInv, PTL DEF Spec

\* What the signature of a checked manifest is: a stranger's own, or a release.
LEMMA SignatureIsRelease ==
  ASSUME IInv, NEW m \in user.signed, SignatureHolds(m)
  PROVE  m.publisher = Stranger \/ [by |-> m.publisher, over |-> m.files] \in released
BY DEF IInv, SignaturesGenuine, SignatureHolds

\* load_pack, any number of files and writes: what is loaded is what the (pinned) key
\* signed, for every file nobody wrote to during the load, and it widens only with
\* the opt-in.
THEOREM LoadsAreSigned == Spec => []LoadedIsSigned
<1>1. IInv => LoadedIsSigned
  <2> SUFFICES ASSUME IInv, Loaded PROVE LoadedIsSigned
    BY DEF LoadedIsSigned
  <2>1. PICK m \in user.signed : TRUE
    BY DEF IInv, RunAgrees, Loaded
  <2>2. Pack = m /\ m \in Manifest
    BY <2>1, PackIs DEF IInv, TypeOK
  <2> DEFINE r == [by |-> m.publisher, over |-> m.files]
  <2>3. r.by = m.publisher /\ r.over = m.files
    OBVIOUS
  <2>4. SignatureHolds(m) /\ \A key \in pin : m.publisher = key
    BY <2>1 DEF IInv, Established, Loaded
  <2>5. r \in released \cup [by : {Stranger}, over : {Pack.files}]
    BY <2>1, <2>2, <2>4, SignatureIsRelease
  <2>6. /\ DOMAIN user.got = DOMAIN m.files
        /\ \A n \in DOMAIN user.got \ touched :
              user.got[n] = m.files[n] /\ (user.got[n] = "widening" => optIn)
    BY <2>1 DEF IInv, Established
  <2> HIDE DEF r
  <2> QED
    BY <2>2, <2>3, <2>4, <2>5, <2>6 DEF LoadedIsSigned
<1> QED
  BY <1>1, PacksInvariant, PTL

\* `pack verify --audit`: whatever is recorded was signed by its publisher, the pinned
\* one if there is a pin.
THEOREM RecordsAreAuthentic == Spec => []ProvenanceIsAuthentic
<1>1. IInv => ProvenanceIsAuthentic
  <2> SUFFICES ASSUME IInv, NEW m \in recorded
               PROVE  /\ m.publisher = Stranger
                         \/ [by |-> m.publisher, over |-> m.files] \in released
                      /\ \A key \in pin : m.publisher = key
    BY DEF ProvenanceIsAuthentic
  <2>1. m \in user.signed /\ user.at = "done"
    BY DEF IInv, RunAgrees
  <2>2. SignatureHolds(m) /\ \A key \in pin : m.publisher = key
    BY <2>1 DEF IInv, Established
  <2> QED
    BY <2>1, <2>2, SignatureIsRelease
<1> QED
  BY <1>1, PacksInvariant, PTL

\* `pack sign`, any number of runs cut off anywhere: without a race for the key file
\* every pack carries the key it holds.
THEOREM OnePublisherKey == Spec => []PublisherIsStable
<1>1. IInv => PublisherIsStable
  BY DEF IInv
<1> QED
  BY <1>1, PacksInvariant, PTL
=============================================================================
