------------------------ MODULE UploadSessionProofs -------------------------
(***************************************************************************)
(* What is committed is one state of the file, and what is skipped was     *)
(* sent: for every number of slices, edits and failures.                   *)
(***************************************************************************)
EXTENDS UploadSession, TLAPS

\* Contents are sequences of slices, and none is empty.
LEMMA ContentsType ==
  ASSUME NEW s \in Contents
  PROVE  s \in Seq(Slice) /\ Len(s) \in 1..MaxSlices
<1>1. PICK n \in 1..MaxSlices : s \in [1..n -> Slice]
  BY DEF Contents
<1>2. n \in Nat /\ MaxSlices \in Nat
  BY SessionAssumption
<1> QED BY <1>1, <1>2

-----------------------------------------------------------------------------
(* The inductive invariant.                                                *)

\* Modification times only grow, so that an edit makes those on record stale.
TimesSane == initial.mtime <= file.mtime /\ manifest.mtime <= file.mtime

\* What was hashed is what the file holds, while its modification time is the one
\* the run noted first.
HashesCurrent ==
  /\ pc \in {"stat", "load", "unlog"} => hashes = <<>> /\ completed = {} /\ tasks = {}
  /\ pc \in {"hash", "save", "write"} => completed = {}
  /\ initial.mtime = file.mtime =>
       /\ pc = "hash" =>
            Len(hashes) <= Len(file.data) /\ \A k \in DOMAIN hashes : hashes[k] = file.data[k]
       /\ pc \in {"save", "write", "init", "check", "transfer"} => hashes = file.data
  /\ pc \in {"save", "write"} => hashes # <<>>

\* So does a manifest that was saved in a run with that time.
ManifestCurrent ==
  manifest.state = "saved" =>
    /\ manifest.hashes # <<>> /\ Len(manifest.hashes) <= MaxSlices
    /\ manifest.mtime = file.mtime => manifest.hashes = file.data

\* A log without a manifest is being removed; a run that has saved its manifest
\* is the only one that adds to the log.
SessionTogether ==
  /\ manifest.state = "torn" => log = {}
  /\ manifest.state = "none" => log = {} \/ pc \in {"unlog", "cleanup"}
  /\ pc \in {"hash", "save", "unlog", "cleanup"} => manifest.state = "none"
  /\ pc = "write" => manifest.state = "torn"
  /\ pc \in {"init", "check", "transfer", "commit", "unmanifest"} =>
       manifest.state = "saved" /\ manifest.hashes = hashes

\* What the log names was sent.
LogSent ==
  manifest.state = "saved" =>
    \A k \in log \cap DOMAIN manifest.hashes : manifest.hashes[k] \in sent

\* Between the last look at the file and the commit, hashes are what it held.
ReadyToCommit ==
  /\ pc # "idle" => file.data \in since
  /\ pc = "commit" => hashes \in since /\ initial.size = Len(hashes)

\* A run does not die while it removes the manifest and the log: a log that is
\* left behind would be taken for that of the next session.
CleansUp == "cleaning" \notin Faults

SessionInv ==
  /\ TypeOK
  /\ pc \in {"idle", "stat", "load", "unlog", "hash", "save", "write", "init", "check",
             "transfer", "commit", "unmanifest", "cleanup"}
  /\ TimesSane /\ HashesCurrent /\ ManifestCurrent /\ ReadyToCommit /\ CommittedIsSnapshot
  /\ CleansUp => SessionTogether /\ LogSent /\ CompletedWasSent

-----------------------------------------------------------------------------
(* Every step preserves it, one lemma per action.                          *)

USE SessionAssumption

\* The invariant in the state the program starts in.
LEMMA InitSessionInv == Init => SessionInv
BY ContentsType
   DEF Init, SessionInv, TypeOK, TimesSane, HashesCurrent, ManifestCurrent, SessionTogether,
       LogSent, ReadyToCommit, CommittedIsSnapshot, CompletedWasSent, Unreadable

\* A run starts with nothing hashed and nothing completed.
LEMMA StartKeeps == SessionInv /\ Start => SessionInv'
<1> SUFFICES ASSUME SessionInv, Start PROVE SessionInv'
  OBVIOUS
<1>1. Len(file.data) \in 1..MaxSlices /\ file.data \in Contents
  BY ContentsType DEF SessionInv, TypeOK
<1>2. initial'.size = Len(file.data) /\ initial'.mtime = initial.mtime
      /\ initial' \in [size : 0..MaxSlices, mtime : 0..MaxEdits]
  <2> DEFINE n == Len(file.data)
  <2>1. initial \in [size : 0..MaxSlices, mtime : 0..MaxEdits] /\ n \in 0..MaxSlices
    BY <1>1 DEF SessionInv, TypeOK
  <2>2. initial' = [initial EXCEPT !.size = n]
    BY DEF Start
  <2> HIDE DEF n
  <2>3. initial'.size = n /\ initial'.mtime = initial.mtime
        /\ initial' \in [size : 0..MaxSlices, mtime : 0..MaxEdits]
    BY <2>1, <2>2
  <2> QED BY <2>3 DEF n
<1>3. hashes' = <<>> /\ hashes' \in Seq(Slice) /\ Len(hashes') = 0
  BY DEF Start
<1>4. TypeOK'
  BY <1>1, <1>2, <1>3 DEF Start, SessionInv, TypeOK
<1> QED
  BY <1>1, <1>2, <1>3, <1>4
   DEF Start, Step, SessionInv, TimesSane, HashesCurrent, ManifestCurrent, SessionTogether,
       LogSent, ReadyToCommit, CommittedIsSnapshot, CompletedWasSent

\* The modification time noted is the file's.
LEMMA StatKeeps == SessionInv /\ Stat => SessionInv'
<1> SUFFICES ASSUME SessionInv, Stat PROVE SessionInv'
  OBVIOUS
<1>1. initial'.size = initial.size /\ initial'.mtime = file.mtime
      /\ initial' \in [size : 0..MaxSlices, mtime : 0..MaxEdits]
  BY DEF Stat, SessionInv, TypeOK
<1>2. TypeOK'
  BY <1>1 DEF Stat, SessionInv, TypeOK
<1> QED
  BY <1>1, <1>2
   DEF Stat, Step, TypeOK, SessionInv, TimesSane, HashesCurrent, ManifestCurrent, SessionTogether,
       LogSent, ReadyToCommit, CommittedIsSnapshot, CompletedWasSent

\* Without a manifest there is no log.
LEMMA NoSessionKeeps == SessionInv /\ NoSession => SessionInv'
BY ContentsType
   DEF NoSession, Step, TypeOK, SessionInv, TimesSane, HashesCurrent, ManifestCurrent, SessionTogether,
       LogSent, ReadyToCommit, CommittedIsSnapshot, CompletedWasSent

\* A torn manifest is left as it is.
LEMMA LoadThrowsKeeps == SessionInv /\ LoadThrows => SessionInv'
BY ContentsType
   DEF LoadThrows, Step, TypeOK, SessionInv, TimesSane, HashesCurrent, ManifestCurrent, SessionTogether,
       LogSent, ReadyToCommit, CommittedIsSnapshot, CompletedWasSent

\* A manifest with the file's modification time has the hashes of the file.
LEMMA ResumeKeeps == SessionInv /\ Resume => SessionInv'
<1> SUFFICES ASSUME SessionInv, Resume PROVE SessionInv'
  OBVIOUS
<1>1. hashes' = manifest.hashes /\ hashes' # <<>> /\ pc' = "init"
  BY DEF Resume, Step, SessionInv, ManifestCurrent
<1>2. completed' \subseteq DOMAIN hashes'
  BY <1>1 DEF Resume
<1>3. Len(hashes') <= MaxSlices /\ hashes' \in Seq(Slice) /\ tasks' = {}
  BY <1>1 DEF Resume, Step, SessionInv, TypeOK, ManifestCurrent, HashesCurrent
<1>4. TypeOK'
  BY <1>1, <1>2, <1>3 DEF Resume, SessionInv, TypeOK
<1> QED
  BY <1>1, <1>2, <1>3, <1>4
   DEF Resume, Step, Current, SessionInv, TimesSane, HashesCurrent, ManifestCurrent, SessionTogether,
       LogSent, ReadyToCommit, CommittedIsSnapshot, CompletedWasSent

\* Removing the manifest leaves the log to be removed.
LEMMA DiscardKeeps == SessionInv /\ Discard => SessionInv'
BY ContentsType
   DEF Discard, Step, TypeOK, SessionInv, TimesSane, HashesCurrent, ManifestCurrent, SessionTogether,
       LogSent, ReadyToCommit, CommittedIsSnapshot, CompletedWasSent, Unreadable

\* .. and the log goes next.
LEMMA DiscardLogKeeps == SessionInv /\ DiscardLog => SessionInv'
BY ContentsType
   DEF DiscardLog, Step, TypeOK, SessionInv, TimesSane, HashesCurrent, ManifestCurrent, SessionTogether,
       LogSent, ReadyToCommit, CommittedIsSnapshot, CompletedWasSent

\* The slice read next is the file's, as it is now.
LEMMA HashSliceKeeps == SessionInv /\ HashSlice => SessionInv'
<1> SUFFICES ASSUME SessionInv, HashSlice PROVE SessionInv'
  OBVIOUS
<1> DEFINE slice == file.data[Len(hashes) + 1]
<1>1. file.data \in Seq(Slice) /\ Len(file.data) \in 1..MaxSlices /\ hashes \in Seq(Slice)
  BY ContentsType DEF SessionInv, TypeOK
<1>2. slice \in Slice
  BY <1>1 DEF HashSlice
<1>3. hashes' \in Seq(Slice) /\ Len(hashes') = Len(hashes) + 1 /\ Len(hashes') <= MaxSlices
  BY <1>1, <1>2 DEF HashSlice
<1>4. /\ \A k \in DOMAIN hashes : hashes'[k] = hashes[k]
      /\ hashes'[Len(hashes) + 1] = slice
      /\ DOMAIN hashes' = DOMAIN hashes \cup {Len(hashes) + 1}
  BY <1>1, <1>2 DEF HashSlice
<1>5. TypeOK'
  BY <1>3, <1>4 DEF HashSlice, SessionInv, TypeOK
<1>6. HashesCurrent'
  BY <1>1, <1>3, <1>4 DEF HashSlice, SessionInv, HashesCurrent
<1>7. CleansUp => CompletedWasSent'
  BY DEF HashSlice, SessionInv, HashesCurrent, CompletedWasSent
<1> QED
  BY <1>5, <1>6, <1>7
   DEF HashSlice, SessionInv, TimesSane, ManifestCurrent, SessionTogether, LogSent,
       ReadyToCommit, CommittedIsSnapshot

\* All slices of the file as it is have been hashed.
LEMMA HashedKeeps == SessionInv /\ Hashed => SessionInv'
BY ContentsType
   DEF Hashed, Step, TypeOK, SessionInv, TimesSane, HashesCurrent, ManifestCurrent, SessionTogether,
       LogSent, ReadyToCommit, CommittedIsSnapshot, CompletedWasSent

\* Opening the manifest empties it; there is no log.
LEMMA OpenManifestKeeps == SessionInv /\ OpenManifest => SessionInv'
BY ContentsType
   DEF OpenManifest, Step, TypeOK, SessionInv, TimesSane, HashesCurrent, ManifestCurrent, SessionTogether,
       LogSent, ReadyToCommit, CommittedIsSnapshot, CompletedWasSent, Unreadable

\* A manifest is written with the hashes of its run.
LEMMA WriteManifestKeeps == SessionInv /\ WriteManifest => SessionInv'
BY ContentsType
   DEF WriteManifest, Step, TypeOK, SessionInv, TimesSane, HashesCurrent, ManifestCurrent, SessionTogether,
       LogSent, ReadyToCommit, CommittedIsSnapshot, CompletedWasSent

\* upload-init changes nothing on disk.
LEMMA NegotiateKeeps == SessionInv /\ Negotiate => SessionInv'
BY ContentsType
   DEF Negotiate, Step, TypeOK, SessionInv, TimesSane, HashesCurrent, ManifestCurrent, SessionTogether,
       LogSent, ReadyToCommit, CommittedIsSnapshot, CompletedWasSent

\* Only a file with its first modification time is committed.
LEMMA CheckKeeps == SessionInv /\ Check => SessionInv'
BY ContentsType
   DEF Check, Step, TypeOK, SessionInv, TimesSane, HashesCurrent, ManifestCurrent, SessionTogether,
       LogSent, ReadyToCommit, CommittedIsSnapshot, CompletedWasSent, Unmodified

\* A position goes to the log when its slice has been sent.
LEMMA SendKeeps == ASSUME NEW k \in 1..MaxSlices, SessionInv, Send(k) PROVE SessionInv'
<1>1. CASE k <= Len(file.data) /\ file.data[k] = hashes[k]
  <2>1. tasks' \subseteq tasks /\ log \subseteq log' /\ log' \subseteq log \cup {k}
        /\ sent' = sent \cup {hashes[k]} /\ pc = "transfer" /\ UNCHANGED pc
    BY <1>1 DEF Send
  <2>2. k \in DOMAIN hashes /\ hashes[k] \in Slice
    BY DEF Send, SessionInv, TypeOK
  <2>3. TypeOK'
    BY <2>1, <2>2 DEF Send, SessionInv, TypeOK
  <2>4. CleansUp => SessionTogether' /\ LogSent'
    BY <2>1 DEF Send, SessionInv, SessionTogether, LogSent
  <2> QED
    BY <2>1, <2>3, <2>4
     DEF Send, SessionInv, TimesSane, HashesCurrent, ManifestCurrent, ReadyToCommit,
         CommittedIsSnapshot, CompletedWasSent
<1>2. CASE ~(k <= Len(file.data) /\ file.data[k] = hashes[k])
  <2>1. pc = "transfer" /\ pc' = "idle" /\ UNCHANGED <<tasks, log, sent>>
    BY <1>2 DEF Send
  <2> QED
    BY <2>1
     DEF Send, TypeOK, SessionInv, TimesSane, HashesCurrent, ManifestCurrent, SessionTogether,
       LogSent, ReadyToCommit, CommittedIsSnapshot, CompletedWasSent
<1> QED BY <1>1, <1>2

\* The commit takes the hashes of the run.
LEMMA CommitKeeps == SessionInv /\ Commit => SessionInv'
BY ContentsType
   DEF Commit, Step, TypeOK, SessionInv, TimesSane, HashesCurrent, ManifestCurrent, SessionTogether,
       LogSent, ReadyToCommit, CommittedIsSnapshot, CompletedWasSent

\* The manifest goes first ..
LEMMA RemoveManifestKeeps == SessionInv /\ RemoveManifest => SessionInv'
BY ContentsType
   DEF RemoveManifest, Step, TypeOK, SessionInv, TimesSane, HashesCurrent, ManifestCurrent, SessionTogether,
       LogSent, ReadyToCommit, CommittedIsSnapshot, CompletedWasSent, Unreadable

\* .. and then the log.
LEMMA RemoveLogKeeps == SessionInv /\ RemoveLog => SessionInv'
BY ContentsType
   DEF RemoveLog, Step, TypeOK, SessionInv, TimesSane, HashesCurrent, ManifestCurrent, SessionTogether,
       LogSent, ReadyToCommit, CommittedIsSnapshot, CompletedWasSent

\* A run may die anywhere but between the two.
LEMMA FailKeeps == SessionInv /\ Fail => SessionInv'
BY ContentsType
   DEF Fail, CleansUp, Step, TypeOK, SessionInv, TimesSane, HashesCurrent, ManifestCurrent, SessionTogether,
       LogSent, ReadyToCommit, CommittedIsSnapshot, CompletedWasSent, runVars

\* An edit makes every modification time on record stale.
LEMMA EditKeeps == SessionInv /\ Edit => SessionInv'
<1> SUFFICES ASSUME SessionInv, Edit PROVE SessionInv'
  OBVIOUS
<1>1. PICK data \in Contents : /\ file' = [data |-> data, mtime |-> file.mtime + 1]
                               /\ since' = since \cup {data}
  BY DEF Edit
<1>2. file'.data = data /\ file'.mtime = file.mtime + 1 /\ file'.mtime \in 0..MaxEdits
      /\ file.mtime \in Nat /\ initial.mtime \in Nat /\ manifest.mtime \in Nat
  BY <1>1 DEF Edit, SessionInv, TypeOK
<1>3. initial.mtime # file'.mtime /\ manifest.mtime # file'.mtime /\ TimesSane'
  BY <1>2 DEF Edit, runVars, SessionInv, TimesSane
<1>4. TypeOK'
  BY <1>1, <1>2 DEF Edit, runVars, SessionInv, TypeOK
<1> QED
  BY <1>1, <1>2, <1>3, <1>4
   DEF Edit, runVars, SessionInv, HashesCurrent, ManifestCurrent, SessionTogether, LogSent,
       ReadyToCommit, CommittedIsSnapshot, CompletedWasSent

-----------------------------------------------------------------------------
(* Theorems.                                                               *)

\* Every step preserves the invariant.
LEMMA NextSessionInv == SessionInv /\ [Next]_vars => SessionInv'
<1> SUFFICES ASSUME SessionInv, [Next]_vars PROVE SessionInv'
  OBVIOUS
<1>1. CASE Run
  BY <1>1, StartKeeps, StatKeeps, NoSessionKeeps, LoadThrowsKeeps, ResumeKeeps, DiscardKeeps,
     DiscardLogKeeps, HashSliceKeeps, HashedKeeps, OpenManifestKeeps, WriteManifestKeeps,
     NegotiateKeeps, CheckKeeps, SendKeeps, CommitKeeps, RemoveManifestKeeps, RemoveLogKeeps
   DEF Run
<1>2. CASE Fail \/ Edit
  BY <1>2, FailKeeps, EditKeeps
<1>3. CASE UNCHANGED vars
  BY <1>3
   DEF vars, runVars, TypeOK, SessionInv, TimesSane, HashesCurrent, ManifestCurrent, SessionTogether,
       LogSent, ReadyToCommit, CommittedIsSnapshot, CompletedWasSent
<1> QED BY <1>1, <1>2, <1>3 DEF Next

\* SessionInv is an invariant: the manifest, the log, the hashes in memory and the
\* file agree as far as their modification times do.
THEOREM SessionInvAlways == Spec => []SessionInv
<1>1. Init => SessionInv
  BY InitSessionInv
<1>2. SessionInv /\ [Next]_vars => SessionInv'
  BY NextSessionInv
<1> QED BY <1>1, <1>2, PTL DEF Spec

\* UploadFile commits one version of the file, whenever its owner edits it and
\* whatever session is resumed: the modification time is noted before the first
\* slice is hashed and compared after the last was sent.
THEOREM SnapshotCommitted == Spec => []CommittedIsSnapshot
<1>1. SessionInv => CommittedIsSnapshot
  BY DEF SessionInv
<1> QED BY <1>1, SessionInvAlways, PTL

\* A run skips a slice only if it was acknowledged by a worker: manifest and log
\* always belong to the same session (SaveUploadManifest, DeleteUploadManifest).
THEOREM SkippedWasSent == CleansUp => (Spec => []CompletedWasSent)
<1> SUFFICES ASSUME CleansUp PROVE Spec => []CompletedWasSent
  OBVIOUS
<1>1. SessionInv => CompletedWasSent
  BY DEF SessionInv
<1> QED BY <1>1, SessionInvAlways, PTL
=============================================================================
