---------------------------- MODULE SegDirProofs ----------------------------
(***************************************************************************)
(* Proofs about SegDir, for every number of sequences, every set of builds *)
(* and every setting that Safe admits: a process that may be killed at any *)
(* instant with any Sync and with failing system calls, or a machine that  *)
(* may lose power at any instant under SyncFull.                           *)
(*                                                                         *)
(* The invariant is IInv; there is one lemma for every action that can     *)
(* disturb it, and in it one step for every conjunct that is at stake.     *)
(***************************************************************************)
EXTENDS SegDir, TLAPS

LEMMA SeqsAreNumbers == \A s \in Seqs : s \in Nat /\ s # 0 /\ s \in 0..MaxSeq
  BY ConstantsOK DEF Seqs

\* The type invariant, action by action.
LEMMA TypeInit == Init => TypeOK
  <1>1. Empty \in Live /\ Idle \in Op /\ NoManifest \in Manifest /\ Absent \in File
    BY ConstantsOK DEF Empty, Live, Idle, Op, Steps, NoManifest, Manifest, Absent, File
  <1> QED
    BY <1>1, ConstantsOK DEF Init, TypeOK, Empty, Live, NoRead

LEMMA TypeStep == TypeOK /\ [Next]_vars => TypeOK'
  <1> SUFFICES ASSUME TypeOK, [Next]_vars PROVE TypeOK'
    OBVIOUS
  <1> USE ConstantsOK, SeqsAreNumbers
  <1>1. /\ Empty \in Live
        /\ Idle \in Op
        /\ NoManifest \in Manifest
        /\ Absent \in File
        /\ NoRead \in [seq: 0..MaxSeq, want: Builds \cup {NoFile}]
    BY DEF Empty, Live, Idle, Op, Steps, NoManifest, Manifest, Absent, File, NoRead
  <1>2. ASSUME NEW s \in Seqs, NEW f \in File, PutSegment(s, f)
        PROVE  seg' \in [Seqs -> File] /\ dseg' \in [Seqs -> SUBSET File]
    BY <1>2 DEF TypeOK, PutSegment
  <1>3. ASSUME SyncDir
        PROVE  /\ seg' \in [Seqs -> File] /\ dseg' \in [Seqs -> SUBSET File]
               /\ man' \in Manifest /\ dman' \subseteq Manifest
               /\ tmp' \subseteq 0..MaxSeq /\ dtmp' \subseteq 0..MaxSeq
    BY <1>3 DEF TypeOK, SyncDir
  <1>4. CASE OpenRead
    BY <1>4 DEF TypeOK, OpenRead, fsVars, Manifest
  <1>5. CASE \E n \in 0..MaxSeq : SweepTemp(n)
    BY <1>5 DEF TypeOK, SweepTemp, memVars
  <1>6. CASE \E s \in Seqs : SweepSegment(s)
    BY <1>1, <1>2, <1>6 DEF TypeOK, SweepSegment, memVars
  <1>7. CASE Check \/ SweepFail \/ Close
    <2>1. CASE Check
      BY <2>1 DEF TypeOK, Check, fsVars
    <2>2. CASE SweepFail
      BY <1>1, <2>2 DEF TypeOK, SweepFail, fsVars
    <2>3. CASE Close
      BY <1>1, <2>3 DEF TypeOK, Close, fsVars, Live
    <2> QED BY <1>7, <2>1, <2>2, <2>3
  <1>8. CASE \E b \in Builds : Next_(b)
    <2> PICK b \in Builds : Next_(b)
      BY <1>8
    <2>1. next' \in 0..MaxSeq
      BY DEF TypeOK, Next_
    <2>2. built' \in [Seqs -> Builds \cup {NoFile}]
      BY DEF TypeOK, Next_
    <2> QED BY <2>1, <2>2 DEF TypeOK, Next_, fsVars
  <1>9. CASE \E s \in Seqs, b \in Builds : Rebuild(s, b)
    BY <1>9 DEF TypeOK, Rebuild, fsVars
  <1>10. CASE \E s \in Seqs : Publish(s)
    <2> PICK s \in Seqs : Publish(s)
      BY <1>10
    <2>1. [live EXCEPT ![s] = built[s]] \in Live
      BY DEF TypeOK, Live
    <2>2. op' \in Op
      BY <2>1 DEF TypeOK, Publish, Op, Steps
    <2> QED BY <2>2 DEF TypeOK, Publish, WriteTemp
  <1>11. CASE PublishRename
    <2> USE <1>11 DEF PublishRename
    <2>1. op' \in Op
      BY DEF TypeOK, Op, Steps
    <2>2. ASSUME op.seq \in Seqs
          PROVE  [bytes |-> op.live[op.seq], flushed |-> Sync = "full"] \in File
      BY <2>2 DEF TypeOK, Op, Live, File
    <2>3. CASE op.seq \in Seqs
      BY <1>2, <2>1, <2>2, <2>3 DEF TypeOK
    <2>4. CASE op.seq \notin Seqs
      BY <2>1, <2>4, ZenonT(40) DEF TypeOK, PutSegment
    <2> QED BY <2>3, <2>4
  <1>12. CASE PublishSyncDir
    <2>1. op' \in Op
      BY <1>12 DEF TypeOK, PublishSyncDir, Op, Steps
    <2> QED BY <1>3, <1>12, <2>1 DEF TypeOK, PublishSyncDir, fsVars
  <1>13. CASE \E S \in SUBSET Seqs : Remove(S)
    <2> PICK S \in SUBSET Seqs : Remove(S)
      BY <1>13
    <2>1. [s \in Seqs |-> IF s \in S THEN NoFile ELSE live[s]] \in Live
      BY DEF TypeOK, Live
    <2>2. op' \in Op
      BY <2>1 DEF TypeOK, Remove, Op, Steps, Published
    <2> QED BY <2>2 DEF TypeOK, Remove, fsVars
  <1>14. CASE ManifestWrite
    BY <1>14 DEF TypeOK, ManifestWrite, WriteTemp, Op, Steps
  <1>15. CASE ManifestRename
    <2>1. op' \in Op
      BY <1>15 DEF TypeOK, ManifestRename, Op, Steps
    <2>2. man' \in Manifest
      BY <1>15 DEF TypeOK, ManifestRename, Op, Manifest
    <2>3. dman' = dman \cup {man'}
      BY <1>15 DEF ManifestRename
    <2> QED BY <1>15, <2>1, <2>2, <2>3 DEF TypeOK, ManifestRename
  <1>16. CASE ManifestSync
    <2>1. op' \in Op
      BY <1>1, <1>16 DEF TypeOK, ManifestSync, Op, Steps
    <2>2. live' \in Live /\ next' \in 0..MaxSeq
      BY <1>16 DEF TypeOK, ManifestSync, Op
    <2>3. built' \in [Seqs -> Builds \cup {NoFile}]
      BY <1>16 DEF TypeOK, ManifestSync
    <2> QED BY <1>3, <1>16, <2>1, <2>2, <2>3 DEF TypeOK, ManifestSync, fsVars
  <1>17. CASE \E s \in Seqs : Unlink(s)
    <2> PICK s \in Seqs : Unlink(s)
      BY <1>17
    <2>1. op' \in Op
      BY <1>1 DEF TypeOK, Unlink, Op, Steps
    <2> QED BY <1>1, <1>2, <2>1 DEF TypeOK, Unlink
  <1>18. CASE Fail
    BY <1>1, <1>18 DEF TypeOK, Fail, fsVars
  <1>19. CASE (\E s \in Seqs : ReadLookup(s)) \/ ReadFile
    <2>1. reader' \in [seq: 0..MaxSeq, want: Builds \cup {NoFile}]
      BY <1>1, <1>19 DEF TypeOK, ReadLookup, ReadFile, Live
    <2> QED BY <1>19, <2>1 DEF TypeOK, ReadLookup, ReadFile, memVars, fsVars
  <1>20. CASE Kill
    BY <1>1, <1>20 DEF TypeOK, Kill, Forget, fsVars, Live
  <1>21. CASE PowerCut
    <2>1. ASSUME NEW f \in File, NEW g \in Settled(f)
          PROVE  g \in File
      <3>1. CASE f.flushed
        BY <3>1 DEF Settled
      <3>2. CASE ~f.flushed
        <4>1. PICK b \in {f.bytes} \cup Broken : g = [bytes |-> b, flushed |-> TRUE]
          BY <3>2 DEF Settled
        <4> QED BY <4>1 DEF File
      <3> QED BY <3>1, <3>2
    <2>2. \A m \in Manifest : SettledManifest(m) \subseteq Manifest
      BY <1>1, ZenonT(40) DEF SettledManifest, Manifest
    <2>3. seg' \in [Seqs -> File]
      BY <1>21, <2>1 DEF TypeOK, PowerCut
    <2>4. man' \in Manifest
      BY <1>21, <2>2 DEF TypeOK, PowerCut
    <2> QED BY <1>1, <1>21, <2>3, <2>4 DEF TypeOK, PowerCut, Forget, Live
  <1>22. CASE UNCHANGED vars
    BY <1>22 DEF TypeOK, vars
  <1> QED
    BY <1>4, <1>5, <1>6, <1>7, <1>8, <1>9, <1>10, <1>11, <1>12, <1>13, <1>14, <1>15,
       <1>16, <1>17, <1>18, <1>19, <1>20, <1>21, <1>22 DEF Next

(***************************************************************************)
(* Type correctness of the segment directory, in every setting.            *)
(***************************************************************************)
THEOREM TypeCorrect == Spec => []TypeOK
  BY TypeInit, TypeStep, PTL DEF Spec

-----------------------------------------------------------------------------
(* The inductive invariant.                                                *)

LEMMA InvInit == Init => IInv
  <1> SUFFICES ASSUME Init PROVE IInv
    OBVIOUS
  <1>1. TypeOK
    BY TypeInit
  <1>2. Manifests = {NoManifest} /\ \A s \in Seqs : Segments(s) = {Absent}
    BY DEF Init, Manifests, Segments
  <1>3. FilesWhole
    BY <1>2, ConstantsOK DEF Init, FilesWhole, NoManifest, Absent, Broken
  <1>4. ManifestsCovered
    BY <1>2 DEF ManifestsCovered, NoManifest, Empty
  <1>5. OpStep
    BY <1>2 DEF Init, OpStep, Busy, Idle
  <1> QED
    BY <1>1, <1>3, <1>4, <1>5 DEF Init, IInv, OpenNeverRefused, LiveCovered, BuiltAgrees,
       PublishStep, RemoveStep, SweepAgrees, ManifestAgrees, ReaderSafe, Empty, Idle

\* A step that leaves the segment files and the manifest alone leaves alone
\* what a crash may bring back.
LEMMA Quiet ==
  ASSUME IInv, UNCHANGED <<seg, dseg, man, dman>>
  PROVE  /\ Manifests' = Manifests
         /\ \A s \in Seqs : Segments(s)' = Segments(s)
         /\ FilesWhole'
         /\ ManifestsCovered'
  <1>1. Manifests' = Manifests /\ \A s \in Seqs : Segments(s)' = Segments(s)
    BY DEF Manifests, Segments
  <1> QED
    BY <1>1 DEF IInv, FilesWhole, ManifestsCovered, Certain

LEMMA OpenReadInv ==
  ASSUME IInv, TypeOK', OpenRead
  PROVE  IInv'
  <1>1. UNCHANGED <<seg, dseg, man, dman, built, op, reader>>
    BY DEF OpenRead, fsVars
  <1>2. man.state # "torn" /\ ~Busy /\ Manifests = {man}
    BY DEF IInv, FilesWhole, OpStep, OpenRead
  <1>3. phase' = "sweep" /\ live' = man.live /\ next' = man.next
    BY <1>2 DEF OpenRead
  <1>4. next' \in Nat
    BY ConstantsOK DEF TypeOK
  <1>5. LiveCovered'
    BY <1>1, <1>2, <1>3, <1>4, Quiet DEF IInv, ManifestsCovered, LiveCovered, Certain
  <1>6. BuiltAgrees' /\ ReaderSafe'
    BY <1>1, Quiet DEF IInv, BuiltAgrees, ReaderSafe, OpenRead
  <1>7. PublishStep' /\ RemoveStep' /\ OpStep'
    BY <1>1, <1>2, Quiet DEF IInv, PublishStep, RemoveStep, OpStep, Busy
  <1> QED
    BY <1>1, <1>3, <1>5, <1>6, <1>7, Quiet DEF IInv, OpenNeverRefused, SweepAgrees, ManifestAgrees

LEMMA SweepTempInv ==
  ASSUME IInv, TypeOK', NEW n \in 0..MaxSeq, SweepTemp(n)
  PROVE  IInv'
  BY Quiet DEF IInv, SweepTemp, memVars, OpenNeverRefused, LiveCovered, Certain, BuiltAgrees,
     PublishStep, RemoveStep, OpStep, Busy, SweepAgrees, ManifestAgrees, ReaderSafe

\* The manifest names none of the files a sweep deletes.
LEMMA SweepSegmentInv ==
  ASSUME IInv, TypeOK', NEW s \in Seqs, SweepSegment(s)
  PROVE  IInv'
  <1>1. /\ UNCHANGED <<phase, live, next, built, op, reader, man, dman>>
        /\ phase = "sweep" /\ live[s] = NoFile
    BY DEF SweepSegment, memVars, Stray
  <1>2. ~Busy /\ Manifests = {man} /\ Manifests' = Manifests /\ man.live = live
    BY <1>1 DEF IInv, OpStep, SweepAgrees, ManifestAgrees, Manifests
  <1>3. \A t \in Seqs : t # s => seg'[t] = seg[t] /\ Segments(t)' = Segments(t)
    BY DEF IInv, TypeOK, SweepSegment, PutSegment, Segments
  <1>4. seg'[s] = Absent /\ Segments(s)' \subseteq Segments(s) \cup {Absent}
        /\ seg'[s] \in Segments(s)'
    BY DEF IInv, TypeOK, SweepSegment, PutSegment, Segments
  <1>5. FilesWhole'
    BY <1>1, <1>2, <1>3, <1>4, ConstantsOK DEF IInv, FilesWhole, Absent
  <1>6. ManifestsCovered' /\ LiveCovered'
    BY <1>1, <1>2, <1>3 DEF IInv, ManifestsCovered, LiveCovered, Certain
  <1>7. PublishStep' /\ RemoveStep' /\ OpStep' /\ BuiltAgrees' /\ SweepAgrees'
    BY <1>1, <1>2 DEF IInv, PublishStep, RemoveStep, OpStep, Busy, BuiltAgrees, SweepAgrees, ManifestAgrees
  <1>8. ReaderSafe'
    BY <1>1, <1>2, <1>3, <1>4 DEF IInv, ReaderSafe, Absent
  <1> QED
    BY <1>1, <1>5, <1>6, <1>7, <1>8 DEF IInv, OpenNeverRefused, ManifestAgrees

\* Everything the manifest names is there, so the check does not refuse.
LEMMA CheckInv ==
  ASSUME IInv, TypeOK', Check
  PROVE  IInv'
  <1>1. UNCHANGED <<seg, dseg, man, dman, live, next, built, op, reader>> /\ phase = "sweep"
    BY DEF Check, fsVars
  <1>2. \A s \in Seqs : EntryOK(s)
    BY <1>1 DEF IInv, LiveCovered, FilesWhole, Certain, EntryOK
  <1>3. phase' = "up"
    BY <1>2 DEF Check
  <1> QED
    BY <1>1, <1>3, Quiet DEF IInv, OpenNeverRefused, LiveCovered, Certain, BuiltAgrees,
       PublishStep, RemoveStep, OpStep, Busy, SweepAgrees, ManifestAgrees, ReaderSafe

\* The process lets go of the directory: Close, and an Open that failed.
LEMMA LetGoInv ==
  ASSUME IInv, TypeOK', ~Busy, UNCHANGED <<seg, dseg, man, dman, op, reader>>,
         phase' = "down", built' = Empty \/ (phase # "up" /\ built' = built)
  PROVE  IInv'
  <1>1. BuiltAgrees' /\ ReaderSafe'
    BY Quiet DEF IInv, BuiltAgrees, ReaderSafe, Empty
  <1> QED
    BY <1>1, Quiet DEF IInv, OpenNeverRefused, LiveCovered, PublishStep, RemoveStep,
       OpStep, Busy, SweepAgrees, ManifestAgrees

\* A sequence that is handed out is above every manifest's counter, so no
\* manifest names it.
LEMMA NextSeqInv ==
  ASSUME IInv, TypeOK', NEW b \in Builds, Next_(b)
  PROVE  IInv'
  <1>1. /\ UNCHANGED <<seg, dseg, man, dman, phase, live, op, reader>>
        /\ phase = "up" /\ ~Busy /\ next' = next + 1
    BY DEF Next_, fsVars
  <1>2. /\ next \in Nat /\ next + 1 \in Seqs
        /\ \A m \in Manifests : m.next \in Nat /\ m.next <= next
    BY <1>1, ConstantsOK DEF IInv, TypeOK, LiveCovered, Manifests, Manifest, Seqs, Next_
  <1>3. \A s \in Seqs : s # next + 1 => built'[s] = built[s]
    BY DEF IInv, TypeOK, Next_
  <1>4. LiveCovered'
    BY <1>1, <1>2, Quiet DEF IInv, LiveCovered, Certain
  <1>5. live[next + 1] = NoFile /\ \A m \in Manifests : m.live[next + 1] = NoFile
    BY <1>1, <1>2, SeqsAreNumbers DEF IInv, LiveCovered, ManifestsCovered, FilesWhole
  <1>6. BuiltAgrees'
    BY <1>1, <1>2, <1>3, <1>5, Quiet, SeqsAreNumbers DEF IInv, BuiltAgrees
  <1>7. ReaderSafe'
    BY <1>1, <1>2, <1>3, Quiet, SeqsAreNumbers DEF IInv, FilesWhole, ReaderSafe
  <1> QED
    BY <1>1, <1>4, <1>6, <1>7, Quiet DEF IInv, OpenNeverRefused, PublishStep, RemoveStep,
       OpStep, Busy, SweepAgrees, ManifestAgrees

\* Where no publish fails, no manifest names a sequence that is not live, so
\* a caller may build other bytes for it.
LEMMA RebuildInv ==
  ASSUME Safe, IInv, TypeOK', NEW s \in Seqs, NEW b \in Builds, Rebuild(s, b)
  PROVE  IInv'
  <1>1. /\ UNCHANGED <<seg, dseg, man, dman, phase, live, next, op, reader>>
        /\ phase = "up" /\ ~Busy /\ built[s] # NoFile /\ ~IOErrors
        /\ built' = [built EXCEPT ![s] = b]
    BY DEF Rebuild, fsVars, Safe
  <1>2. live[s] = NoFile /\ s <= next /\ Manifests = {man} /\ man.live = live
    BY <1>1 DEF IInv, BuiltAgrees, ManifestAgrees, OpStep
  <1>3. \A t \in Seqs : t # s => built'[t] = built[t]
    BY <1>1 DEF IInv, TypeOK
  <1>4. BuiltAgrees'
    BY <1>1, <1>2, <1>3, Quiet DEF IInv, BuiltAgrees
  <1>5. ReaderSafe'
    BY <1>1, <1>2, <1>3, Quiet DEF IInv, ReaderSafe
  <1> QED
    BY <1>1, <1>4, <1>5, Quiet DEF IInv, OpenNeverRefused, LiveCovered, Certain, PublishStep,
       RemoveStep, OpStep, Busy, SweepAgrees, ManifestAgrees

LEMMA PublishInv ==
  ASSUME IInv, TypeOK', NEW s \in Seqs, Publish(s)
  PROVE  IInv'
  <1>1. /\ UNCHANGED <<seg, dseg, man, dman, phase, live, next, built, reader>>
        /\ phase = "up" /\ ~Busy /\ built[s] # NoFile
        /\ op'.kind = "publish" /\ op'.step = "rename" /\ op'.seq = s
        /\ op'.live = [live EXCEPT ![s] = built[s]]
    BY DEF Publish, WriteTemp
  <1>2. op'.next = next
    BY <1>1, SeqsAreNumbers, ConstantsOK DEF IInv, TypeOK, BuiltAgrees, Publish
  <1>3. PublishStep' /\ RemoveStep' /\ OpStep'
    BY <1>1, <1>2, Quiet DEF IInv, PublishStep, RemoveStep, OpStep, Busy
  <1> QED
    BY <1>1, <1>3, Quiet DEF IInv, OpenNeverRefused, LiveCovered, Certain, BuiltAgrees,
       SweepAgrees, ManifestAgrees, ReaderSafe

\* A manifest that names the sequence was left by an earlier attempt at the
\* same publish, so the bytes are the ones it names.
LEMMA PublishRenameInv ==
  ASSUME Safe, IInv, TypeOK', PublishRename
  PROVE  IInv'
  <1> PICK q \in Seqs : q = op.seq
    BY DEF IInv, PublishStep, PublishRename
  <1> DEFINE f == [bytes |-> built[q], flushed |-> Sync = "full"]
  <1>1. /\ UNCHANGED <<phase, live, next, built, reader, man, dman>>
        /\ op.kind = "publish" /\ Busy /\ op.step = "rename"
        /\ op' = [op EXCEPT !.step = "dirsync"]
    BY DEF PublishRename, Busy
  <1>2. built[q] # NoFile /\ op.live[q] = built[q] /\ built[q] \in Builds
    BY <1>1 DEF IInv, TypeOK, PublishStep, Live
  <1>3. seg'[q] = f /\ Segments(q)' \subseteq Segments(q) \cup {f} /\ f \in Segments(q)'
    BY <1>2 DEF IInv, TypeOK, PublishRename, PutSegment, Segments
  <1>4. \A t \in Seqs : t # q => seg'[t] = seg[t] /\ Segments(t)' = Segments(t)
    BY <1>2 DEF IInv, TypeOK, PublishRename, PutSegment, Segments
  <1>5. Manifests' = Manifests
    BY <1>1 DEF Manifests
  <1>6. FilesWhole'
    <2>1. f.bytes \notin Broken
      BY <1>2, ConstantsOK
    <2>2. "power" \in Crashes => f.flushed
      BY DEF Safe
    <2> HIDE DEF f
    <2>3. \A s \in Seqs : seg'[s] \in Segments(s)'
      BY <1>3, <1>4 DEF IInv, FilesWhole
    <2>4. \A s \in Seqs : \A g \in Segments(s)' :
            g.bytes \notin Broken /\ ("power" \in Crashes => g.flushed)
      BY <1>3, <1>4, <2>1, <2>2 DEF IInv, FilesWhole
    <2> QED BY <1>1, <1>5, <2>3, <2>4 DEF IInv, FilesWhole
  <1>7. ManifestsCovered' /\ LiveCovered'
    BY <1>1, <1>2, <1>3, <1>4, <1>5
       DEF IInv, ManifestsCovered, LiveCovered, BuiltAgrees, Certain
  <1>8. PublishStep' /\ RemoveStep' /\ OpStep'
    BY <1>1, <1>2, <1>3, <1>5 DEF IInv, TypeOK, Op, PublishStep, RemoveStep, OpStep, Busy
  <1>9. ReaderSafe'
    BY <1>1, <1>2, <1>4, <1>5 DEF IInv, ReaderSafe
  <1> QED
    BY <1>1, <1>5, <1>6, <1>7, <1>8, <1>9
       DEF IInv, OpenNeverRefused, BuiltAgrees, SweepAgrees, ManifestAgrees

\* A flush of the directory leaves a crash one manifest and one file a name.
LEMMA Flushed ==
  ASSUME IInv, SyncDir \/ UNCHANGED fsVars
  PROVE  /\ UNCHANGED <<seg, man>>
         /\ Manifests' \subseteq Manifests /\ man \in Manifests'
         /\ \A s \in Seqs : Segments(s)' \subseteq Segments(s) /\ seg[s] \in Segments(s)'
         /\ FilesWhole'
         /\ ManifestsCovered'
  <1>1. /\ UNCHANGED <<seg, man>>
        /\ Manifests' \subseteq Manifests /\ man \in Manifests'
        /\ \A s \in Seqs : Segments(s)' \subseteq Segments(s) /\ seg[s] \in Segments(s)'
    BY DEF IInv, FilesWhole, Manifests, Segments, SyncDir, fsVars
  <1> QED
    BY <1>1 DEF IInv, FilesWhole, ManifestsCovered, Certain

LEMMA PublishSyncDirInv ==
  ASSUME Safe, IInv, TypeOK', PublishSyncDir
  PROVE  IInv'
  <1>1. /\ UNCHANGED <<phase, live, next, built, reader>>
        /\ op.kind = "publish" /\ Busy /\ op.step = "dirsync"
        /\ op' = [op EXCEPT !.step = "mwrite"]
        /\ SyncDir \/ UNCHANGED fsVars
    BY DEF PublishSyncDir, Busy
  <1>2. op.seq \in Seqs /\ Segments(op.seq)' = {seg[op.seq]}
    BY <1>1 DEF IInv, PublishStep, PublishSyncDir, Safe, Segments, SyncDir, fsVars
  <1>3. Manifests' = {man}
    BY <1>1, Flushed DEF IInv, OpStep
  <1>4. PublishStep' /\ RemoveStep' /\ OpStep'
    BY <1>1, <1>2, <1>3, Flushed
       DEF IInv, TypeOK, Op, PublishStep, RemoveStep, OpStep, Busy, Certain
  <1> QED
    BY <1>1, <1>4, Flushed DEF IInv, OpenNeverRefused, LiveCovered, Certain, BuiltAgrees,
       SweepAgrees, ManifestAgrees, ReaderSafe

LEMMA RemoveInv ==
  ASSUME IInv, TypeOK', NEW S \in SUBSET Seqs, Remove(S)
  PROVE  IInv'
  <1>1. /\ UNCHANGED <<seg, dseg, man, dman, phase, live, next, built, reader>>
        /\ phase = "up" /\ ~Busy
        /\ op'.kind = "remove" /\ op'.step = "mwrite" /\ op'.next = next
        /\ op'.live = [s \in Seqs |-> IF s \in S THEN NoFile ELSE live[s]]
        /\ op'.gone \subseteq S
    BY DEF Remove, fsVars
  <1>2. PublishStep' /\ RemoveStep' /\ OpStep'
    BY <1>1, Quiet DEF IInv, PublishStep, RemoveStep, OpStep, Busy
  <1> QED
    BY <1>1, <1>2, Quiet DEF IInv, OpenNeverRefused, LiveCovered, Certain, BuiltAgrees,
       SweepAgrees, ManifestAgrees, ReaderSafe

LEMMA ManifestWriteInv ==
  ASSUME IInv, TypeOK', ManifestWrite
  PROVE  IInv'
  <1>1. /\ UNCHANGED <<seg, dseg, man, dman, phase, live, next, built, reader>>
        /\ Busy /\ op.step = "mwrite" /\ op' = [op EXCEPT !.step = "mrename"]
    BY DEF ManifestWrite, WriteTemp
  <1>2. PublishStep' /\ RemoveStep' /\ OpStep'
    BY <1>1, Quiet DEF IInv, TypeOK, Op, PublishStep, RemoveStep, OpStep, Busy, Certain
  <1> QED
    BY <1>1, <1>2, Quiet DEF IInv, OpenNeverRefused, LiveCovered, Certain, BuiltAgrees,
       SweepAgrees, ManifestAgrees, ReaderSafe

\* The instant the index changes: the manifest names the old segments, which
\* the live set covers, and the new one, whose file is certain by now.
LEMMA ManifestRenameInv ==
  ASSUME Safe, IInv, TypeOK', ManifestRename
  PROVE  IInv'
  <1>1. /\ UNCHANGED <<phase, live, next, built, reader, seg, dseg>>
        /\ Busy /\ op.step = "mrename" /\ op' = [op EXCEPT !.step = "msync"]
        /\ man'.state = "good" /\ man'.live = op.live /\ man'.next = op.next
        /\ man'.flushed = (Sync # "none") /\ dman' = dman \cup {man'}
    BY DEF ManifestRename
  <1>2. /\ \A s \in Seqs : Segments(s)' = Segments(s)
        /\ Manifests = {man} /\ man' \in Manifests' /\ Manifests' \subseteq {man, man'}
    BY <1>1 DEF IInv, OpStep, FilesWhole, Manifests, Segments
  <1>3. phase = "up" /\ op.next = next /\ next \in Nat
        /\ \A m \in Manifests : m.next \in Nat /\ m.next <= next
    BY <1>1, ConstantsOK DEF IInv, TypeOK, OpStep, LiveCovered, Manifests, Manifest
  <1>4. \A s \in Seqs : op.live[s] # NoFile => Certain(s, op.live[s]) /\ s <= next
    BY <1>1, <1>2, <1>3, SeqsAreNumbers
       DEF IInv, TypeOK, Op, Live, Busy, PublishStep, RemoveStep, LiveCovered, BuiltAgrees
  <1>5. FilesWhole'
    BY <1>1, <1>2 DEF IInv, FilesWhole, Safe
  <1>6. ManifestsCovered'
    BY <1>1, <1>2, <1>3, <1>4 DEF IInv, ManifestsCovered, Certain
  <1>7. LiveCovered'
    BY <1>1, <1>2, <1>3, SeqsAreNumbers DEF IInv, LiveCovered, Certain
  <1>8. BuiltAgrees'
    BY <1>1, <1>2 DEF IInv, TypeOK, Op, Live, Busy, BuiltAgrees, PublishStep, RemoveStep
  <1>9. PublishStep' /\ RemoveStep' /\ OpStep'
    BY <1>1, <1>2 DEF IInv, TypeOK, Op, PublishStep, RemoveStep, OpStep, Busy, Certain
  <1>10. ReaderSafe'
    BY <1>1, <1>2, <1>3, SeqsAreNumbers DEF IInv, ReaderSafe
  <1>11. ManifestAgrees'
    <2>1. Busy' /\ op'.step = "msync"
      BY <1>1 DEF IInv, TypeOK, Op, Busy
    <2> QED BY <2>1 DEF ManifestAgrees
  <1> QED
    BY <1>1, <1>3, <1>5, <1>6, <1>7, <1>8, <1>9, <1>10, <1>11 DEF IInv, OpenNeverRefused, SweepAgrees

LEMMA ManifestSyncInv ==
  ASSUME Safe, IInv, TypeOK', ManifestSync
  PROVE  IInv'
  <1>1. /\ UNCHANGED <<phase, reader>> /\ Busy /\ op.step = "msync" /\ phase = "up"
        /\ live' = op.live /\ next' = op.next
        /\ SyncDir \/ UNCHANGED fsVars
    BY DEF IInv, OpStep, ManifestSync
  <1>2. Manifests' = {man} /\ man' = man /\ man.live = op.live /\ man.next = op.next
    BY <1>1 DEF IInv, OpStep, FilesWhole, ManifestSync, Safe, Manifests, SyncDir, fsVars
  <1>3. next' = next /\ next \in Nat
    BY <1>1, ConstantsOK DEF IInv, TypeOK, OpStep
  <1>4. LiveCovered'
    BY <1>1, <1>2, <1>3, Flushed DEF LiveCovered, ManifestsCovered
  <1>7. ManifestAgrees'
    BY <1>1, <1>2 DEF ManifestAgrees
  <1>5. CASE op.kind = "publish"
    <2>1. op' = Idle /\ op.seq \in Seqs /\ built' = [built EXCEPT ![op.seq] = NoFile]
      BY <1>5 DEF IInv, PublishStep, ManifestSync
    <2>2. BuiltAgrees'
      BY <1>1, <1>2, <1>3, <1>5, <2>1, Flushed
         DEF IInv, TypeOK, Live, BuiltAgrees, PublishStep
    <2>3. PublishStep' /\ RemoveStep' /\ OpStep'
      BY <1>2, <2>1 DEF PublishStep, RemoveStep, OpStep, Busy, Idle
    <2>4. ReaderSafe'
      BY <1>1, <1>2, <2>1, Flushed DEF IInv, TypeOK, ReaderSafe
    <2> QED
      BY <1>1, <1>4, <1>7, <2>2, <2>3, <2>4, Flushed DEF IInv, OpenNeverRefused, SweepAgrees
  <1>6. CASE op.kind = "remove"
    <2>1. op' = [op EXCEPT !.step = "unlink"] /\ UNCHANGED built
      BY <1>6 DEF ManifestSync
    <2>2. BuiltAgrees'
      BY <1>1, <1>2, <1>3, <1>6, <2>1, Flushed DEF IInv, BuiltAgrees, RemoveStep
    <2>3. /\ op'.kind = "remove" /\ op'.step = "unlink" /\ op'.live = op.live
          /\ op'.gone = op.gone /\ op'.next = op.next
      BY <1>6, <2>1 DEF IInv, TypeOK, Op
    <2>5. RemoveStep'
      BY <1>1, <1>2, <1>6, <2>3 DEF IInv, RemoveStep
    <2>6. PublishStep' /\ OpStep'
      BY <1>1, <1>2, <2>3 DEF PublishStep, OpStep
    <2>4. ReaderSafe'
      BY <1>1, <1>2, <2>1, Flushed DEF IInv, ReaderSafe
    <2> QED
      BY <1>1, <1>4, <1>7, <2>2, <2>4, <2>5, <2>6, Flushed DEF IInv, OpenNeverRefused, SweepAgrees
  <1> QED
    BY <1>1, <1>5, <1>6 DEF IInv, TypeOK, Op, Busy

\* No manifest that may come back names a file that is unlinked.
LEMMA UnlinkInv ==
  ASSUME IInv, TypeOK', NEW s \in Seqs, Unlink(s)
  PROVE  IInv'
  <1>1. /\ UNCHANGED <<phase, live, next, built, reader, man, dman>>
        /\ Busy /\ op.step = "unlink" /\ s \in op.gone
        /\ op' = Idle \/ op' = [op EXCEPT !.gone = @ \ {s}]
    BY DEF Unlink
  <1>2. op.kind = "remove" /\ live[s] = NoFile /\ Manifests' = Manifests
        /\ \A m \in Manifests : m.live[s] = NoFile
    BY <1>1 DEF IInv, TypeOK, Op, Busy, PublishStep, RemoveStep, Manifests
  <1>3. \A t \in Seqs : t # s => seg'[t] = seg[t] /\ Segments(t)' = Segments(t)
    BY DEF IInv, TypeOK, Unlink, PutSegment, Segments
  <1>4. seg'[s] = Absent /\ Segments(s)' \subseteq Segments(s) \cup {Absent}
        /\ seg'[s] \in Segments(s)'
    BY DEF IInv, TypeOK, Unlink, PutSegment, Segments
  <1>5. FilesWhole'
    BY <1>1, <1>2, <1>3, <1>4, ConstantsOK DEF IInv, FilesWhole, Absent
  <1>6. ManifestsCovered' /\ LiveCovered'
    BY <1>1, <1>2, <1>3 DEF IInv, ManifestsCovered, LiveCovered, Certain
  <1>7. PublishStep' /\ RemoveStep' /\ OpStep'
    BY <1>1, <1>2 DEF IInv, TypeOK, Op, PublishStep, RemoveStep, OpStep, Busy, Idle
  <1>8. ReaderSafe'
    BY <1>1, <1>2, <1>3, <1>4 DEF IInv, ReaderSafe, Absent
  <1> QED
    BY <1>1, <1>2, <1>5, <1>6, <1>7, <1>8
       DEF IInv, OpenNeverRefused, BuiltAgrees, SweepAgrees, ManifestAgrees

\* Under Safe a system call fails only where no power cut follows, so the
\* manifest on disk is the only one that may come back.
LEMMA FailInv ==
  ASSUME Safe, IInv, TypeOK', Fail
  PROVE  IInv'
  <1>1. /\ UNCHANGED <<seg, dseg, man, dman, phase, live, next, built, reader>>
        /\ op' = Idle /\ IOErrors
    BY DEF Fail, fsVars
  <1>2. Manifests' = {man}
    BY <1>1 DEF Safe, Manifests
  <1>3. PublishStep' /\ RemoveStep' /\ OpStep'
    BY <1>1, <1>2 DEF PublishStep, RemoveStep, OpStep, Busy, Idle
  <1> QED
    BY <1>1, <1>3, Quiet DEF IInv, OpenNeverRefused, LiveCovered, Certain, BuiltAgrees,
       SweepAgrees, ManifestAgrees, ReaderSafe

LEMMA ReadInv ==
  ASSUME IInv, TypeOK', (\E s \in Seqs : ReadLookup(s)) \/ ReadFile
  PROVE  IInv'
  <1>1. UNCHANGED <<seg, dseg, man, dman, phase, live, next, built, op>>
    BY DEF ReadLookup, ReadFile, memVars, fsVars
  <1>2. ReaderSafe'
    <2>1. CASE ReadFile
      BY <2>1 DEF ReadFile, ReaderSafe
    <2>2. ASSUME NEW s \in Seqs, ReadLookup(s)
          PROVE  ReaderSafe'
      <3>1. phase = "up" /\ live[s] # NoFile /\ reader'.seq = s /\ reader'.want = live[s]
        BY <2>2 DEF ReadLookup
      <3>2. seg[s].bytes = live[s] /\ built[s] = NoFile
        BY <3>1 DEF IInv, FilesWhole, LiveCovered, BuiltAgrees, Certain
      <3> QED BY <1>1, <3>1, <3>2, Quiet DEF IInv, LiveCovered, ReaderSafe
    <2> QED BY <2>1, <2>2
  <1> QED
    BY <1>1, <1>2, Quiet DEF IInv, OpenNeverRefused, LiveCovered, Certain, BuiltAgrees,
       PublishStep, RemoveStep, OpStep, Busy, SweepAgrees, ManifestAgrees

\* Everything a crash forgets is memory; what it brings back is covered.
LEMMA KillInv ==
  ASSUME Safe, IInv, TypeOK', Kill
  PROVE  IInv'
  <1>1. UNCHANGED <<seg, dseg, man, dman>> /\ Forget /\ "power" \notin Crashes
    BY DEF Kill, fsVars, Safe
  <1> QED
    BY <1>1, Quiet DEF IInv, Forget, OpenNeverRefused, LiveCovered, BuiltAgrees, PublishStep,
       RemoveStep, OpStep, Busy, Idle, SweepAgrees, ManifestAgrees, ReaderSafe, Empty, Manifests

LEMMA PowerCutInv ==
  ASSUME IInv, TypeOK', PowerCut
  PROVE  IInv'
  <1>1. Forget /\ "power" \in Crashes
    BY DEF PowerCut
  <1>2. man' \in Manifests /\ Manifests' = {man'}
    BY <1>1 DEF IInv, FilesWhole, PowerCut, Manifests, SettledManifest
  <1>3. \A s \in Seqs : seg'[s] \in Segments(s) /\ Segments(s)' = {seg'[s]}
    BY <1>1 DEF IInv, FilesWhole, PowerCut, Segments, Settled
  <1>4. FilesWhole' /\ ManifestsCovered'
    BY <1>2, <1>3 DEF IInv, FilesWhole, ManifestsCovered, Certain
  <1> QED
    BY <1>1, <1>2, <1>4 DEF IInv, Forget, OpenNeverRefused, LiveCovered, BuiltAgrees,
       PublishStep, RemoveStep, OpStep, Busy, Idle, SweepAgrees, ManifestAgrees, ReaderSafe, Empty

LEMMA InvStep ==
  ASSUME Safe, IInv, [Next]_vars
  PROVE  IInv'
  <1> TypeOK'
    BY TypeStep DEF IInv
  <1>1. CASE SweepFail \/ Close
    <2>1. ~Busy /\ phase' = "down" /\ UNCHANGED <<seg, dseg, man, dman, op, reader>>
      BY <1>1 DEF IInv, OpStep, SweepFail, Close, fsVars
    <2>2. built' = Empty \/ (phase # "up" /\ built' = built)
      BY <1>1 DEF SweepFail, Close
    <2> QED BY <2>1, <2>2, LetGoInv
  <1>2. CASE \E s \in Seqs, b \in Builds : Rebuild(s, b)
    BY <1>2, RebuildInv
  <1>3. CASE UNCHANGED vars
    BY <1>3, Quiet DEF vars, IInv, OpenNeverRefused, LiveCovered, Certain, BuiltAgrees,
       PublishStep, RemoveStep, OpStep, Busy, SweepAgrees, ManifestAgrees, ReaderSafe
  <1> QED
    BY <1>1, <1>2, <1>3, OpenReadInv, SweepTempInv, SweepSegmentInv, CheckInv, NextSeqInv,
       PublishInv, PublishRenameInv, PublishSyncDirInv, RemoveInv, ManifestWriteInv,
       ManifestRenameInv, ManifestSyncInv, UnlinkInv, FailInv, ReadInv, KillInv,
       PowerCutInv DEF Next

(***************************************************************************)
(* The inductive invariant holds of every behaviour in a safe setting.     *)
(***************************************************************************)
THEOREM Invariance ==
  ASSUME Safe
  PROVE  Spec => []IInv
  <1>1. IInv /\ [Next]_vars => IInv'
    BY InvStep
  <1> QED BY <1>1, InvInit, PTL DEF Spec

(***************************************************************************)
(* Whatever the instant of the crash, Open accepts what it finds: the      *)
(* manifest is whole and every segment it names is there (segdir.go:       *)
(* "a segment is either wholly visible or wholly invisible").              *)
(***************************************************************************)
THEOREM NeverRefused ==
  ASSUME Safe
  PROVE  Spec => []OpenNeverRefused
  <1>1. IInv => OpenNeverRefused
    BY DEF IInv
  <1> QED BY <1>1, Invariance, PTL

(***************************************************************************)
(* An open directory serves every live segment whole.                      *)
(***************************************************************************)
THEOREM AlwaysServedWhole ==
  ASSUME Safe
  PROVE  Spec => []ServedWhole
  <1>1. IInv => ServedWhole
    BY DEF IInv, ServedWhole, LiveCovered, FilesWhole, Certain, Published
  <1> QED BY <1>1, Invariance, PTL

(***************************************************************************)
(* A Read that raced a Remove finds the bytes it looked up or no file,     *)
(* never another segment under the same name.                              *)
(***************************************************************************)
THEOREM ReadsNeverMixed ==
  ASSUME Safe
  PROVE  Spec => []ReadNeverMixed
  <1>1. IInv => ReadNeverMixed
    BY DEF IInv, ReaderSafe, ReadNeverMixed
  <1> QED BY <1>1, Invariance, PTL

(***************************************************************************)
(* After any crash the directory opens, and what it serves is whole: the   *)
(* comment of check, "every segment the manifest names is there", holds    *)
(* before check looks.                                                     *)
(***************************************************************************)
THEOREM RecoversAlways ==
  ASSUME Safe
  PROVE  Spec => []Recovers
  <1>1. IInv => Recovers
    BY DEF IInv, OpenNeverRefused, ServedWhole, LiveCovered, FilesWhole, Certain, Published,
       Recovers
  <1> QED BY <1>1, Invariance, PTL

-----------------------------------------------------------------------------
(* What an open leaves behind, and what a sequence is never given again.   *)

\* The only step into "up" is Check, which waits for the sweep to be done.
LEMMA NothingLeft ==
  ASSUME IInv, [Next]_vars, phase # "up", phase' = "up"
  PROVE  tmp' = {} /\ {s \in Seqs : seg'[s].bytes # NoFile} = Published(live')
  <1>1. Check
    BY DEF IInv, OpStep, Next, vars, OpenRead, SweepTemp, SweepSegment, SweepFail, Next_, Rebuild,
       Publish, PublishRename, PublishSyncDir, Remove, ManifestWrite, ManifestRename,
       ManifestSync, Unlink, Fail, Close, ReadLookup, ReadFile, Kill, PowerCut, Forget, memVars
  <1>2. /\ tmp = {} /\ \A s \in Seqs : ~Stray(s)
        /\ UNCHANGED <<seg, live, tmp>> /\ phase = "sweep"
    BY <1>1 DEF Check, Swept, fsVars
  <1>3. \A s \in Seqs : live[s] # NoFile => seg[s].bytes = live[s]
    BY <1>2 DEF IInv, LiveCovered, FilesWhole, Certain
  <1>4. \A s \in Seqs : seg[s].bytes # NoFile <=> live[s] # NoFile
    BY <1>2, <1>3 DEF Stray
  <1> QED BY <1>2, <1>4 DEF Published

\* A sequence that was published once: every counter that may come back is
\* past it, and no caller holds a segment for it.
Spent(s) ==
    /\ built[s] = NoFile
    /\ \A m \in Manifests : s <= m.next
    /\ phase \in {"sweep", "up"} => s <= next

LEMMA LiveIsSpent ==
  ASSUME IInv, NEW s \in Seqs, live[s] # NoFile, phase \in {"sweep", "up"}
  PROVE  Spent(s)
  <1>1. /\ \A m \in Manifests : s <= m.next /\ m.next <= next
        /\ built[s] = NoFile
    BY DEF IInv, LiveCovered, BuiltAgrees
  <1>2. man \in Manifests /\ man.next \in Nat /\ next \in Nat
    BY ConstantsOK DEF IInv, FilesWhole, TypeOK, Manifest
  <1> QED BY <1>1, <1>2, SeqsAreNumbers DEF Spent

\* A directory that is not open has no live set.
Forgotten == phase = "down" => live = Empty

LEMMA ForgottenStep == ASSUME IInv, Forgotten, [Next]_vars PROVE Forgotten'
  <1>1. CASE phase = "down" /\ phase' = "down"
    BY <1>1 DEF IInv, OpStep, Forgotten, Next, vars, OpenRead, SweepTemp, SweepSegment, Check,
       SweepFail, Next_, Rebuild, Publish, PublishRename, PublishSyncDir, Remove,
       ManifestWrite, ManifestRename, ManifestSync, Unlink, Fail, Close, ReadLookup, ReadFile,
       Kill, PowerCut, Forget, memVars, Empty, Seqs
  <1>2. CASE phase # "down" /\ phase' = "down"
    BY <1>2 DEF Forgotten, Next, vars, OpenRead, SweepTemp, SweepSegment, Check, SweepFail,
       Next_, Rebuild, Publish, PublishRename, PublishSyncDir, Remove, ManifestWrite,
       ManifestRename, ManifestSync, Unlink, Fail, Close, ReadLookup, ReadFile, Kill,
       PowerCut, Forget, memVars, Empty, Seqs
  <1> QED BY <1>1, <1>2 DEF Forgotten

\* Only ManifestRename adds a manifest, and it takes the counter of the process.
LEMMA ManifestsGrow ==
  ASSUME IInv, IInv', [Next]_vars
  PROVE  \/ Manifests' \subseteq Manifests
         \/ phase = "up" /\ man'.next = next /\ Manifests' \subseteq Manifests \cup {man'}
  <1>1. CASE ManifestRename
    BY <1>1 DEF ManifestRename, IInv, OpStep, Manifests
  <1>2. CASE PowerCut
    BY <1>2 DEF IInv, FilesWhole, PowerCut, Manifests, SettledManifest
  <1>3. CASE PublishSyncDir \/ ManifestSync
    BY <1>3, Flushed DEF PublishSyncDir, ManifestSync
  <1>4. CASE UNCHANGED <<man, dman>>
    BY <1>4 DEF Manifests
  <1>5. \/ ManifestRename \/ PowerCut \/ PublishSyncDir \/ ManifestSync
        \/ UNCHANGED <<man, dman>>
    BY DEF Next, vars, OpenRead, SweepTemp, SweepSegment, Check, SweepFail, Next_, Rebuild,
       Publish, PublishRename, Remove, ManifestWrite, Unlink, Fail, Close, ReadLookup,
       ReadFile, Kill, memVars, fsVars, WriteTemp, PutSegment
  <1> QED BY <1>1, <1>2, <1>3, <1>4, <1>5

\* The counter of the process follows the manifest's, or moves on by one.
LEMMA CounterMoves ==
  ASSUME IInv, IInv', [Next]_vars
  PROVE  \/ phase' \notin {"sweep", "up"}
         \/ phase = "down" /\ next' = man.next
         \/ phase \in {"sweep", "up"} /\ next' \in {next, next + 1}
  BY DEF IInv, OpStep, Next, vars, OpenRead, SweepTemp, SweepSegment, Check, SweepFail, Next_,
     Rebuild, Publish, PublishRename, PublishSyncDir, Remove, ManifestWrite, ManifestRename,
     ManifestSync, Unlink, Fail, Close, ReadLookup, ReadFile, Kill, PowerCut, Forget, memVars,
     OpenNeverRefused

\* Only Next hands out a sequence, the one after the counter; a caller that has
\* none cannot build it again.
LEMMA OnlyNextBuilds ==
  ASSUME IInv, [Next]_vars, NEW s \in Seqs, built[s] = NoFile, built'[s] # NoFile
  PROVE  phase = "up" /\ s = next + 1
  <1>1. CASE \E b \in Builds : Next_(b)
    BY <1>1 DEF IInv, TypeOK, Next_
  <1>2. CASE \E t \in Seqs, b \in Builds : Rebuild(t, b)
    BY <1>2 DEF IInv, TypeOK, Rebuild
  <1>3. CASE ManifestSync
    BY <1>3 DEF IInv, TypeOK, ManifestSync
  <1>4. \/ \E b \in Builds : Next_(b)
        \/ \E t \in Seqs, b \in Builds : Rebuild(t, b)
        \/ ManifestSync
        \/ built' \in {built, Empty}
    BY DEF Next, vars, OpenRead, SweepTemp, SweepSegment, Check, SweepFail, Publish,
       PublishRename, PublishSyncDir, Remove, ManifestWrite, ManifestRename, Unlink, Fail,
       Close, ReadLookup, ReadFile, Kill, PowerCut, Forget, memVars
  <1> QED BY <1>1, <1>2, <1>3, <1>4 DEF Empty

LEMMA SpentStays ==
  ASSUME IInv, IInv', [Next]_vars, NEW s \in Seqs, Spent(s)
  PROVE  Spent(s)'
  <1>1. /\ next \in Nat /\ next' \in Nat /\ s \in Nat /\ man \in Manifests
        /\ man.next \in Nat
    BY ConstantsOK, SeqsAreNumbers DEF IInv, TypeOK, FilesWhole, Manifest
  <1>2. built'[s] = NoFile
    BY <1>1, OnlyNextBuilds DEF Spent
  <1>3. \A m \in Manifests' : s <= m.next
    BY <1>1, ManifestsGrow DEF Spent
  <1>4. phase' \in {"sweep", "up"} => s <= next'
    BY <1>1, CounterMoves DEF Spent
  <1> QED BY <1>2, <1>3, <1>4 DEF Spent

LEMMA PublishedOnce ==
  ASSUME Safe, NEW s \in Seqs
  PROVE  Spec => [](live[s] # NoFile => [](built[s] = NoFile))
  <1> DEFINE Here == live[s] # NoFile
             Unbuilt == built[s] = NoFile
  <1>1. Spec => []IInv
    BY Invariance
  <1>2. Init => Forgotten
    BY DEF Init, Forgotten
  <1>3. IInv /\ Forgotten /\ [Next]_vars => Forgotten'
    BY ForgottenStep
  <1>4. IInv /\ Forgotten /\ Here => Spent(s)
    <2> SUFFICES ASSUME IInv, Forgotten, Here PROVE Spent(s)
      OBVIOUS
    <2>1. phase \in {"sweep", "up"}
      BY DEF IInv, TypeOK, OpenNeverRefused, Forgotten, Empty
    <2> QED BY <2>1, LiveIsSpent
  <1>5. IInv /\ IInv' /\ [Next]_vars /\ Spent(s) => Spent(s)'
    BY SpentStays
  <1>6. Spent(s) => Unbuilt
    BY DEF Spent
  <1> HIDE DEF Here, Unbuilt
  <1>7. Spec => [](Here => []Unbuilt)
    BY <1>1, <1>2, <1>3, <1>4, <1>5, <1>6, PTL DEF Spec
  <1> QED BY <1>7 DEF Here, Unbuilt

(***************************************************************************)
(* An open that succeeds has deleted every file the manifest does not name *)
(* (sweep), and a sequence that was live once is never handed out again,   *)
(* whatever crashed in between (Dir.Next: a file name is "never reused").  *)
(***************************************************************************)
THEOREM CleansUpAlways ==
  ASSUME Safe
  PROVE  Spec => CleansUp
  <1>1. IInv /\ [Next]_vars =>
          [phase # "up" /\ phase' = "up" =>
             tmp' = {} /\ {s \in Seqs : seg'[s].bytes # NoFile} = Published(live')]_vars
    BY NothingLeft
  <1>2. Spec => RecoveryLeavesNothing
    BY <1>1, Invariance, PTL DEF Spec, RecoveryLeavesNothing
  <1>3. Spec => NameNeverReused
    BY PublishedOnce DEF NameNeverReused
  <1> QED BY <1>2, <1>3 DEF CleansUp

-----------------------------------------------------------------------------
(* The directory implements SegIndex.                                      *)

InDoubt == {m.live : m \in Manifests} \ {Acked}

\* Leaving the manifests and what is acknowledged alone is a stutter.
LEMMA Stutters ==
  ASSUME Manifests' = Manifests, Acked' = Acked
  PROVE  UNCHANGED <<Acked, InDoubt>>
  BY DEF InDoubt

\* An index that may come back and is the only one left to.
LEMMA CrashImplemented ==
  ASSUME NEW m \in Manifests, Manifests' = {m}, Acked' = m.live
  PROVE  Promise!Crash
  <1>1. Acked' \in InDoubt \cup {Acked} /\ InDoubt' = {}
    BY DEF InDoubt
  <1> QED BY <1>1 DEF Promise!Crash, InDoubt

\* What an operation writes is the index with its segment, or without its own.
LEMMA OperationIsOutcome ==
  ASSUME IInv, Busy
  PROVE  op.live \in Promise!Outcomes /\ Acked = live
  <1>1. Acked = live
    BY DEF IInv, OpStep, Acked
  <1>2. CASE op.kind = "publish"
    <2>1. /\ op.seq \in Seqs /\ built[op.seq] \in Builds /\ live[op.seq] = NoFile
          /\ op.live = [live EXCEPT ![op.seq] = built[op.seq]]
      BY <1>2 DEF IInv, TypeOK, PublishStep, BuiltAgrees
    <2>2. op.live \in {[Acked EXCEPT ![s] = b] : s \in {t \in Seqs : Acked[t] = NoFile}, b \in Builds}
      BY <1>1, <2>1
    <2> QED BY <1>1, <2>2 DEF Promise!Outcomes
  <1>3. CASE op.kind = "remove"
    <2> DEFINE S == {s \in Seqs : op.live[s] = NoFile}
    <2>1. op.live = [s \in Seqs |-> op.live[s]]
      BY DEF IInv, TypeOK, Op, Live
    <2>2. \A s \in Seqs : op.live[s] = IF s \in S THEN NoFile ELSE live[s]
      BY <1>3 DEF IInv, RemoveStep
    <2>3. op.live = [s \in Seqs |-> IF s \in S THEN NoFile ELSE live[s]]
      BY <2>1, <2>2
    <2>4. S \in SUBSET Seqs
      OBVIOUS
    <2> HIDE DEF S
    <2> QED BY <1>1, <2>3, <2>4 DEF Promise!Outcomes
  <1> QED BY <1>1, <1>2, <1>3 DEF IInv, TypeOK, Op, Busy

LEMMA PromiseInit == Init => Promise!Init
  <1> SUFFICES ASSUME Init PROVE Promise!Init
    OBVIOUS
  <1>1. Manifests = {NoManifest} /\ Acked = NoManifest.live /\ NoManifest.live = Empty
    BY DEF Init, Manifests, Acked, NoManifest
  <1> QED BY <1>1 DEF Promise!Init, Empty

\* Step by step: an operation attempts where it renames the manifest and
\* acknowledges where it has flushed the directory; a crash, and a Close after
\* an operation that failed, settle what is in doubt; everything else stutters.
LEMMA PromiseStep ==
  ASSUME Safe, IInv, IInv', [Next]_vars
  PROVE  [Promise!Next]_(Promise!vars)
  <1>1. CASE ManifestRename
    <2>1. /\ UNCHANGED <<phase, live>> /\ man'.live = op.live /\ Busy /\ phase = "up"
          /\ Manifests' \subseteq Manifests \cup {man'}
      BY <1>1 DEF ManifestRename, Manifests, IInv, OpStep
    <2>2. Acked' = Acked
      BY <2>1 DEF Acked
    <2>3. InDoubt' \subseteq InDoubt \cup Promise!Outcomes
      BY <2>1, <2>2, OperationIsOutcome DEF InDoubt
    <2> QED BY <2>2, <2>3 DEF Promise!Next, Promise!Attempt, InDoubt
  <1>2. CASE ManifestSync
    <2>1. /\ live' = op.live /\ phase' = phase /\ phase = "up" /\ Busy
          /\ man' = man /\ man.live = op.live
      BY <1>2, Flushed DEF ManifestSync, IInv, OpStep
    <2>2. Manifests' = {man}
      BY <1>2 DEF IInv, OpStep, FilesWhole, ManifestSync, Safe, Manifests, SyncDir, fsVars
    <2>3. Acked' = op.live
      BY <2>1 DEF Acked
    <2>4. Acked' \in Promise!Outcomes /\ InDoubt' = {}
      BY <2>1, <2>2, <2>3, OperationIsOutcome DEF InDoubt
    <2> QED BY <2>4 DEF Promise!Next, Promise!Acknowledge, InDoubt
  <1>3. CASE PowerCut
    <2>1. man' \in Manifests /\ Manifests' = {man'} /\ Acked' = man'.live
      BY <1>3 DEF IInv, FilesWhole, PowerCut, Forget, Manifests, SettledManifest, Acked
    <2> QED BY <2>1, CrashImplemented DEF Promise!Next
  <1>4. CASE Kill \/ Close
    <2>1. man \in Manifests /\ Manifests' = {man} /\ Acked' = man.live
      BY <1>4 DEF IInv, FilesWhole, OpStep, Kill, Close, Forget, Safe, fsVars, Manifests, Acked
    <2> QED BY <2>1, CrashImplemented DEF Promise!Next
  <1>5. CASE OpenRead \/ Check \/ SweepFail
    <2>1. Manifests' = Manifests
      BY <1>5 DEF OpenRead, Check, SweepFail, fsVars, Manifests
    <2>2. Acked' = Acked
      BY <1>5 DEF OpenRead, Check, SweepFail, fsVars, Acked, IInv, SweepAgrees
    <2> QED BY <2>1, <2>2, Stutters DEF Promise!vars, InDoubt
  <1>6. CASE PublishSyncDir
    <2>1. Manifests' = Manifests
      <3>1. Manifests = {man}
        BY <1>6 DEF PublishSyncDir, IInv, OpStep
      <3> QED BY <1>6, <3>1, Flushed DEF PublishSyncDir
    <2>2. Acked' = Acked
      BY <1>6 DEF PublishSyncDir, SyncDir, fsVars, Acked
    <2> QED BY <2>1, <2>2, Stutters DEF Promise!vars, InDoubt
  <1>7. CASE UNCHANGED <<phase, live, man, dman>>
    <2>1. Manifests' = Manifests /\ Acked' = Acked
      BY <1>7 DEF Manifests, Acked
    <2> QED BY <2>1, Stutters DEF Promise!vars, InDoubt
  <1>8. \/ ManifestRename \/ ManifestSync \/ PowerCut \/ Kill \/ Close \/ OpenRead \/ Check
        \/ SweepFail \/ PublishSyncDir \/ UNCHANGED <<phase, live, man, dman>>
    BY DEF Next, vars, SweepTemp, SweepSegment, Next_, Rebuild, Publish, PublishRename, Remove,
       ManifestWrite, Unlink, Fail, ReadLookup, ReadFile, memVars, fsVars, WriteTemp,
       PutSegment
  <1> QED BY <1>1, <1>2, <1>3, <1>4, <1>5, <1>6, <1>7, <1>8

(***************************************************************************)
(* Refinement: a publish or a removal takes effect at once, a crash keeps  *)
(* everything that was acknowledged, and what was not is there wholly or   *)
(* not at all (segdir.go, Publish and Remove).                             *)
(***************************************************************************)
THEOREM Refinement ==
  ASSUME Safe
  PROVE  Spec => KeepsPromise
  <1>1. IInv /\ IInv' /\ [Next]_vars => [Promise!Next]_(Promise!vars)
    BY PromiseStep
  <1> QED BY <1>1, PromiseInit, Invariance, PTL DEF Spec, KeepsPromise, Promise!Spec
=============================================================================
