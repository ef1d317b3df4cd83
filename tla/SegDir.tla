------------------------------- MODULE SegDir -------------------------------
(***************************************************************************)
(* The segment directory of store/segdir: a directory of immutable segment *)
(* files and the manifest that decides which of them a reader can see.     *)
(*                                                                         *)
(* One process owns the directory (the package assumes a single writer and *)
(* does not enforce it).  Publish and Remove hold the write lock from the  *)
(* first system call to the last, so at most one of them is in progress;   *)
(* each system call is one step and the process can die, or the machine    *)
(* lose power, between any two of them.                                    *)
(*                                                                         *)
(* The file system is external and modelled from how the package uses it.  *)
(* seg and man are what a live process reads back.  dseg and dman hold, for *)
(* every name, the entries a power cut may leave: every entry the name has *)
(* had since the directory was last flushed.  A file whose bytes were not  *)
(* flushed may come back short, or with its length and other bytes.        *)
(*                                                                         *)
(* Data abstraction: the bytes of a segment are a member of Builds, and    *)
(* two different builds have different lengths, so the size the manifest   *)
(* records for a segment is the build itself.                              *)
(***************************************************************************)
EXTENDS Naturals, FiniteSets

CONSTANTS
    MaxSeq,     \* bound: the highest sequence Next may hand out
    Builds,     \* the segments a caller can build
    NoFile,     \* "there is no such file", "not in the live set"
    Sync,       \* Options.Sync: "full", "manifest" or "none"
    Verify,     \* Options.Verify
    Crashes,    \* which crashes happen: a subset of {"kill", "power"}
    IOErrors,   \* whether a system call may fail
    Rebuilds    \* whether a caller may build other bytes for a sequence it
                \* failed to publish

Broken == {"short", "zeroed"}

ASSUME ConstantsOK ==
    /\ MaxSeq \in Nat
    /\ Builds # {}
    /\ NoFile \notin Builds
    /\ Broken \cap (Builds \cup {NoFile}) = {}
    /\ Sync \in {"full", "manifest", "none"}
    /\ Verify \in BOOLEAN
    /\ Crashes \subseteq {"kill", "power"}
    /\ IOErrors \in BOOLEAN
    /\ Rebuilds \in BOOLEAN

VARIABLES
    phase,      \* "down", "sweep" (inside Open), "up", or "refused" by Open
    live,       \* Dir.live: the build published under each sequence
    next,       \* Dir.next
    built,      \* the bytes the caller holds for a sequence handed out
    op,         \* the Publish or Remove that holds the write lock
    seg,        \* segment files, as the running system sees them
    dseg,       \* ... and as a power cut may leave them
    man,        \* the manifest
    dman,
    tmp,        \* temporary files; 0 is the manifest's
    dtmp,
    reader      \* a Read between its look at the live set and its ReadFile

vars == <<phase, live, next, built, op, seg, dseg, man, dman, tmp, dtmp, reader>>
fsVars == <<seg, dseg, man, dman, tmp, dtmp>>
memVars == <<phase, live, next, built, op>>

Seqs == 1..MaxSeq
Live == [Seqs -> Builds \cup {NoFile}]
File == [bytes: Builds \cup Broken \cup {NoFile}, flushed: BOOLEAN]
Manifest == [state: {"absent", "good", "torn"}, live: Live, next: 0..MaxSeq,
             flushed: BOOLEAN]

Absent == [bytes |-> NoFile, flushed |-> TRUE]
Empty == [s \in Seqs |-> NoFile]
NoManifest == [state |-> "absent", live |-> Empty, next |-> 0, flushed |-> TRUE]

Steps == {"rename", "dirsync", "mwrite", "mrename", "msync", "unlink"}
Idle == [kind |-> "none", step |-> "rename", seq |-> 0, live |-> Empty,
         next |-> 0, gone |-> {}]
Op == [kind: {"none", "publish", "remove"}, step: Steps, seq: 0..MaxSeq,
       live: Live, next: 0..MaxSeq, gone: SUBSET Seqs]

NoRead == [seq |-> 0, want |-> NoFile]

\* Type invariant of the directory in memory, on disk and after a power cut.
TypeOK ==
    /\ phase \in {"down", "sweep", "up", "refused"}
    /\ live \in Live
    /\ next \in 0..MaxSeq
    /\ built \in [Seqs -> Builds \cup {NoFile}]
    /\ op \in Op
    /\ seg \in [Seqs -> File]
    /\ dseg \in [Seqs -> SUBSET File]
    /\ man \in Manifest
    /\ dman \subseteq Manifest
    /\ tmp \subseteq 0..MaxSeq
    /\ dtmp \subseteq 0..MaxSeq
    /\ reader \in [seq: 0..MaxSeq, want: Builds \cup {NoFile}]

Published(l) == {s \in Seqs : l[s] # NoFile}

Init ==
    /\ phase = "down"
    /\ live = Empty
    /\ next = 0
    /\ built = Empty
    /\ op = Idle
    /\ seg = [s \in Seqs |-> Absent]
    /\ dseg = [s \in Seqs |-> {Absent}]
    /\ man = NoManifest
    /\ dman = {NoManifest}
    /\ tmp = {}
    /\ dtmp = {}
    /\ reader = NoRead

-----------------------------------------------------------------------------
(* The file system: what writeFile, os.Rename, os.Remove and syncDir do.   *)

WriteTemp(n) ==
    /\ tmp' = tmp \cup {n}
    /\ dtmp' = dtmp \cup {n}
    /\ UNCHANGED <<seg, dseg, man, dman>>

PutSegment(s, f) ==
    /\ seg' = [seg EXCEPT ![s] = f]
    /\ dseg' = [dseg EXCEPT ![s] = @ \cup {f}]

\* syncDir makes every rename and every unlink before it durable.
SyncDir ==
    /\ dseg' = [s \in Seqs |-> {seg[s]}]
    /\ dman' = {man}
    /\ dtmp' = tmp
    /\ UNCHANGED <<seg, man, tmp>>

-----------------------------------------------------------------------------
(* Open.  Recovery is not a mode: every open reads the manifest, deletes   *)
(* what it does not name and checks that what it names is there.           *)

\* Mutant: the counter is rebuilt from the live set instead of read back.
OpenReadRecount ==
    /\ phase = "down"
    /\ man.state # "torn"
    /\ phase' = "sweep"
    /\ live' = man.live
    /\ next' = CHOOSE n \in 0..MaxSeq :
                  /\ \A s \in Published(man.live) : s <= n
                  /\ n = 0 \/ n \in Published(man.live)
    /\ UNCHANGED <<built, op, reader, fsVars>>

\* Mutant: reopening moves the counter on by one, as if it were the next
\* sequence and not the last.
OpenReadAhead ==
    /\ phase = "down"
    /\ phase' = "sweep"
    /\ live' = man.live
    /\ next' = man.next + 1
    /\ UNCHANGED <<built, op, reader, fsVars>>

\* No manifest is an empty index; a damaged one is refused before the sweep.
OpenRead ==
    /\ phase = "down"
    /\ IF man.state = "torn"
       THEN phase' = "refused" /\ UNCHANGED <<live, next>>
       ELSE /\ phase' = "sweep"
            /\ live' = man.live
            /\ next' = man.next
    /\ UNCHANGED <<built, op, reader, fsVars>>

Stray(s) == seg[s].bytes # NoFile /\ live[s] = NoFile

\* Mutant: the sweep looks at segment files only.
SweptSegments == \A s \in Seqs : ~Stray(s)

Swept == tmp = {} /\ \A s \in Seqs : ~Stray(s)

SweepTemp(n) ==
    /\ phase = "sweep"
    /\ n \in tmp
    /\ tmp' = tmp \ {n}
    /\ UNCHANGED <<memVars, reader, seg, dseg, man, dman, dtmp>>

SweepSegment(s) ==
    /\ phase = "sweep"
    /\ Stray(s)
    /\ PutSegment(s, Absent)
    /\ UNCHANGED <<memVars, reader, man, dman, tmp, dtmp>>

\* The size check, and the read back when Options.Verify asks for one.
EntryOK(s) ==
    \/ live[s] = NoFile
    \/ seg[s].bytes = live[s]
    \/ seg[s].bytes = "zeroed" /\ ~Verify

Check ==
    /\ phase = "sweep"
    /\ Swept
    /\ phase' = IF \A s \in Seqs : EntryOK(s) THEN "up" ELSE "refused"
    /\ UNCHANGED <<live, next, built, op, reader, fsVars>>

\* A sweep that cannot delete a file fails the open; it can be tried again.
SweepFail ==
    /\ IOErrors
    /\ phase = "sweep"
    /\ ~Swept
    /\ phase' = "down"
    /\ live' = Empty
    /\ next' = 0
    /\ UNCHANGED <<built, op, reader, fsVars>>

-----------------------------------------------------------------------------
(* The operations of an open directory.  ~Busy: the write lock is free.    *)

Busy == op.kind # "none"

\* Next hands out a sequence, and the caller builds a segment under it.
Next_(b) ==
    /\ phase = "up"
    /\ ~Busy
    /\ next < MaxSeq
    /\ next' = next + 1
    /\ built' = [built EXCEPT ![next + 1] = b]
    /\ UNCHANGED <<phase, live, op, reader, fsVars>>

\* The caller gives up on a failed publish and builds the segment again.
Rebuild(s, b) ==
    /\ Rebuilds
    /\ phase = "up"
    /\ ~Busy
    /\ built[s] # NoFile
    /\ built' = [built EXCEPT ![s] = b]
    /\ UNCHANGED <<phase, live, next, op, reader, fsVars>>

\* writeFile of the segment under its temporary name.
Publish(s) ==
    /\ phase = "up"
    /\ ~Busy
    /\ built[s] # NoFile
    /\ live[s] = NoFile
    /\ WriteTemp(s)
    /\ op' = [kind |-> "publish", step |-> "rename", seq |-> s,
              live |-> [live EXCEPT ![s] = built[s]],
              next |-> IF next < s THEN s ELSE next, gone |-> {}]
    /\ UNCHANGED <<phase, live, next, built, reader>>

PublishRename ==
    /\ op.kind = "publish"
    /\ op.step = "rename"
    /\ PutSegment(op.seq, [bytes |-> op.live[op.seq], flushed |-> Sync = "full"])
    /\ tmp' = tmp \ {op.seq}
    /\ op' = [op EXCEPT !.step = "dirsync"]
    /\ UNCHANGED <<phase, live, next, built, reader, man, dman, dtmp>>

\* Mutant: the name of the segment is not flushed before the manifest.
PublishNoSyncDir ==
    /\ op.kind = "publish"
    /\ op.step = "dirsync"
    /\ op' = [op EXCEPT !.step = "mwrite"]
    /\ UNCHANGED <<phase, live, next, built, reader, fsVars>>

PublishSyncDir ==
    /\ op.kind = "publish"
    /\ op.step = "dirsync"
    /\ IF Sync = "full" THEN SyncDir ELSE UNCHANGED fsVars
    /\ op' = [op EXCEPT !.step = "mwrite"]
    /\ UNCHANGED <<phase, live, next, built, reader>>

\* Mutant: the files go before the manifest that names them.
RemoveUnlinksFirst(S) ==
    /\ phase = "up"
    /\ ~Busy
    /\ S \cap Published(live) # {}
    /\ op' = [kind |-> "remove", step |-> "mwrite", seq |-> 0,
              live |-> [s \in Seqs |-> IF s \in S THEN NoFile ELSE live[s]],
              next |-> next, gone |-> S \cap Published(live)]
    /\ seg' = [s \in Seqs |-> IF s \in S THEN Absent ELSE seg[s]]
    /\ dseg' = [s \in Seqs |-> IF s \in S THEN dseg[s] \cup {Absent} ELSE dseg[s]]
    /\ UNCHANGED <<phase, live, next, built, reader, man, dman, tmp, dtmp>>

\* Mutant: the in-memory live set is replaced before the manifest is written.
RemoveMemoryFirst(S) ==
    /\ phase = "up"
    /\ ~Busy
    /\ S \cap Published(live) # {}
    /\ LET l == [s \in Seqs |-> IF s \in S THEN NoFile ELSE live[s]]
       IN /\ live' = l
          /\ op' = [kind |-> "remove", step |-> "mwrite", seq |-> 0, live |-> l,
                    next |-> next, gone |-> S \cap Published(live)]
    /\ UNCHANGED <<phase, next, built, reader, fsVars>>

\* Remove unpublishes the members of S that are live and then deletes them;
\* a call that names none of them changes nothing.
Remove(S) ==
    /\ phase = "up"
    /\ ~Busy
    /\ S \cap Published(live) # {}
    /\ op' = [kind |-> "remove", step |-> "mwrite", seq |-> 0,
              live |-> [s \in Seqs |-> IF s \in S THEN NoFile ELSE live[s]],
              next |-> next, gone |-> S \cap Published(live)]
    /\ UNCHANGED <<phase, live, next, built, reader, fsVars>>

ManifestWrite ==
    /\ Busy
    /\ op.step = "mwrite"
    /\ WriteTemp(0)
    /\ op' = [op EXCEPT !.step = "mrename"]
    /\ UNCHANGED <<phase, live, next, built, reader>>

\* The instant the index changes.
ManifestRename ==
    /\ Busy
    /\ op.step = "mrename"
    /\ LET m == [state |-> "good", live |-> op.live, next |-> op.next,
                 flushed |-> Sync # "none"]
       IN man' = m /\ dman' = dman \cup {m}
    /\ tmp' = tmp \ {0}
    /\ op' = [op EXCEPT !.step = "msync"]
    /\ UNCHANGED <<phase, live, next, built, reader, seg, dseg, dtmp>>

\* Mutant: the rename of the manifest is not flushed.
ManifestNoSync ==
    /\ Busy
    /\ op.step = "msync"
    /\ live' = op.live
    /\ next' = op.next
    /\ IF op.kind = "publish"
       THEN op' = Idle /\ built' = [built EXCEPT ![op.seq] = NoFile]
       ELSE op' = [op EXCEPT !.step = "unlink"] /\ UNCHANGED built
    /\ UNCHANGED <<phase, reader, fsVars>>

\* The directory is flushed and the in-memory live set replaced: a publish
\* returns here, a remove goes on to unlink.
ManifestSync ==
    /\ Busy
    /\ op.step = "msync"
    /\ IF Sync # "none" THEN SyncDir ELSE UNCHANGED fsVars
    /\ live' = op.live
    /\ next' = op.next
    /\ IF op.kind = "publish"
       THEN /\ op' = Idle
            /\ built' = [built EXCEPT ![op.seq] = NoFile]
       ELSE /\ op' = [op EXCEPT !.step = "unlink"]
            /\ UNCHANGED built
    /\ UNCHANGED <<phase, reader>>

Unlink(s) ==
    /\ Busy
    /\ op.step = "unlink"
    /\ s \in op.gone
    /\ PutSegment(s, Absent)
    /\ op' = IF op.gone = {s} THEN Idle ELSE [op EXCEPT !.gone = @ \ {s}]
    /\ UNCHANGED <<phase, live, next, built, reader, man, dman, tmp, dtmp>>

\* A system call fails and the operation returns the error, leaving the files
\* as they are and the live set as it was.  (A write that fails leaves its
\* temporary file, which is what a rename that fails leaves too.)
Fail ==
    /\ IOErrors
    /\ Busy
    /\ op' = Idle
    /\ UNCHANGED <<phase, live, next, built, reader, fsVars>>

Close ==
    /\ phase = "up"
    /\ ~Busy
    /\ phase' = "down"
    /\ live' = Empty
    /\ next' = 0
    /\ built' = Empty
    /\ UNCHANGED <<op, reader, fsVars>>

\* Read looks the sequence up under the read lock and reads the file after
\* releasing it.
ReadLookup(s) ==
    /\ phase = "up"
    /\ ~Busy
    /\ reader = NoRead
    /\ live[s] # NoFile
    /\ reader' = [seq |-> s, want |-> live[s]]
    /\ UNCHANGED <<memVars, fsVars>>

ReadFile ==
    /\ reader # NoRead
    /\ reader' = NoRead
    /\ UNCHANGED <<memVars, fsVars>>

-----------------------------------------------------------------------------
(* Crashes.                                                                *)

Forget ==
    /\ phase' = "down"
    /\ live' = Empty
    /\ next' = 0
    /\ built' = Empty
    /\ op' = Idle
    /\ reader' = NoRead

\* The process dies.  Its writes belong to the operating system by then.
Kill ==
    /\ "kill" \in Crashes
    /\ phase # "down"
    /\ Forget
    /\ UNCHANGED fsVars

Settled(f) ==
    IF f.flushed THEN {f}
    ELSE {[bytes |-> b, flushed |-> TRUE] : b \in {f.bytes} \cup Broken}

SettledManifest(m) ==
    IF m.flushed THEN {m}
    ELSE {[m EXCEPT !.flushed = TRUE],
          [NoManifest EXCEPT !.state = "torn"]}

\* The machine loses power.  Every name keeps one of the entries it has had
\* since the directory was last flushed, and a file whose bytes were not
\* flushed may not have them.
PowerCut ==
    /\ "power" \in Crashes
    /\ Forget
    /\ seg' \in [Seqs -> UNION {UNION {Settled(f) : f \in dseg[s]} : s \in Seqs}]
    /\ \A s \in Seqs : \E f \in dseg[s] : seg'[s] \in Settled(f)
    /\ \E m \in dman : man' \in SettledManifest(m)
    /\ tmp' \in SUBSET dtmp
    /\ dseg' = [s \in Seqs |-> {seg'[s]}]
    /\ dman' = {man'}
    /\ dtmp' = tmp'

-----------------------------------------------------------------------------

Next ==
    \/ OpenRead
    \/ \E n \in 0..MaxSeq : SweepTemp(n)
    \/ \E s \in Seqs : SweepSegment(s)
    \/ Check
    \/ SweepFail
    \/ \E b \in Builds : Next_(b)
    \/ \E s \in Seqs, b \in Builds : Rebuild(s, b)
    \/ \E s \in Seqs : Publish(s)
    \/ PublishRename
    \/ PublishSyncDir
    \/ \E S \in SUBSET Seqs : Remove(S)
    \/ ManifestWrite
    \/ ManifestRename
    \/ ManifestSync
    \/ \E s \in Seqs : Unlink(s)
    \/ Fail
    \/ Close
    \/ \E s \in Seqs : ReadLookup(s)
    \/ ReadFile
    \/ Kill
    \/ PowerCut

Spec == Init /\ [][Next]_vars

-----------------------------------------------------------------------------
(* Properties.                                                             *)

(***************************************************************************)
(* Open never refuses a directory this package left behind: whatever the   *)
(* instant of the crash, the manifest on disk is whole and every segment   *)
(* it names is there at its size (check in segdir.go, decodeManifest).     *)
(***************************************************************************)
OpenNeverRefused == phase # "refused"

(***************************************************************************)
(* A segment is served whole or not at all: whenever the directory is      *)
(* open, the file of every live segment holds the bytes it was published   *)
(* with, never half of them and never another segment's.                   *)
(***************************************************************************)
ServedWhole ==
    phase = "up" => \A s \in Published(live) : seg[s].bytes = live[s]

(***************************************************************************)
(* Read looks the live set up under the lock and opens the file after      *)
(* releasing it.  A Remove in between can make the file disappear; nothing *)
(* can put other bytes under the name.                                     *)
(***************************************************************************)
ReadNeverMixed ==
    reader # NoRead => seg[reader.seq].bytes \in {reader.want, NoFile}

(***************************************************************************)
(* A file name is never reused (Dir.Next): a sequence that was in the live *)
(* set once is never handed out again, across removals and crashes.        *)
(***************************************************************************)
NameNeverReused ==
    \A s \in Seqs : [](live[s] # NoFile => [](built[s] = NoFile))

(***************************************************************************)
(* Recovery leaves nothing behind: an open that succeeds leaves the        *)
(* manifest, the live segments and no other file of ours.                  *)
(***************************************************************************)
RecoveryLeavesNothing ==
    [][phase # "up" /\ phase' = "up" =>
         tmp' = {} /\ {s \in Seqs : seg'[s].bytes # NoFile} = Published(live')]_vars

-----------------------------------------------------------------------------
(* The inductive invariant behind the theorems of SegDirProofs.            *)

\* The manifests, and the files of a segment, that a crash may bring back.
Manifests == IF "power" \in Crashes THEN dman ELSE {man}
Segments(s) == IF "power" \in Crashes THEN dseg[s] ELSE {seg[s]}

\* Whatever happens, the file of segment s holds b.
Certain(s, b) == \A f \in Segments(s) : f.bytes = b

\* The settings that survive every crash they are exposed to.
Safe ==
    /\ Rebuilds => ~IOErrors
    /\ \/ "power" \notin Crashes
       \/ "kill" \notin Crashes /\ Sync = "full" /\ ~IOErrors

FilesWhole ==
    /\ man \in Manifests
    /\ \A s \in Seqs : seg[s] \in Segments(s)
    /\ \A s \in Seqs : \A f \in Segments(s) :
         f.bytes \notin Broken /\ ("power" \in Crashes => f.flushed)
    /\ \A m \in Manifests :
         m.state # "torn" /\ ("power" \in Crashes => m.flushed)

\* Every manifest that may come back names only segments that will.
ManifestsCovered ==
    \A m \in Manifests : \A s \in Seqs :
        m.live[s] # NoFile => Certain(s, m.live[s]) /\ s <= m.next

LiveCovered ==
    phase \in {"up", "sweep"} =>
        /\ \A m \in Manifests : m.next <= next
        /\ \A s \in Seqs : live[s] # NoFile =>
             Certain(s, live[s]) /\ \A m \in Manifests : s <= m.next

\* A manifest a failed publish left behind agrees with a second attempt.
BuiltAgrees ==
    \A s \in Seqs : built[s] # NoFile =>
        /\ phase = "up"
        /\ s <= next
        /\ live[s] = NoFile
        /\ \A m \in Manifests : m.live[s] \in {NoFile, built[s]}

PublishStep ==
    op.kind = "publish" =>
        /\ op.seq \in Seqs
        /\ built[op.seq] # NoFile
        /\ op.live = [live EXCEPT ![op.seq] = built[op.seq]]
        /\ op.step # "unlink"
        /\ op.step = "dirsync" => seg[op.seq].bytes = built[op.seq]
        /\ op.step \in {"mwrite", "mrename", "msync"} =>
             Certain(op.seq, built[op.seq])

RemoveStep ==
    op.kind = "remove" =>
        /\ op.step \in {"mwrite", "mrename", "msync", "unlink"}
        /\ \A s \in Seqs : op.live[s] \in {NoFile, live[s]}
        /\ \A s \in op.gone : op.live[s] = NoFile
        /\ op.step = "unlink" =>
             \A s \in op.gone : live[s] = NoFile /\ \A m \in Manifests : m.live[s] = NoFile

OpStep ==
    /\ Busy => phase = "up" /\ op.next = next
    /\ Busy /\ op.step = "msync" => man.live = op.live /\ man.next = op.next
    /\ ~(Busy /\ op.step = "msync") => Manifests = {man}

SweepAgrees == phase = "sweep" => live = man.live /\ next = man.next

\* Where no operation fails, none leaves a manifest that is not the live set.
ManifestAgrees ==
    ~IOErrors /\ phase = "up" /\ ~(Busy /\ op.step = "msync") => live = man.live

ReaderSafe ==
    reader # NoRead =>
        /\ reader.seq \in Seqs
        /\ seg[reader.seq].bytes \in {reader.want, NoFile}
        /\ built[reader.seq] = NoFile
        /\ \A m \in Manifests : reader.seq <= m.next

(***************************************************************************)
(* The inductive invariant: OpenNeverRefused and ServedWhole are not       *)
(* inductive, because they say nothing of the manifests a crash may bring  *)
(* back.  Its heart is ManifestsCovered, which the order of the system     *)
(* calls in Publish, Remove and Open has to preserve.                      *)
(***************************************************************************)
IInv ==
    /\ TypeOK
    /\ OpenNeverRefused
    /\ FilesWhole
    /\ ManifestsCovered
    /\ LiveCovered
    /\ BuiltAgrees
    /\ PublishStep
    /\ RemoveStep
    /\ OpStep
    /\ SweepAgrees
    /\ ManifestAgrees
    /\ ReaderSafe

(***************************************************************************)
(* What an operation promises when it returns, and what a crash may do to  *)
(* one that has not: see SegIndex.  The acknowledged index is the live set *)
(* of an open directory, and the manifest of one that is not open; the     *)
(* indexes in doubt are the other manifests a crash may bring back.        *)
(***************************************************************************)
Acked == IF phase = "up" THEN live ELSE man.live
Promise == INSTANCE SegIndex WITH
    acked <- Acked,
    doubt <- {m.live : m \in Manifests} \ {Acked}
\* The directory implements the promise: no crash or failing call loses what was
\* acknowledged or leaves something else in its place.
KeepsPromise == Promise!Spec

\* What a crash or a failure leaves behind is swept by the next Open, and the name
\* of a segment is never given to other bytes (Open, Next).
CleansUp == RecoveryLeavesNothing /\ NameNeverReused

\* After any power cut the index opens and serves whole segments (Open, Publish).
Recovers == OpenNeverRefused /\ ServedWhole
=============================================================================
