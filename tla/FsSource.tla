------------------------------ MODULE FsSource ------------------------------
(***************************************************************************)
(* The filesystem connector: a directory tree people work in, the watcher  *)
(* that records what the operating system says changed in it, and the sync *)
(* that reads the recorded paths, or walks the tree when the record cannot *)
(* be trusted, and hands back a modification time as its cursor.           *)
(*                                                                         *)
(* People, the watcher's collect goroutine and the sync interleave.  A     *)
(* sync is one step per stat and one per read, because the tree moves      *)
(* between the two.  The pipeline behind emit is one that flushes after    *)
(* every change (Ingest has the batches): a change is stored and its       *)
(* cursor saved in the step that emits it.                                 *)
(*                                                                         *)
(* Data abstraction.  Files are numbered in path order.  A file is the     *)
(* number of the edit that last wrote it and its times; a clock tick is    *)
(* the second a modification time is kept to, which is also settled; 0 is  *)
(* the zero time, and the clock starts where a second ago is not.          *)
(* lostAt is only ever compared with the generation the walk in progress   *)
(* was given, so stale says whether the two differ.  Files that are not    *)
(* in the corpus, or cannot be read, are left out.                         *)
(***************************************************************************)
EXTENDS Naturals, FiniteSets

CONSTANTS
    Files,      \* 1..n, the paths of the corpus in path order
    InDir,      \* the ones in a directory that is created while running
    Rule,       \* the path of the OWNERS file
    Dir,        \* the path of that directory
    None,       \* no file, no document, nothing cached
    MaxPending, \* WithMaxPending
    MaxQueue,   \* bound: events the backend holds before it overflows
    MaxTime,    \* bound: ticks of the clock
    MaxEdits,   \* bound: edits people make
    MaxFails,   \* bound: syncs that fail and processes that die
    Faults      \* "interrupt": a sync may fail at any point;
                \* "late": an event may take longer than a tick;
                \* "unwatched": a watch on a new directory may be refused

ASSUME ConstantsOK ==
    /\ Cardinality(Files) \in Nat /\ Files = 1..Cardinality(Files)
    /\ InDir \subseteq Files
    /\ Rule \notin Files /\ Dir \notin Files \cup {Rule}
    /\ {MaxPending, MaxQueue, MaxTime, MaxEdits, MaxFails} \subseteq Nat
    /\ MaxTime >= 2
    /\ Faults \subseteq {"interrupt", "late", "unwatched"}

VARIABLES
    now, edits, fails, \* the clock and the two counts the bounds are on
    policy,   \* what the permissions come from: "owners" or "mode"
    tree,     \* the files
    rule,     \* the OWNERS file
    dir,      \* the directory: "absent", "unwatched" or "watched"
    index,    \* the stored documents
    saved,    \* the saved cursor, 0 for none
    watching, \* whether Watch succeeded
    events,   \* what the backend holds
    overflow, \* whether its queue overflowed
    naming,   \* what recordTree has still to mark
    seen,     \* Watcher.seen
    lost,     \* Watcher.lost # nil
    stale,    \* Watcher.lostAt # the generation the last sync was given
    sync      \* the sync in progress

worldVars == <<now, edits, policy, tree, rule>>
backVars  == <<watching, events, overflow, dir>>
recVars   == <<naming, seen, lost, stale>>
vars == <<worldVars, fails, backVars, recVars, index, saved, sync>>

Paths == Files \cup {Rule}
Ops == {"write", "remove", "chmod"}
Times == 0..MaxTime
Edits == 0..MaxEdits
File == [ver: Edits, mod: Times, mode: Edits, chg: Times]
RuleFile == [ver: Edits, at: Times]
Idle == [pc |-> "idle"]
N == Cardinality(Files)

UnderWay ==
    [pc: {"stat", "read"}, kind: {"walk", "watched"}, since: Times, started: Times,
     highest: Times, pos: 1..(N + 1), todo: SUBSET Files, quick: SUBSET Files,
     rule: RuleFile \cup {None}, info: File \cup {None}]
Sync == {Idle} \cup UnderWay

ASSUME NoneIsNothing == None \notin File \cup RuleFile \cup [ver: Edits, perm: Edits]

\* Type invariant of the tree, the record and the sync.
TypeOK ==
    /\ now \in Times /\ edits \in Edits /\ fails \in 0..MaxFails
    /\ policy \in {"owners", "mode"}
    /\ tree \in [Files -> File \cup {None}]
    /\ rule \in RuleFile
    /\ dir \in {"absent", "unwatched", "watched"}
    /\ index \in [Files -> [ver: Edits, perm: Edits] \cup {None}]
    /\ saved \in Times
    /\ {watching, overflow, lost, stale} \subseteq BOOLEAN
    /\ events \subseteq [path: Paths \cup {Dir}, op: Ops]
    /\ naming \subseteq InDir
    /\ seen \in [Paths -> SUBSET Ops]
    /\ sync \in Sync

NoRecord == [p \in Paths |-> {}]
Later(s, t) == IF s < t THEN t ELSE s

-----------------------------------------------------------------------------
(* The backend, and the people whose work it reports.                      *)

Heard(p) == watching /\ (p \in InDir => dir = "watched")

\* An event is queued, or the queue is full and says so.  The event of a new
\* directory always finds room: one that did not is a watch refused.
Raise(p, op) ==
    LET e == [path |-> p, op |-> op]
        room == e \in events \/ Cardinality(events) < MaxQueue \/ p = Dir
    IN /\ events' = IF Heard(p) /\ room THEN events \cup {e} ELSE events
       /\ overflow' = (overflow \/ (Heard(p) /\ ~room))

Edit(p, op) ==
    /\ edits < MaxEdits
    /\ edits' = edits + 1
    /\ Raise(p, op)
    /\ UNCHANGED <<now, policy, fails, watching, recVars, index, saved, sync>>

Write(f) ==
    /\ f \in InDir => dir # "absent"
    /\ Edit(f, "write")
    /\ tree' = [tree EXCEPT ![f] = [ver |-> edits + 1, mod |-> now, chg |-> now,
                                    mode |-> IF @ = None THEN 0 ELSE @.mode]]
    /\ UNCHANGED <<rule, dir>>

Chmod(f) ==
    /\ policy = "mode"
    /\ tree[f] # None
    /\ Edit(f, "chmod")
    /\ tree' = [tree EXCEPT ![f].mode = edits + 1, ![f].chg = now]
    /\ UNCHANGED <<rule, dir>>

Delete(f) ==
    /\ tree[f] # None
    /\ Edit(f, "remove")
    /\ tree' = [tree EXCEPT ![f] = None]
    /\ UNCHANGED <<rule, dir>>

EditRule ==
    /\ policy = "owners"
    /\ Edit(Rule, "write")
    /\ rule' = [ver |-> edits + 1, at |-> now]
    /\ UNCHANGED <<tree, dir>>

Mkdir ==
    /\ InDir # {}
    /\ dir = "absent"
    /\ Edit(Dir, "write")
    /\ dir' = "unwatched"
    /\ UNCHANGED <<tree, rule>>

\* Time passes.  The backend is prompt: what happened in one tick has been
\* recorded before the next is over.
Tick ==
    /\ now < MaxTime
    /\ "late" \in Faults \/ (events = {} /\ ~overflow /\ naming = {})
    /\ now' = now + 1
    /\ UNCHANGED <<edits, policy, tree, rule, fails, backVars, recVars, index, saved, sync>>

-----------------------------------------------------------------------------
(* The watcher.                                                            *)

LoseLocked ==
    /\ lost' = TRUE
    /\ seen' = NoRecord
    /\ stale' = TRUE

\* mark goes on recording while the record is untrusted.
Mark(p, op) ==
    IF seen[p] = {} /\ Cardinality({q \in Paths : seen[q] # {}}) >= MaxPending
    THEN LoseLocked
    ELSE /\ seen' = [seen EXCEPT ![p] = @ \cup {op}]
         /\ UNCHANGED <<lost, stale>>

Collect ==
    /\ naming = {}
    /\ UNCHANGED <<worldVars, fails, watching, index, saved, sync>>

Record(e) ==
    /\ Collect
    /\ e \in events /\ e.path # Dir
    /\ events' = events \ {e}
    /\ Mark(e.path, e.op)
    /\ UNCHANGED <<overflow, dir, naming>>

\* Mutant of RecordDir: a new directory is watched and not walked.
RecordDirOnly(e) ==
    /\ Collect
    /\ e \in events /\ e.path = Dir
    /\ events' = events \ {e}
    /\ dir' = "watched"
    /\ UNCHANGED <<overflow, recVars>>

\* A new directory: watchTree, and then recordTree.  add may refuse it, over the
\* limit or because the backend will not.
RecordDir(e) ==
    /\ Collect
    /\ e \in events /\ e.path = Dir
    /\ events' = events \ {e}
    /\ \E added \in {TRUE} \cup {"unwatched" \notin Faults} :
          IF added THEN /\ dir' = "watched"
                        /\ naming' = InDir
                        /\ UNCHANGED <<seen, lost, stale>>
          ELSE LoseLocked /\ UNCHANGED <<dir, naming>>
    /\ UNCHANGED overflow

RecordTree(f) ==
    /\ f \in naming
    /\ naming' = naming \ {f}
    /\ IF tree[f] = None THEN UNCHANGED <<seen, lost, stale>> ELSE Mark(f, "write")
    /\ UNCHANGED <<worldVars, fails, backVars, index, saved, sync>>

CollectError ==
    /\ Collect
    /\ overflow
    /\ overflow' = FALSE
    /\ LoseLocked
    /\ UNCHANGED <<events, dir, naming>>

Collecting ==
    \/ \E e \in events : Record(e) \/ RecordDir(e)
    \/ \E f \in InDir : RecordTree(f)
    \/ CollectError

-----------------------------------------------------------------------------
(* A sync.                                                                 *)

Begin(kind, todo, quick) ==
    sync' = [pc |-> "stat", kind |-> kind, since |-> saved, started |-> now,
             highest |-> IF kind = "walk" THEN 0 ELSE saved, pos |-> 1,
             todo |-> todo, quick |-> quick, rule |-> None, info |-> None]

Syncing == UNCHANGED <<worldVars, fails, backVars, naming>>

\* pending found no record to trust, or there is no watcher.  What a directory
\* listing names is read when the walk reaches the directory; todo is what is
\* sure to be in it.
StartWalk ==
    /\ sync = Idle
    /\ ~watching \/ lost
    /\ Begin("walk", {f \in Files : tree[f] # None}, {})
    /\ seen' = NoRecord
    /\ stale' = FALSE
    /\ Syncing /\ UNCHANGED <<lost, index, saved>>

\* watched: a rule changed, so the record is thrown away and the tree walked.
StartRuled ==
    /\ sync = Idle
    /\ watching /\ ~lost
    /\ policy = "owners" /\ seen[Rule] # {}
    /\ Begin("walk", {f \in Files : tree[f] # None}, {})
    /\ seen' = NoRecord
    /\ lost' = TRUE
    /\ stale' = FALSE
    /\ Syncing /\ UNCHANGED <<index, saved>>

StartWatched ==
    /\ sync = Idle
    /\ watching /\ ~lost
    /\ policy = "owners" => seen[Rule] = {}
    /\ Begin("watched", {f \in Files : seen[f] # {}}, {f \in Files : seen[f] = {"chmod"}})
    /\ seen' = NoRecord
    /\ stale' = FALSE
    /\ Syncing /\ UNCHANGED <<lost, index, saved>>

At == sync.pos
Cached == IF sync.rule = None THEN rule ELSE sync.rule
ChangedAt(info) == IF policy = "owners" THEN Cached.at ELSE info.chg
Permissions(info) == IF policy = "owners" THEN Cached.ver ELSE info.mode

Passed == sync' = [sync EXCEPT !.pos = @ + 1, !.pc = "stat", !.info = None]
Looking ==
    /\ sync.pc = "stat" /\ At <= N
    /\ Syncing /\ UNCHANGED <<seen, lost, stale, saved>>

\* A permission change is emitted with no cursor, and a store that does not hold
\* the document ignores it.
EmitPermissions(f) ==
    index' = IF index[f] = None THEN index
             ELSE [index EXCEPT ![f].perm = Permissions(tree[f])]

\* A path that is not in the record, or a file that was not in the listing.
NotListed ==
    /\ Looking
    /\ At \notin sync.todo
    /\ Passed
    /\ UNCHANGED index

\* A watched path that is not there is a deletion; a walk just does not see it.
Gone ==
    /\ Looking
    /\ At \in sync.todo
    /\ tree[At] = None
    /\ index' = IF sync.kind = "watched" THEN [index EXCEPT ![At] = None] ELSE index
    /\ Passed

\* The event was a mode change and nothing else.
Quick ==
    /\ Looking
    /\ At \in sync.quick
    /\ tree[At] # None
    /\ EmitPermissions(At)
    /\ sync' = [sync EXCEPT !.pos = @ + 1, !.rule = Cached]

\* refresh: a walk meets a file that is not newer than the cursor.
Refresh ==
    LET at == ChangedAt(tree[At])
    IN /\ Looking
       /\ sync.kind = "walk"
       /\ tree[At] # None
       /\ sync.since # 0 /\ tree[At].mod <= sync.since
       /\ IF at > sync.since THEN EmitPermissions(At) ELSE UNCHANGED index
       /\ sync' = [sync EXCEPT !.pos = @ + 1, !.rule = Cached,
                               !.highest = Later(Later(@, tree[At].mod), at)]

\* The file is to be read: what the stat said is kept, and the file may change.
Stat ==
    /\ Looking
    /\ tree[At] # None
    /\ IF sync.kind = "walk"
       THEN sync.since = 0 \/ tree[At].mod > sync.since
       ELSE At \in sync.todo \ sync.quick
    /\ sync' = [sync EXCEPT !.pc = "read", !.info = tree[At], !.rule = Cached,
                !.highest = Later(Later(@, tree[At].mod), ChangedAt(tree[At]))]
    /\ UNCHANGED index

\* read, and emit with the modification time as the cursor.  A file that is gone
\* by now is skipped.
Read ==
    /\ sync.pc = "read"
    /\ IF tree[At] = None THEN UNCHANGED <<index, saved>>
       ELSE /\ index' = [index EXCEPT ![At] = [ver |-> tree[At].ver,
                                               perm |-> Permissions(sync.info)]]
            /\ saved' = sync.info.mod
    /\ Passed
    /\ Syncing /\ UNCHANGED <<seen, lost, stale>>

\* Mutant of Covered: the newest time seen, however fresh.
CoveredNewest(highest, started, since) == Later(highest, since)

\* covered: no later than one settled before the sync started, no earlier than
\* the cursor it was given.
Covered(highest, started, since) ==
    Later(IF started - 1 < highest THEN started - 1 ELSE highest, since)

\* Mutant of CaughtUp: a walk makes the record trustworthy whatever happened.
CaughtUpAnyway == lost' = (lost /\ sync.kind = "watched")

\* caughtUp: the walk counts unless the record was thrown away meanwhile.
CaughtUp == lost' = (lost /\ (sync.kind = "watched" \/ stale))

\* The end of a sync.  One that saw no file hands back the cursor it was given.
Finish ==
    /\ sync.pc = "stat" /\ At = N + 1
    /\ CaughtUp
    /\ saved' = IF sync.highest = 0 THEN sync.since
                ELSE Covered(sync.highest, sync.started, sync.since)
    /\ sync' = Idle
    /\ Syncing /\ UNCHANGED <<index, seen, stale>>

Step == NotListed \/ Gone \/ Quick \/ Refresh \/ Stat \/ Read \/ Finish

\* A walk fails: its context is done, or a write is refused.  Unless "interrupt"
\* is a fault, only one that has saved no cursor does.
FailSync ==
    /\ sync # Idle
    /\ "interrupt" \in Faults \/ (sync.kind = "walk" /\ saved = sync.since)
    /\ fails < MaxFails
    /\ fails' = fails + 1
    /\ sync' = Idle
    /\ UNCHANGED <<worldVars, backVars, recVars, index, saved>>

\* A new process, between two syncs: the tree is watched afresh, or cannot be.
Restart(ok) ==
    /\ sync = Idle
    /\ fails < MaxFails
    /\ fails' = fails + 1
    /\ watching' = ok
    /\ events' = {}
    /\ overflow' = FALSE
    /\ dir' = IF dir = "absent" THEN dir ELSE IF ok THEN "watched" ELSE "unwatched"
    /\ naming' = {}
    /\ seen' = NoRecord
    /\ lost' = TRUE
    /\ stale' = FALSE
    /\ UNCHANGED <<worldVars, index, saved, sync>>

-----------------------------------------------------------------------------

Init ==
    /\ now = 2 /\ edits = 0 /\ fails = 0
    /\ policy \in {"owners", "mode"}
    /\ tree = [f \in Files |-> None]
    /\ rule = [ver |-> 0, at |-> 0]
    /\ dir = "absent"
    /\ index = [f \in Files |-> None]
    /\ saved = 0
    /\ watching \in BOOLEAN
    /\ events = {} /\ overflow = FALSE /\ naming = {}
    /\ seen = NoRecord
    /\ lost = TRUE /\ stale = FALSE
    /\ sync = Idle

Next ==
    \/ \E f \in Files : Write(f) \/ Chmod(f) \/ Delete(f)
    \/ EditRule \/ Mkdir \/ Tick
    \/ Collecting
    \/ StartWalk \/ StartRuled \/ StartWatched \/ Step
    \/ FailSync
    \/ \E ok \in BOOLEAN : Restart(ok)

Spec == Init /\ [][Next]_vars

(* The collect goroutine runs, the refresh loop syncs again and a sync gets  *)
(* on with its steps.  Failures are finitely many by their bound.            *)
FairSpec == Spec /\ WF_vars(Collecting) /\ WF_vars(StartWalk \/ StartRuled \/ StartWatched \/ Step)

-----------------------------------------------------------------------------
(* Correctness.                                                            *)

Perm(f) == IF policy = "owners" THEN rule.ver ELSE tree[f].mode
PermAt(f) == IF policy = "owners" THEN rule.at ELSE tree[f].chg
Read_(f) == index[f] # None /\ index[f].ver = tree[f].ver
Governed(f) == index[f] # None /\ index[f].perm = Perm(f)

\* settled: "a cursor says that everything modified at or before that time has
\* been read".  Between two syncs, every file as old as the saved cursor is in
\* the index as it is in the tree.
CursorHonest ==
    sync = Idle => \A f \in Files : tree[f] # None /\ tree[f].mod <= saved => Read_(f)

\* What a watched sync, now or after the events in flight, will look at.
OnRecord(f) ==
    \/ overflow
    \/ \E e \in events : e.path = f \/ e.path = Rule \/ (e.path = Dir /\ f \in InDir)
    \/ f \in naming
    \/ seen[Rule] # {}
    \/ seen[f] # {} /\ (seen[f] = {"chmod"} => Read_(f))

\* What a walk from the saved cursor will emit.
InWalk(f) == saved = 0 \/ tree[f].mod > saved \/ (Read_(f) /\ PermAt(f) > saved)

\* The watcher: a file the index does not have as it is in the tree is one the
\* record, or a walk that is going to happen, names.  Nothing is left behind
\* until somebody writes to it again.
NothingForgotten ==
    sync = Idle =>
        \A f \in Files : tree[f] # None /\ ~(Read_(f) /\ Governed(f)) =>
            IF watching /\ ~lost THEN OnRecord(f) ELSE InWalk(f)

\* "The failure mode is a slow sync": once people stop, the index has every file
\* as it is in the tree.
CatchesUp == <>[](\A f \in Files : tree[f] # None => Read_(f) /\ Governed(f))

\* A deletion on a trusted record leaves the index, which no walk can do.
DeletionsLeave ==
    \A f \in Files :
        (~lost /\ seen[f] # {} /\ tree[f] = None) ~> (index[f] = None \/ tree[f] # None \/ lost)

\* Once people leave the tree alone, the index becomes the tree, deletions
\* included (Sync, pending, caughtUp).
IndexFollows == CatchesUp /\ DeletionsLeave
=============================================================================
