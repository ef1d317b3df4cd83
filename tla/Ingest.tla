------------------------------- MODULE Ingest -------------------------------
(***************************************************************************)
(* The ingestion pipeline: one connector, one tenant, one store, and the   *)
(* checkpoint between two runs.  It models ingest.Pipeline.Run and         *)
(* Pipeline.Reconcile, the schedule cmd/genbad's runFeed puts them on, and *)
(* the crashes and errors that can fall between any two of their writes.   *)
(*                                                                         *)
(* The source is external and is as connector.Connector asks for: it keeps *)
(* a log of the changes it reports, a cursor is a place in the log, and a  *)
(* walk hands the changes over in log order.  A connector reads a document *)
(* when it reaches it, so a change is emitted as the present state of its  *)
(* document under the cursor of its place in the log.                      *)
(*                                                                         *)
(* Data abstraction: a document is its revision (the place in the log of   *)
(* its last content change, 0 when there is no document) and its list.     *)
(***************************************************************************)
EXTENDS Naturals, Sequences, FiniteSets

CONSTANTS
    Docs,         \* document ids
    Acls,         \* access lists that resolve
    Held,         \* acl.ModeUnknown: the list did not resolve, not an element of Acls
    BatchSize,    \* WithBatchSize
    MaxClock,     \* bound: how many changes the source makes
    MaxFaults,    \* bound: how many calls fail, lists do not resolve, processes die
    Checkpoints,  \* "file", "memory" or "none" (a nil Checkpoints)
    HasFetcher,   \* whether the connector implements connector.Fetcher
    ReportsGone,  \* whether the change feed reports deletions
    Repeats       \* whether a walk may meet the same document twice, as a
                  \* paged query over a live source does

ASSUME ConstantsOK ==
    /\ Held \notin Acls
    /\ Acls # {}
    /\ BatchSize \in Nat \ {0}
    /\ MaxClock \in Nat
    /\ MaxFaults \in Nat
    /\ Checkpoints \in {"file", "memory", "none"}
    /\ HasFetcher \in BOOLEAN
    /\ ReportsGone \in BOOLEAN
    /\ Repeats \in BOOLEAN

VARIABLES
    src,      \* what the source holds
    log,      \* the changes the feed reports: which document, and whether only
              \* its access list changed
    store,    \* what the index holds
    saved,    \* the checkpoint, 0 for none
    faults,
    pc,       \* where the feed's goroutine is
    kind,     \* whether it is in Run or in Reconcile
    tail,     \* whether the flush in progress is the last of the run
    failed,   \* whether the walk, or a write of it, returned an error
    pos,      \* the cursor of the last change the walk handed over
    horizon,  \* how much of the log the walk has listed
    pending,  \* run.pending
    puts,     \* run.batch: the last document queued for an id
    dels,     \* run.deletes
    perms,    \* run.perms
    queued,   \* len(batch) + len(deletes) + len(perms)
    items,    \* Reconcile's items: the revision the source listed for an id
    plan,     \* the ids repair still has to see to
    touched   \* documents the source changed since it was enumerated

srcVars == <<src, log>>
walkVars == <<pos, horizon>>
queueVars == <<pending, puts, dels, perms, queued>>
sweepVars == <<items, plan>>
vars == <<src, log, store, saved, faults, pc, kind, tail, failed, pos, horizon,
          pending, puts, dels, perms, queued, items, plan, touched>>

Clock == 0..MaxClock
Doc == [ver: Clock, acl: Acls \cup {Held}]
NoList == CHOOSE a \in Acls : TRUE
Gone == [ver |-> 0, acl |-> NoList]
NoDoc == [d \in Docs |-> Gone]
NoTime == [d \in Docs |-> 0]
\* A member of perms that is no permission change at all.
NoChange == [set |-> FALSE, acl |-> NoList]
NoPerms == [d \in Docs |-> NoChange]
NoPlan == [gone |-> {}, want |-> {}, held |-> {}]

\* Type invariant of the pipeline, its batch and its checkpoint.
TypeOK ==
    /\ src \in [Docs -> [ver: Clock, acl: Acls]]
    /\ log \in Seq([doc: Docs, shared: BOOLEAN])
    /\ Len(log) \in Clock
    /\ store \in [Docs -> Doc]
    /\ saved \in Clock
    /\ faults \in 0..MaxFaults
    /\ pc \in {"down", "idle", "sync", "put", "delete", "perms", "save", "final",
               "synced", "enumerate", "inventory", "repair"}
    /\ kind \in {"run", "sweep"}
    /\ tail \in BOOLEAN
    /\ failed \in BOOLEAN
    /\ pos \in Clock
    /\ horizon \in Clock
    /\ pending \in Clock
    /\ puts \in [Docs -> Doc]
    /\ dels \in SUBSET Docs
    /\ perms \in [Docs -> [set: BOOLEAN, acl: Acls \cup {Held}]]
    /\ queued \in Nat
    /\ items \in [Docs -> Clock]
    /\ plan \in [gone: SUBSET Docs, want: SUBSET Docs, held: SUBSET Docs]
    /\ touched \in SUBSET Docs

Init ==
    /\ src = NoDoc
    /\ log = <<>>
    /\ store = NoDoc
    /\ saved = 0
    /\ faults = 0
    /\ pc = "idle"
    /\ kind = "run"
    /\ tail = FALSE
    /\ failed = FALSE
    /\ pos = 0
    /\ horizon = 0
    /\ pending = 0
    /\ puts = NoDoc
    /\ dels = {}
    /\ perms = NoPerms
    /\ queued = 0
    /\ items = NoTime
    /\ plan = NoPlan
    /\ touched = {}

Holds(f, d) == f[d].ver > 0
Fault == faults < MaxFaults /\ faults' = faults + 1
NoFault == UNCHANGED faults

-----------------------------------------------------------------------------
(* The source.                                                             *)

Moved(d) ==
    /\ touched' = touched \cup {d}
    /\ UNCHANGED <<store, saved, faults, pc, kind, tail, failed, walkVars, queueVars,
                   sweepVars>>

Reported(d, shared) ==
    /\ Len(log) < MaxClock
    /\ log' = Append(log, [doc |-> d, shared |-> shared])
    /\ Moved(d)

SourceWrites(d, a) ==
    /\ src' = [src EXCEPT ![d] = [ver |-> Len(log) + 1, acl |-> a]]
    /\ Reported(d, FALSE)

SourceShares(d, a) ==
    /\ Holds(src, d)
    /\ a # src[d].acl
    /\ src' = [src EXCEPT ![d].acl = a]
    /\ Reported(d, TRUE)

SourceDeletes(d) ==
    /\ Holds(src, d)
    /\ src' = [src EXCEPT ![d] = Gone]
    /\ IF ReportsGone THEN Reported(d, FALSE) ELSE UNCHANGED log /\ Moved(d)

\* What a read of d finds: the document, or the document with a list that did
\* not resolve.
Read(d) == {[ver |-> src[d].ver, acl |-> a] : a \in {src[d].acl, Held}}

-----------------------------------------------------------------------------
(* run: the queue, and flush.                                              *)

EmptyQueue ==
    /\ puts' = NoDoc
    /\ dels' = {}
    /\ perms' = NoPerms
    /\ queued' = 0

NewRun == pending' = 0 /\ EmptyQueue

\* maybeFlush, with n changes in hand and w the place to go on from.
MaybeFlush(n, w) ==
    /\ queued' = n
    /\ pc' = IF n < BatchSize THEN w ELSE "put"
    /\ tail' = FALSE

\* The flush at the end of a run, which flush itself skips when there is nothing
\* in hand; w is where the caller is after a flush with nothing in it.
LastFlush(w) ==
    /\ pc' = IF queued = 0 THEN w ELSE "put"
    /\ tail' = TRUE

\* A flush of Run's that returned an error.  The walk stops and Run flushes what
\* it has in hand once more; the last flush is not tried again.
FlushFailedInRun ==
    /\ kind = "run"
    /\ failed' = TRUE
    /\ tail' = TRUE
    /\ pc' = IF tail \/ queued = 0 THEN "idle" ELSE "put"

\* ... and of repair's, which gives up.
FlushFailedInSweep ==
    /\ kind = "sweep"
    /\ failed' = TRUE
    /\ tail' = tail
    /\ pc' = "idle"

FlushFailed == FlushFailedInRun \/ FlushFailedInSweep

\* Mutant of FlushPut: the checkpoint is written before the documents it covers.
FlushPutSavesFirst ==
    /\ pc = "put"
    /\ saved' = IF Checkpoints = "none" \/ pending = 0 THEN saved ELSE pending
    /\ \/ /\ store' = [d \in Docs |-> IF Holds(puts, d) THEN puts[d] ELSE store[d]]
          /\ pc' = "delete"
          /\ NoFault
          /\ UNCHANGED <<tail, failed>>
       \/ /\ \E d \in Docs : Holds(puts, d)
          /\ Fault
          /\ FlushFailed
          /\ UNCHANGED store
    /\ UNCHANGED <<srcVars, kind, walkVars, queueVars, sweepVars, touched>>

FlushPut ==
    /\ pc = "put"
    /\ \/ /\ store' = [d \in Docs |-> IF Holds(puts, d) THEN puts[d] ELSE store[d]]
          /\ pc' = "delete"
          /\ NoFault
          /\ UNCHANGED <<tail, failed>>
       \/ /\ \E d \in Docs : Holds(puts, d)
          /\ Fault
          /\ FlushFailed
          /\ UNCHANGED store
    /\ UNCHANGED <<srcVars, saved, kind, walkVars, queueVars, sweepVars, touched>>

FlushDelete ==
    /\ pc = "delete"
    /\ \/ /\ store' = [d \in Docs |-> IF d \in dels THEN Gone ELSE store[d]]
          /\ pc' = "perms"
          /\ NoFault
          /\ UNCHANGED <<tail, failed>>
       \/ /\ dels # {}
          /\ Fault
          /\ FlushFailed
          /\ UNCHANGED store
    /\ UNCHANGED <<srcVars, saved, kind, walkVars, queueVars, sweepVars, touched>>

\* SetPermissions rewrites the documents the store holds and no others.
FlushPerms ==
    /\ pc = "perms"
    /\ \/ /\ store' = [d \in Docs |-> IF perms[d].set /\ Holds(store, d)
                                      THEN [store[d] EXCEPT !.acl = perms[d].acl]
                                      ELSE store[d]]
          /\ pc' = "save"
          /\ EmptyQueue
          /\ NoFault
          /\ UNCHANGED <<tail, failed>>
       \/ /\ \E d \in Docs : perms[d].set
          /\ Fault
          /\ FlushFailed
          /\ UNCHANGED <<store, puts, dels, perms, queued>>
    /\ UNCHANGED <<srcVars, saved, kind, walkVars, pending, sweepVars, touched>>

\* saveCursor: nothing without a checkpoint store, nothing for a zero cursor.
SaveCursor(c) == saved' = IF Checkpoints = "none" \/ c = 0 THEN saved ELSE c

AfterFlush ==
    CASE ~tail /\ kind = "run"   -> "sync"
      [] ~tail /\ kind = "sweep" -> "repair"
      [] tail /\ kind = "run"    -> IF failed THEN "idle" ELSE "final"
      [] OTHER                   -> "idle"

FlushSave ==
    /\ pc = "save"
    /\ \/ /\ SaveCursor(pending)
          /\ pc' = AfterFlush
          /\ NoFault
          /\ UNCHANGED <<tail, failed>>
       \/ /\ Checkpoints # "none" /\ pending # 0
          /\ Fault
          /\ FlushFailed
          /\ UNCHANGED saved
    /\ UNCHANGED <<srcVars, store, kind, walkVars, queueVars, sweepVars, touched>>

-----------------------------------------------------------------------------
(* Run.                                                                    *)

StartRun ==
    /\ pc = "idle"
    /\ kind' = "run"
    /\ tail' = FALSE
    /\ failed' = FALSE
    /\ pos' = saved
    /\ horizon' = Len(log)
    /\ NewRun
    /\ pc' = "sync"
    /\ UNCHANGED <<srcVars, store, saved, faults, sweepVars, touched>>

\* The next page of a query over a live source: what has changed meanwhile is
\* on it, documents already handed over among them.
NextPage ==
    /\ Repeats
    /\ pc = "sync"
    /\ horizon' = Len(log)
    /\ UNCHANGED <<srcVars, store, saved, faults, pc, kind, tail, failed, pos,
                   queueVars, sweepVars, touched>>

\* The walk reaches the next change of the log, which is of d.
Due(d) ==
    /\ pc = "sync"
    /\ pos < horizon
    /\ log[pos + 1].doc = d
    /\ pos' = pos + 1
    /\ UNCHANGED <<srcVars, store, saved, kind, horizon, sweepVars, touched>>

\* The cursor a change carries, which may be the zero cursor: the connector has
\* no resume point to offer there, and pending keeps the one before.
MovePending == \E c \in {0, pos + 1} : pending' = IF c = 0 THEN pending ELSE c

EmitDelete(d) ==
    /\ Due(d)
    /\ ~Holds(src, d)
    /\ ReportsGone
    /\ MovePending
    /\ dels' = dels \cup {d}
    /\ MaybeFlush(queued + 1, "sync")
    /\ UNCHANGED <<faults, failed, puts, perms>>

\* The document went away unreported before the walk could read it.
EmitNothing(d) ==
    /\ Due(d)
    /\ ~Holds(src, d)
    /\ ~ReportsGone
    /\ UNCHANGED <<faults, pc, tail, failed, queueVars>>

\* Mutant of EmitDoc: the document is stamped with the time it was read.
EmitDocStampsNow(d) ==
    /\ Due(d)
    /\ Holds(src, d)
    /\ MovePending
    /\ puts' = [puts EXCEPT ![d] = [ver |-> Len(log) + 1, acl |-> src[d].acl]]
    /\ MaybeFlush(queued + 1, "sync")
    /\ UNCHANGED <<faults, failed, dels, perms>>

EmitDoc(d) ==
    /\ Due(d)
    /\ Holds(src, d)
    /\ MovePending
    /\ \E r \in Read(d) :
          /\ IF r.acl = Held THEN Fault ELSE NoFault
          /\ puts' = [puts EXCEPT ![d] = r]
    /\ MaybeFlush(queued + 1, "sync")
    /\ UNCHANGED <<failed, dels, perms>>

\* PermissionsOnly, which a connector may use for a change that was only that.
\* Every store of the repository is a store.Maintenance and takes it.
EmitPerms(d) ==
    /\ Due(d)
    /\ Holds(src, d)
    /\ log[pos + 1].shared
    /\ MovePending
    /\ \E r \in Read(d) :
          /\ IF r.acl = Held THEN Fault ELSE NoFault
          /\ perms' = [perms EXCEPT ![d] = [set |-> TRUE, acl |-> r.acl]]
    /\ MaybeFlush(IF perms[d].set THEN queued ELSE queued + 1, "sync")
    /\ UNCHANGED <<failed, puts, dels>>

\* A change with no id is skipped, and its cursor counts.
EmitNoID ==
    /\ pc = "sync"
    /\ pos # 0
    /\ pending' = pos
    /\ UNCHANGED <<srcVars, store, saved, faults, pc, kind, tail, failed, walkVars,
                   puts, dels, perms, queued, sweepVars, touched>>

SyncFails ==
    /\ pc = "sync"
    /\ Fault
    /\ failed' = TRUE
    /\ LastFlush("idle")
    /\ UNCHANGED <<srcVars, store, saved, kind, walkVars, queueVars, sweepVars, touched>>

SyncDone ==
    /\ pc = "sync"
    /\ pos = horizon
    /\ LastFlush("final")
    /\ UNCHANGED <<srcVars, store, saved, faults, kind, failed, walkVars, queueVars,
                   sweepVars, touched>>

\* The connector's own end of walk cursor: none, or the end of what it listed.
FinalCursor ==
    /\ pc = "final"
    /\ \/ /\ \E c \in {0, horizon} : SaveCursor(c)
          /\ pc' = "synced"
          /\ NoFault
          /\ UNCHANGED failed
       \/ /\ Checkpoints # "none"
          /\ Fault
          /\ failed' = TRUE
          /\ pc' = "idle"
          /\ UNCHANGED saved
    /\ UNCHANGED <<srcVars, store, kind, tail, walkVars, queueVars, sweepVars, touched>>

-----------------------------------------------------------------------------
(* Reconcile, which the feed runs after a sync once its interval is up.    *)

SkipSweep ==
    /\ pc = "synced"
    /\ pc' = "idle"
    /\ UNCHANGED <<srcVars, store, saved, faults, kind, tail, failed, walkVars, queueVars,
                   sweepVars, touched>>

StartSweep ==
    /\ pc = "synced"
    /\ kind' = "sweep"
    /\ tail' = FALSE
    /\ failed' = FALSE
    /\ NewRun
    /\ pc' = "enumerate"
    /\ UNCHANGED <<srcVars, store, saved, faults, walkVars, sweepVars, touched>>

\* Mutant of Enumerate: a walk that stopped early is taken for a whole one.
EnumeratePart ==
    /\ pc = "enumerate"
    /\ \E seen \in SUBSET Docs : items' = [d \in Docs |-> IF d \in seen THEN src[d].ver ELSE 0]
    /\ touched' = {}
    /\ pc' = "inventory"
    /\ UNCHANGED <<srcVars, store, saved, faults, kind, tail, failed, walkVars, queueVars, plan>>

Enumerate ==
    /\ pc = "enumerate"
    /\ \/ /\ items' = [d \in Docs |-> src[d].ver]
          /\ touched' = {}
          /\ pc' = "inventory"
          /\ NoFault
          /\ UNCHANGED failed
       \/ /\ Fault
          /\ failed' = TRUE
          /\ pc' = "idle"
          /\ UNCHANGED <<items, touched>>
    /\ UNCHANGED <<srcVars, store, saved, kind, tail, walkVars, queueVars, plan>>

\* Mutant of Inventory: documents held back are taken to be in order.
InventoryNoHeld ==
    /\ pc = "inventory"
    /\ plan' = LET indexed == {d \in Docs : Holds(store, d)}
                   listed == {d \in Docs : items[d] # 0}
               IN [gone |-> indexed \ listed,
                   want |-> {d \in listed : items[d] # store[d].ver},
                   held |-> {}]
    /\ pc' = "repair"
    /\ UNCHANGED <<srcVars, store, saved, faults, kind, tail, failed, walkVars, queueVars,
                   items, touched>>

Inventory ==
    /\ pc = "inventory"
    /\ \/ /\ plan' = LET indexed == {d \in Docs : Holds(store, d)}
                         listed == {d \in Docs : items[d] # 0}
                         stale == {d \in indexed \cap listed : items[d] # store[d].ver}
                     IN [gone |-> indexed \ listed,
                         want |-> (listed \ indexed) \cup stale,
                         held |-> {d \in (indexed \cap listed) \ stale : store[d].acl = Held}]
          /\ pc' = "repair"
          /\ NoFault
          /\ UNCHANGED failed
       \/ /\ Fault
          /\ failed' = TRUE
          /\ pc' = "idle"
          /\ UNCHANGED plan
    /\ UNCHANGED <<srcVars, store, saved, kind, tail, walkVars, queueVars, items, touched>>

RepairGone(d) ==
    /\ pc = "repair"
    /\ d \in plan.gone
    /\ plan' = [plan EXCEPT !.gone = @ \ {d}]
    /\ dels' = dels \cup {d}
    /\ MaybeFlush(queued + 1, "repair")
    /\ UNCHANGED <<srcVars, store, saved, faults, kind, failed, walkVars, pending, puts,
                   perms, items, touched>>

\* refetch, of the missing and the stale first and of the held ones after them.
Refetch(d) ==
    /\ pc = "repair"
    /\ HasFetcher
    /\ plan.gone = {}
    /\ \/ d \in plan.want
       \/ plan.want = {} /\ d \in plan.held
    /\ UNCHANGED <<srcVars, store, saved, kind, walkVars, pending, perms, items, touched>>

Refetched(d) == plan' = [plan EXCEPT !.want = @ \ {d}, !.held = @ \ {d}]

RefetchDoc(d) ==
    /\ Refetch(d)
    /\ Holds(src, d)
    /\ Refetched(d)
    /\ \E r \in Read(d) :
          /\ IF r.acl = Held THEN Fault ELSE NoFault
          /\ puts' = [puts EXCEPT ![d] = r]
    /\ MaybeFlush(queued + 1, "repair")
    /\ UNCHANGED <<failed, dels>>

\* ErrGone.
RefetchGone(d) ==
    /\ Refetch(d)
    /\ ~Holds(src, d)
    /\ Refetched(d)
    /\ dels' = dels \cup {d}
    /\ MaybeFlush(queued + 1, "repair")
    /\ UNCHANGED <<faults, failed, puts>>

\* Any other error of Fetch: repair returns it, and what it had in hand is not
\* written.
RefetchFails(d) ==
    /\ Refetch(d)
    /\ Fault
    /\ failed' = TRUE
    /\ pc' = "idle"
    /\ UNCHANGED <<tail, queued, puts, dels, plan>>

RepairDone ==
    /\ pc = "repair"
    /\ plan.gone = {}
    /\ HasFetcher => plan.want = {} /\ plan.held = {}
    /\ LastFlush("idle")
    /\ UNCHANGED <<srcVars, store, saved, faults, kind, failed, walkVars, queueVars,
                   sweepVars, touched>>

-----------------------------------------------------------------------------
(* The process dies and comes back.  The store is on disk.                 *)

Crash ==
    /\ pc # "down"
    /\ Fault
    /\ pc' = "down"
    /\ failed' = TRUE
    /\ saved' = IF Checkpoints = "file" THEN saved ELSE 0
    /\ UNCHANGED <<srcVars, store, kind, tail, walkVars, queueVars, sweepVars, touched>>

Restart ==
    /\ pc = "down"
    /\ pc' = "idle"
    /\ UNCHANGED <<srcVars, store, saved, faults, kind, tail, failed, walkVars, queueVars,
                   sweepVars, touched>>

Source == \E d \in Docs :
    \/ \E a \in Acls : SourceWrites(d, a) \/ SourceShares(d, a)
    \/ SourceDeletes(d)

Emit == \E d \in Docs :
    EmitDelete(d) \/ EmitNothing(d) \/ EmitDoc(d) \/ EmitPerms(d)

Flush == FlushPut \/ FlushDelete \/ FlushPerms \/ FlushSave

Repair == \E d \in Docs :
    RepairGone(d) \/ RefetchDoc(d) \/ RefetchGone(d) \/ RefetchFails(d)

Next ==
    \/ Source
    \/ StartRun \/ NextPage \/ Emit \/ EmitNoID \/ SyncFails \/ SyncDone \/ FinalCursor
    \/ Flush
    \/ SkipSweep \/ StartSweep \/ Enumerate \/ Inventory \/ Repair \/ RepairDone
    \/ Crash \/ Restart

Spec == Init /\ [][Next]_vars

(* The goroutine of a feed keeps going: its ticker fires, a walk ends, and the  *)
(* sweep's interval is up again and again.  Faults are bounded, so a system that *)
(* has stopped failing is what the liveness property is about.                   *)
Feed == \/ StartRun \/ Emit \/ SyncDone \/ FinalCursor \/ Flush \/ SkipSweep
        \/ Enumerate \/ Inventory \/ Repair \/ RepairDone \/ Restart

FairSpec == Spec /\ WF_vars(Feed) /\ SF_vars(StartSweep)

-----------------------------------------------------------------------------
(* Correctness.                                                            *)

\* No change of d is reported after c.
Settled(d, c) == \A t \in (c + 1)..Len(log) : log[t].doc # d

\* The index holds d as the source does, or holds it back because its list did
\* not resolve when it was read.
Agrees(d) ==
    \/ store[d] = src[d]
    \/ Holds(src, d) /\ store[d] = [ver |-> src[d].ver, acl |-> Held]

\* ingest.go flush: a checkpoint is written only after what it covers is stored.
\* Every document whose last reported change is at or before the checkpoint is
\* in the index exactly as the source has it: its content, its access list, or
\* its absence.  A run resumed from the checkpoint never looks at it again.
CheckpointCovers ==
    \A d \in Docs : Settled(d, saved) /\ (ReportsGone \/ Holds(src, d)) => Agrees(d)

\* Reconcile: a document leaves the index only when the source has dropped it,
\* or has touched it since it was last enumerated, whatever became of the
\* checkpoint.  It is what a partial enumeration acted upon would break.
RemovedOnlyIfGone ==
    [][\A d \in Docs : Holds(store, d) /\ ~Holds(store, d)' =>
                           ~Holds(src, d) \/ d \in touched]_vars

SweepEnds == kind = "sweep" /\ pc # "idle" /\ pc' = "idle" /\ ~failed'

\* Reconcile: when a sweep that can fetch returns without an error, every
\* document the source left alone since it was enumerated is in the index at the
\* source's revision, or gone from both, whatever the change feed missed.
SweepRepairs ==
    [][SweepEnds /\ HasFetcher =>
           \A d \in Docs \ touched' : store'[d].ver = src'[d].ver]_vars

\* runFeed: once the source is quiet and calls stop failing, syncs and sweeps
\* bring the index to the source and keep it there; a document held back because
\* its list did not resolve is released.
Converges == <>[](store = src)

\* A sweep deletes nothing that is still there and leaves everything it went over
\* at the revision the source has (Reconcile, repair).
SweepIsSafe == RemovedOnlyIfGone /\ SweepRepairs
=============================================================================
