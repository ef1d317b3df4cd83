---------------------------- MODULE IngestProofs ----------------------------
(***************************************************************************)
(* Proofs about Ingest, for every set of documents and access lists, every *)
(* batch size and every number of changes and failures.                    *)
(*                                                                         *)
(* The checkpoint covers what is stored (IInv) because three places in the *)
(* log bound each other, saved <= horizon <= Len(log) and pending <= pos,  *)
(* and because of what the index would be with the queue applied (Result): *)
(* it has every change up to pos.  A sweep is safe (SInv) because what it  *)
(* has planned and queued is true of every document the source has left    *)
(* alone since it was enumerated.                                          *)
(***************************************************************************)
EXTENDS Ingest, SequenceTheorems, TLAPS

InFlush == pc \in {"put", "delete", "perms", "save"}
NoQueue == puts = NoDoc /\ dels = {} /\ perms = NoPerms

\* Where the goroutine can be, and what it has in hand there.
Control ==
    /\ pc \in {"sync", "final", "synced"} => kind = "run"
    /\ pc \in {"enumerate", "inventory", "repair"} => kind = "sweep"
    /\ pc \in {"sync", "final"} => ~failed
    /\ kind = "run" /\ InFlush /\ failed => tail
    /\ pc = "down" => failed
    /\ queued = 0 => NoQueue
    /\ pc \in {"save", "final", "enumerate", "inventory"} => queued = 0
    /\ kind = "sweep" => pending = 0 /\ perms = NoPerms

\* A document that is not there is Gone, list and all.
SourceIsGone == \A d \in Docs : ~Holds(src, d) => src[d] = Gone

\* What the index holds once the queue has been written to it.
WithPerms(d, x) ==
    IF perms[d].set /\ x.ver > 0 THEN [x EXCEPT !.acl = perms[d].acl] ELSE x
WithPuts(d) == IF Holds(puts, d) THEN puts[d] ELSE store[d]
WithDels(d) == IF d \in dels THEN Gone ELSE WithPuts(d)
Result(d) == WithPerms(d, WithDels(d))

\* How much of the queue has been written, at each stage of flush.
Flushing ==
    /\ pc = "delete" => \A d \in Docs : store[d] = WithPuts(d)
    /\ pc = "perms" => \A d \in Docs : store[d] = WithDels(d)

-----------------------------------------------------------------------------
(* What the checkpoint covers.                                             *)

\* No content change of d is reported after c.
ContentSettled(d, c) == \A t \in (c + 1)..Len(log) : log[t].doc = d => log[t].shared

Wanted(d) == ReportsGone \/ Holds(src, d)
Matches(x, d) == x = src[d] \/ (Holds(src, d) /\ x = [ver |-> src[d].ver, acl |-> Held])

\* x is what an index that has every change of d up to c may hold.
Covers(x, d, c) ==
    Wanted(d) => /\ ContentSettled(d, c) => x.ver = src[d].ver
                 /\ Settled(d, c) => Matches(x, d)

Places ==
    /\ saved <= horizon
    /\ horizon <= Len(log)
    /\ pos <= horizon
    /\ kind = "run" => pending <= pos
    /\ kind = "run" /\ (pc = "final" \/ (InFlush /\ tail /\ ~failed)) => pos = horizon

\* What is queued or planned for a document is true of it as long as nothing
\* has been reported of it since the walk listed the log.
QueueIsTrue ==
    \A d \in Docs :
        /\ Holds(puts, d) => Covers(puts[d], d, horizon)
        /\ d \in dels /\ ContentSettled(d, horizon) => ~Holds(src, d)
        /\ perms[d].set /\ Settled(d, horizon) /\ Wanted(d) => perms[d].acl \in {src[d].acl, Held}

PlanIsTrue ==
    \A d \in Docs : ContentSettled(d, horizon) =>
        /\ pc = "inventory" /\ items[d] = 0 => ~Holds(src, d)
        /\ kind = "sweep" /\ (pc = "repair" \/ InFlush) /\ d \in plan.gone => ~Holds(src, d)

StoreCovers == \A d \in Docs : Covers(store[d], d, saved)

WalkCovers ==
    kind = "run" /\ (pc \in {"sync", "final"} \/ InFlush) =>
        \A d \in Docs : Covers(Result(d), d, pos)

IInv ==
    /\ TypeOK
    /\ Control
    /\ SourceIsGone
    /\ Flushing
    /\ Places
    /\ QueueIsTrue
    /\ PlanIsTrue
    /\ StoreCovers
    /\ WalkCovers

-----------------------------------------------------------------------------
(* What a sweep may do.                                                    *)

Untouched == Docs \ touched

\* What is queued and planned, for documents the source has left alone.
SweepIsTrue ==
    /\ \A d \in dels \ touched : ~Holds(src, d)
    /\ pc = "inventory" => \A d \in Untouched : items[d] = src[d].ver
    /\ kind = "sweep" /\ (pc = "repair" \/ InFlush) =>
         /\ \A d \in plan.gone \ touched : ~Holds(src, d)
         /\ \A d \in Untouched \ (plan.gone \cup plan.want) : Result(d).ver = src[d].ver
         /\ tail /\ InFlush /\ HasFetcher => plan.gone = {} /\ plan.want = {}

SInv ==
    /\ TypeOK
    /\ Control
    /\ SourceIsGone
    /\ Flushing
    /\ SweepIsTrue

-----------------------------------------------------------------------------
(* Type correctness, action by action.                                     *)

LEMMA ValuesAreTyped ==
    /\ NoList \in Acls
    /\ Gone \in [ver: Clock, acl: Acls] /\ Gone \in Doc
    /\ NoDoc \in [Docs -> [ver: Clock, acl: Acls]] /\ NoDoc \in [Docs -> Doc]
    /\ NoTime \in [Docs -> Clock]
    /\ NoPerms \in [Docs -> [set: BOOLEAN, acl: Acls \cup {Held}]]
    /\ 0 \in Clock /\ Clock \subseteq Nat
    /\ \A c \in Clock : c <= MaxClock
  <1>1. NoList \in Acls
    BY ConstantsOK DEF NoList
  <1>2. 0 \in Clock /\ Clock \subseteq Nat /\ \A c \in Clock : c <= MaxClock
    BY ConstantsOK DEF Clock
  <1> QED BY <1>1, <1>2 DEF Gone, Doc, NoDoc, NoTime, NoPerms, NoChange

LEMMA TypeInit == Init => TypeOK
  <1> SUFFICES ASSUME Init PROVE TypeOK
    OBVIOUS
  <1>1. log \in Seq([doc: Docs, shared: BOOLEAN]) /\ Len(log) = 0
    BY DEF Init
  <1>2. faults \in 0..MaxFaults
    BY ConstantsOK DEF Init
  <1>3. plan \in [gone: SUBSET Docs, want: SUBSET Docs, held: SUBSET Docs]
    BY DEF Init, NoPlan
  <1> QED BY <1>1, <1>2, <1>3, ValuesAreTyped DEF Init, TypeOK

\* A read finds a document of the index.
LEMMA ReadIsTyped ==
    ASSUME TypeOK, NEW d \in Docs
    PROVE  /\ Read(d) \subseteq Doc
           /\ \A r \in Read(d) : r.ver = src[d].ver /\ r.acl \in {src[d].acl, Held}
  BY DEF TypeOK, Read, Doc

LEMMA FaultIsTyped == TypeOK /\ (Fault \/ NoFault) => faults' \in 0..MaxFaults
  BY ConstantsOK DEF TypeOK, Fault, NoFault

LEMMA SourceTypeStep == TypeOK /\ Source => TypeOK'
  <1> SUFFICES ASSUME TypeOK, Source PROVE TypeOK'
    OBVIOUS
  <1>1. PICK d \in Docs :
            \/ \E a \in Acls : SourceWrites(d, a) \/ SourceShares(d, a)
            \/ SourceDeletes(d)
    BY DEF Source
  <1>2. Moved(d)
    BY <1>1 DEF SourceWrites, SourceShares, SourceDeletes, Reported
  <1>3. \/ UNCHANGED log
        \/ \E shared \in BOOLEAN : Reported(d, shared)
    BY <1>1 DEF SourceWrites, SourceShares, SourceDeletes
  <1>4. log' \in Seq([doc: Docs, shared: BOOLEAN]) /\ Len(log') \in Clock
    <2>1. ASSUME NEW shared \in BOOLEAN, Reported(d, shared)
          PROVE  log' \in Seq([doc: Docs, shared: BOOLEAN]) /\ Len(log') \in Clock
      <3>1. [doc |-> d, shared |-> shared] \in [doc: Docs, shared: BOOLEAN]
        OBVIOUS
      <3>2. log' \in Seq([doc: Docs, shared: BOOLEAN]) /\ Len(log') = Len(log) + 1
        BY <2>1, <3>1, AppendProperties DEF TypeOK, Reported
      <3>3. Len(log) < MaxClock /\ Len(log) \in Nat
        BY <2>1, ValuesAreTyped DEF TypeOK, Reported
      <3> QED BY <3>2, <3>3, ConstantsOK DEF Clock
    <2> QED BY <1>3, <2>1 DEF TypeOK
  <1>5. src' \in [Docs -> [ver: Clock, acl: Acls]]
    <2>1. ASSUME NEW a \in Acls, SourceWrites(d, a) PROVE src' \in [Docs -> [ver: Clock, acl: Acls]]
      <3>1. Len(log) + 1 \in Clock
        BY <2>1, ConstantsOK DEF SourceWrites, Reported, TypeOK, Clock
      <3> QED BY <2>1, <3>1 DEF SourceWrites, TypeOK
    <2>2. ASSUME NEW a \in Acls, SourceShares(d, a) PROVE src' \in [Docs -> [ver: Clock, acl: Acls]]
      BY <2>2 DEF SourceShares, TypeOK
    <2>3. CASE SourceDeletes(d)
      BY <2>3, ValuesAreTyped DEF SourceDeletes, TypeOK
    <2> QED BY <1>1, <2>1, <2>2, <2>3
  <1> QED BY <1>2, <1>4, <1>5 DEF Moved, walkVars, queueVars, sweepVars, TypeOK

LEMMA FlushTypeStep == TypeOK /\ Flush => TypeOK'
  <1> SUFFICES ASSUME TypeOK, Flush PROVE TypeOK'
    OBVIOUS
  <1> USE FaultIsTyped, ValuesAreTyped
  <1> DEFINE Control1 == /\ pc' \in {"idle", "put", "delete", "perms", "save", "sync", "repair", "final"}
                         /\ tail' \in BOOLEAN /\ failed' \in BOOLEAN
  <1>1. FlushFailed => Control1
    BY DEF FlushFailed, FlushFailedInRun, FlushFailedInSweep, TypeOK
  <1>2. CASE FlushPut
    <2>1. Control1
      BY <1>1, <1>2 DEF FlushPut, TypeOK
    <2>2. store' \in [Docs -> Doc]
      BY <1>2 DEF FlushPut, TypeOK
    <2> QED BY <1>2, <2>1, <2>2 DEF FlushPut, srcVars, walkVars, queueVars, sweepVars, TypeOK
  <1>3. CASE FlushDelete
    <2>1. Control1
      BY <1>1, <1>3 DEF FlushDelete, TypeOK
    <2>2. store' \in [Docs -> Doc]
      BY <1>3 DEF FlushDelete, TypeOK
    <2> QED BY <1>3, <2>1, <2>2 DEF FlushDelete, srcVars, walkVars, queueVars, sweepVars, TypeOK
  <1>4. CASE FlushPerms
    <2>1. Control1
      BY <1>1, <1>4 DEF FlushPerms, TypeOK
    <2>2. store' \in [Docs -> Doc]
      <3>1. ASSUME NEW d \in Docs PROVE [store[d] EXCEPT !.acl = perms[d].acl] \in Doc
        BY DEF TypeOK, Doc
      <3>2. \/ store' = store
            \/ store' = [d \in Docs |-> IF perms[d].set /\ Holds(store, d)
                                        THEN [store[d] EXCEPT !.acl = perms[d].acl]
                                        ELSE store[d]]
        BY <1>4 DEF FlushPerms
      <3>3. store \in [Docs -> Doc]
        BY DEF TypeOK
      <3> QED BY <3>1, <3>2, <3>3
    <2>3. /\ puts' \in [Docs -> Doc] /\ dels' \in SUBSET Docs /\ queued' \in Nat
          /\ perms' \in [Docs -> [set: BOOLEAN, acl: Acls \cup {Held}]]
      BY <1>4 DEF FlushPerms, EmptyQueue, TypeOK
    <2> QED BY <1>4, <2>1, <2>2, <2>3 DEF FlushPerms, srcVars, walkVars, sweepVars, TypeOK
  <1>5. CASE FlushSave
    <2>1. Control1
      BY <1>1, <1>5 DEF FlushSave, AfterFlush, TypeOK
    <2>2. saved' \in Clock
      BY <1>5 DEF FlushSave, SaveCursor, TypeOK
    <2> QED BY <1>5, <2>1, <2>2 DEF FlushSave, srcVars, walkVars, queueVars, sweepVars, TypeOK
  <1> QED BY <1>2, <1>3, <1>4, <1>5 DEF Flush

\* maybeFlush goes on, or starts a flush that is not the last.
LEMMA MaybeFlushMoves ==
    ASSUME NEW n \in Nat, NEW w, MaybeFlush(n, w)
    PROVE  queued' = n /\ queued' \in Nat /\ pc' \in {w, "put"} /\ tail' = FALSE
  BY DEF MaybeFlush

\* The step of a walk or of a repair that queues a change.
QueueTyped ==
    /\ puts \in [Docs -> Doc]
    /\ dels \in SUBSET Docs
    /\ perms \in [Docs -> [set: BOOLEAN, acl: Acls \cup {Held}]]
    /\ queued \in Nat
    /\ pending \in Clock
    /\ pc \in {"sync", "repair", "put"}
    /\ tail \in BOOLEAN
    /\ faults \in 0..MaxFaults

LEMMA EmitTypeStep == TypeOK /\ Emit => TypeOK'
  <1> SUFFICES ASSUME TypeOK, NEW d \in Docs,
                      EmitDelete(d) \/ EmitNothing(d) \/ EmitDoc(d) \/ EmitPerms(d)
               PROVE  TypeOK'
    BY DEF Emit
  <1> USE ValuesAreTyped, FaultIsTyped
  <1>1. Due(d)
    BY DEF EmitDelete, EmitNothing, EmitDoc, EmitPerms
  <1>2. pos' \in Clock
    BY <1>1, ConstantsOK DEF Due, TypeOK, Clock
  <1>3. pos + 1 = pos' /\ (MovePending => pending' \in Clock)
    BY <1>1, <1>2 DEF Due, MovePending, TypeOK
  <1>6. queued \in Nat /\ queued + 1 \in Nat
    BY DEF TypeOK
  <1>7. \A n \in Nat : MaybeFlush(n, "sync") =>
            queued' \in Nat /\ pc' \in {"sync", "put"} /\ tail' \in BOOLEAN
    BY MaybeFlushMoves
  <1>4. QueueTyped'
    <2>1. CASE EmitDelete(d)
      BY <2>1, <1>3, <1>6, <1>7 DEF EmitDelete, TypeOK, QueueTyped
    <2>2. CASE EmitNothing(d)
      BY <2>2 DEF EmitNothing, Due, queueVars, TypeOK, QueueTyped
    <2>3. CASE EmitDoc(d)
      <3>1. PICK r \in Read(d) :
                /\ IF r.acl = Held THEN Fault ELSE NoFault
                /\ puts' = [puts EXCEPT ![d] = r]
        BY <2>3 DEF EmitDoc
      <3>2. puts' \in [Docs -> Doc]
        BY <3>1, ReadIsTyped DEF TypeOK
      <3>3. faults' \in 0..MaxFaults
        BY <3>1
      <3> QED BY <2>3, <3>2, <3>3, <1>3, <1>6, <1>7 DEF EmitDoc, TypeOK, QueueTyped
    <2>4. CASE EmitPerms(d)
      <3>1. PICK r \in Read(d) :
                /\ IF r.acl = Held THEN Fault ELSE NoFault
                /\ perms' = [perms EXCEPT ![d] = [set |-> TRUE, acl |-> r.acl]]
        BY <2>4 DEF EmitPerms
      <3>2. perms' \in [Docs -> [set: BOOLEAN, acl: Acls \cup {Held}]]
        BY <3>1, ReadIsTyped DEF TypeOK, Doc
      <3>3. faults' \in 0..MaxFaults
        BY <3>1
      <3>4. queued' \in Nat /\ pc' \in {"sync", "put"} /\ tail' \in BOOLEAN
        <4>1. (IF perms[d].set THEN queued ELSE queued + 1) \in Nat
          BY <1>6
        <4> QED BY <2>4, <4>1, <1>7 DEF EmitPerms
      <3> QED BY <2>4, <3>2, <3>3, <3>4, <1>3 DEF EmitPerms, TypeOK, QueueTyped
    <2> QED BY <2>1, <2>2, <2>3, <2>4
  <1>5. failed' \in BOOLEAN
    BY DEF TypeOK, EmitDelete, EmitNothing, EmitDoc, EmitPerms
  <1> QED BY <1>1, <1>2, <1>4, <1>5 DEF Due, srcVars, sweepVars, TypeOK, QueueTyped

LEMMA RepairTypeStep == TypeOK /\ Repair => TypeOK'
  <1> SUFFICES ASSUME TypeOK, NEW d \in Docs,
                      RepairGone(d) \/ RefetchDoc(d) \/ RefetchGone(d) \/ RefetchFails(d)
               PROVE  TypeOK'
    BY DEF Repair
  <1> USE ValuesAreTyped, FaultIsTyped
  <1>6. queued + 1 \in Nat
    BY DEF TypeOK
  <1>7. MaybeFlush(queued + 1, "repair") =>
            queued' \in Nat /\ pc' \in {"repair", "put"} /\ tail' \in BOOLEAN
    BY <1>6, MaybeFlushMoves
  <1>1. CASE RepairGone(d)
    <2>1. plan' \in [gone: SUBSET Docs, want: SUBSET Docs, held: SUBSET Docs]
      BY <1>1 DEF RepairGone, TypeOK
    <2> QED BY <1>1, <1>7, <2>1 DEF RepairGone, srcVars, walkVars, TypeOK
  <1>2. Refetched(d) => plan' \in [gone: SUBSET Docs, want: SUBSET Docs, held: SUBSET Docs]
    <2>1. plan.want \ {d} \in SUBSET Docs /\ plan.held \ {d} \in SUBSET Docs
      BY DEF TypeOK
    <2> QED BY <2>1 DEF Refetched, TypeOK
  <1>3. CASE RefetchDoc(d)
    <2>1. PICK r \in Read(d) :
              /\ IF r.acl = Held THEN Fault ELSE NoFault
              /\ puts' = [puts EXCEPT ![d] = r]
      BY <1>3 DEF RefetchDoc
    <2>2. puts' \in [Docs -> Doc] /\ faults' \in 0..MaxFaults
      BY <2>1, ReadIsTyped DEF TypeOK
    <2> QED BY <1>2, <1>3, <1>7, <2>2 DEF RefetchDoc, Refetch, srcVars, walkVars, TypeOK
  <1>4. CASE RefetchGone(d)
    BY <1>2, <1>4, <1>7 DEF RefetchGone, Refetch, srcVars, walkVars, TypeOK
  <1>5. CASE RefetchFails(d)
    BY <1>5 DEF RefetchFails, Refetch, srcVars, walkVars, TypeOK
  <1> QED BY <1>1, <1>3, <1>4, <1>5

LEMMA OtherTypeStep ==
    ASSUME TypeOK,
           \/ StartRun \/ NextPage \/ EmitNoID \/ SyncFails \/ SyncDone \/ FinalCursor
           \/ SkipSweep \/ StartSweep \/ Enumerate \/ Inventory \/ RepairDone
           \/ Crash \/ Restart \/ UNCHANGED vars
    PROVE  TypeOK'
  <1> USE ValuesAreTyped, FaultIsTyped
  <1>1. CASE StartRun
    BY <1>1 DEF StartRun, NewRun, EmptyQueue, srcVars, sweepVars, TypeOK
  <1>2. CASE NextPage \/ EmitNoID
    BY <1>2 DEF NextPage, EmitNoID, srcVars, walkVars, queueVars, sweepVars, TypeOK
  <1>3. CASE SyncFails \/ SyncDone \/ RepairDone
    BY <1>3 DEF SyncFails, SyncDone, RepairDone, LastFlush, srcVars, walkVars, queueVars,
       sweepVars, TypeOK
  <1>4. CASE FinalCursor
    <2>1. saved' \in Clock /\ pc' \in {"synced", "idle"} /\ failed' \in BOOLEAN
      BY <1>4 DEF FinalCursor, SaveCursor, TypeOK
    <2> QED BY <1>4, <2>1 DEF FinalCursor, srcVars, walkVars, queueVars, sweepVars, TypeOK
  <1>5. CASE SkipSweep \/ Restart
    BY <1>5 DEF SkipSweep, Restart, srcVars, walkVars, queueVars, sweepVars, TypeOK
  <1>6. CASE StartSweep
    BY <1>6 DEF StartSweep, NewRun, EmptyQueue, srcVars, walkVars, sweepVars, TypeOK
  <1>7. CASE Enumerate
    <2>1. /\ items' \in [Docs -> Clock] /\ touched' \in SUBSET Docs
          /\ pc' \in {"inventory", "idle"} /\ failed' \in BOOLEAN
      BY <1>7 DEF Enumerate, TypeOK
    <2> QED BY <1>7, <2>1 DEF Enumerate, srcVars, walkVars, queueVars, TypeOK
  <1>8. CASE Inventory
    <2>1. plan' \in [gone: SUBSET Docs, want: SUBSET Docs, held: SUBSET Docs]
      BY <1>8 DEF Inventory, TypeOK
    <2>2. pc' \in {"repair", "idle"} /\ failed' \in BOOLEAN
      BY <1>8 DEF Inventory, TypeOK
    <2> QED BY <1>8, <2>1, <2>2 DEF Inventory, srcVars, walkVars, queueVars, TypeOK
  <1>9. CASE Crash
    BY <1>9 DEF Crash, srcVars, walkVars, queueVars, sweepVars, TypeOK
  <1>10. CASE UNCHANGED vars
    BY <1>10 DEF vars, TypeOK
  <1> QED BY <1>1, <1>2, <1>3, <1>4, <1>5, <1>6, <1>7, <1>8, <1>9, <1>10

LEMMA TypeStep == TypeOK /\ [Next]_vars => TypeOK'
  BY SourceTypeStep, FlushTypeStep, EmitTypeStep, RepairTypeStep, OtherTypeStep DEF Next

\* What the pipeline holds is a document, a place in the log or an operation it
\* was given, in every behaviour.
THEOREM TypeCorrect == Spec => []TypeOK
  BY TypeInit, TypeStep, PTL DEF Spec

-----------------------------------------------------------------------------
(* Where the goroutine can be.                                             *)

LEMMA ControlStep == ASSUME TypeOK, Control, [Next]_vars PROVE Control'
  <1>1. CASE Source \/ NextPage \/ UNCHANGED vars
    <2>1. UNCHANGED <<pc, kind, tail, failed, queueVars>>
      BY <1>1 DEF Source, SourceWrites, SourceShares, SourceDeletes, Reported, Moved, NextPage, vars,
         queueVars
    <2> QED BY <2>1 DEF Control, NoQueue, InFlush, queueVars
  <1>2. CASE StartRun \/ StartSweep
    BY <1>2 DEF Control, NoQueue, InFlush, StartRun, StartSweep, NewRun, EmptyQueue
  <1>3. CASE EmitNoID
    BY <1>3 DEF Control, NoQueue, InFlush, EmitNoID
  <1>4. CASE Emit
    <2> PICK d \in Docs : EmitDelete(d) \/ EmitNothing(d) \/ EmitDoc(d) \/ EmitPerms(d)
      BY <1>4 DEF Emit
    <2>1. pc = "sync" /\ kind = "run" /\ kind' = "run" /\ ~failed /\ ~failed'
      BY DEF Control, Due, EmitDelete, EmitNothing, EmitDoc, EmitPerms
    <2>2. pc' \in {"sync", "put"} /\ (queued' = 0 => NoQueue')
      <3>1. CASE EmitNothing(d)
        BY <3>1, <2>1 DEF EmitNothing, queueVars, Control, NoQueue
      <3>2. CASE EmitDelete(d) \/ EmitDoc(d)
        <4>1. MaybeFlush(queued + 1, "sync") /\ queued + 1 \in Nat /\ queued + 1 # 0
          BY <3>2 DEF TypeOK, EmitDelete, EmitDoc
        <4> QED BY <4>1, MaybeFlushMoves
      <3>3. CASE EmitPerms(d)
        <4> DEFINE n == IF perms[d].set THEN queued ELSE queued + 1
        <4>1. queued = 0 => ~perms[d].set
          BY DEF Control, NoQueue, InFlush, NoPerms, NoChange
        <4>2. n \in Nat /\ n # 0
          BY <4>1 DEF TypeOK
        <4>3. MaybeFlush(n, "sync")
          BY <3>3 DEF EmitPerms
        <4> HIDE DEF n
        <4> QED BY <4>2, <4>3, MaybeFlushMoves
      <3> QED BY <3>1, <3>2, <3>3
    <2> QED BY <2>1, <2>2 DEF Control, InFlush
  <1>5. CASE SyncFails \/ SyncDone \/ RepairDone
    BY <1>5 DEF Control, NoQueue, InFlush, SyncFails, SyncDone, RepairDone, LastFlush, queueVars
  <1>6. CASE FinalCursor \/ SkipSweep \/ Enumerate \/ Inventory \/ Crash \/ Restart
    BY <1>6 DEF Control, NoQueue, InFlush, FinalCursor, SkipSweep, Enumerate, Inventory, Crash, Restart,
       queueVars
  <1>7. CASE FlushPut \/ FlushDelete
    BY <1>7 DEF Control, NoQueue, InFlush, FlushPut, FlushDelete, FlushFailed, FlushFailedInRun,
       FlushFailedInSweep, queueVars
  <1>8. CASE FlushPerms
    BY <1>8 DEF Control, NoQueue, InFlush, FlushPerms, EmptyQueue, FlushFailed, FlushFailedInRun,
       FlushFailedInSweep
  <1>9. CASE FlushSave
    <2>1. CASE FlushFailed
      BY <1>9, <2>1 DEF Control, NoQueue, InFlush, FlushSave, FlushFailed, FlushFailedInRun,
         FlushFailedInSweep, queueVars
    <2>2. CASE pc' = AfterFlush /\ UNCHANGED failed
      <3>1. \/ kind = "run" /\ pc' = "sync" /\ ~tail
            \/ kind = "run" /\ pc' = "idle"
            \/ kind = "run" /\ pc' = "final" /\ ~failed
            \/ kind = "sweep" /\ pc' \in {"repair", "idle"}
        BY <2>2 DEF AfterFlush, TypeOK
      <3>2. pc' = "sync" => ~failed
        BY <1>9, <3>1 DEF FlushSave, Control, InFlush
      <3> QED BY <1>9, <2>2, <3>1, <3>2 DEF Control, NoQueue, InFlush, FlushSave, queueVars
    <2> QED BY <1>9, <2>1, <2>2 DEF FlushSave
  <1>10. CASE Repair
    <2> PICK d \in Docs : RepairGone(d) \/ RefetchDoc(d) \/ RefetchGone(d) \/ RefetchFails(d)
      BY <1>10 DEF Repair
    <2>1. /\ pc = "repair" /\ kind = "sweep" /\ kind' = "sweep"
          /\ UNCHANGED <<pending, perms>>
      BY DEF Control, Refetch, RepairGone, RefetchDoc, RefetchGone, RefetchFails
    <2>2. CASE RefetchFails(d)
      BY <2>1, <2>2 DEF Control, NoQueue, InFlush, RefetchFails
    <2>3. CASE RepairGone(d) \/ RefetchDoc(d) \/ RefetchGone(d)
      <3>1. queued' # 0 /\ pc' \in {"repair", "put"}
        <4>1. MaybeFlush(queued + 1, "repair") /\ queued + 1 \in Nat /\ queued + 1 # 0
          BY <2>3 DEF TypeOK, RepairGone, RefetchDoc, RefetchGone
        <4> QED BY <4>1, MaybeFlushMoves
      <3> QED BY <2>1, <3>1 DEF Control, InFlush
    <2> QED BY <2>2, <2>3
  <1> QED BY <1>1, <1>2, <1>3, <1>4, <1>5, <1>6, <1>7, <1>8, <1>9, <1>10 DEF Next, Flush

\* The actions that are not the source's leave the source alone.
LEMMA SourceStays == ASSUME [Next]_vars PROVE Source \/ UNCHANGED <<src, log>>
  BY DEF Next, vars, StartRun, NextPage, Emit, EmitDelete, EmitNothing, EmitDoc, EmitPerms, Due,
     EmitNoID, SyncFails, SyncDone, FinalCursor, Flush, FlushPut, FlushDelete, FlushPerms, FlushSave,
     SkipSweep, StartSweep, Enumerate, Inventory, Repair, RepairGone, RefetchDoc, RefetchGone,
     RefetchFails, Refetch, RepairDone, Crash, Restart, srcVars

\* One change of a source: a write, a share or a removal of d, of which the
\* feed reports a removal only where it reports removals.
SourceMoves(d) ==
    /\ Moved(d)
    /\ \A e \in Docs \ {d} : src'[e] = src[e]
    /\ \/ /\ Len(log') = Len(log) + 1
          /\ \A t \in 1..Len(log) : log'[t] = log[t]
          /\ log'[Len(log) + 1].doc = d
          /\ \/ ~log'[Len(log) + 1].shared
             \/ Holds(src, d) /\ src'[d].ver = src[d].ver
       \/ UNCHANGED log /\ ~ReportsGone /\ src'[d] = Gone
    /\ ~Holds(src', d) => src'[d] = Gone

LEMMA SourceIsMoves == ASSUME TypeOK, Source PROVE \E d \in Docs : SourceMoves(d)
  <1>1. PICK d \in Docs :
            \/ \E a \in Acls : SourceWrites(d, a) \/ SourceShares(d, a)
            \/ SourceDeletes(d)
    BY DEF Source
  <1>2. Moved(d) /\ \A e \in Docs \ {d} : src'[e] = src[e]
    BY <1>1 DEF TypeOK, SourceWrites, SourceShares, SourceDeletes, Reported
  <1>3. ASSUME NEW shared \in BOOLEAN, Reported(d, shared)
        PROVE  /\ Len(log') = Len(log) + 1
               /\ \A t \in 1..Len(log) : log'[t] = log[t]
               /\ log'[Len(log) + 1].doc = d
               /\ log'[Len(log) + 1].shared = shared
    BY <1>3, AppendProperties DEF TypeOK, Reported
  <1>4. ASSUME NEW a \in Acls, SourceWrites(d, a) PROVE SourceMoves(d)
    <2>1. src'[d].ver = Len(log) + 1 /\ Len(log) \in Nat
      BY <1>4, ValuesAreTyped DEF TypeOK, SourceWrites
    <2>2. Holds(src', d)
      BY <2>1 DEF Holds
    <2>3. Reported(d, FALSE)
      BY <1>4 DEF SourceWrites
    <2> QED BY <1>2, <1>3, <2>2, <2>3 DEF SourceMoves
  <1>5. ASSUME NEW a \in Acls, SourceShares(d, a) PROVE SourceMoves(d)
    <2>1. src'[d].ver = src[d].ver /\ Holds(src, d) /\ Holds(src', d)
      BY <1>5 DEF TypeOK, SourceShares, Holds
    <2> QED BY <1>2, <1>3, <1>5, <2>1 DEF SourceMoves, SourceShares
  <1>6. CASE SourceDeletes(d)
    <2>1. src'[d] = Gone
      BY <1>6 DEF TypeOK, SourceDeletes
    <2> QED BY <1>2, <1>3, <1>6, <2>1 DEF SourceMoves, SourceDeletes
  <1> QED BY <1>1, <1>4, <1>5, <1>6

LEMMA SourceIsGoneStep == ASSUME TypeOK, SourceIsGone, [Next]_vars PROVE SourceIsGone'
  <1>1. CASE Source
    BY <1>1, SourceIsMoves DEF SourceIsGone, SourceMoves, Holds
  <1> QED BY <1>1, SourceStays DEF SourceIsGone, Holds

-----------------------------------------------------------------------------
(* flush: what has been written and what it comes to.                      *)

\* A flush that fails is tried again from the start, or given up.
LEMMA FailedGoes == FlushFailed => pc' \in {"idle", "put"}
  BY DEF FlushFailed, FlushFailedInRun, FlushFailedInSweep

LEMMA FlushingStep == ASSUME TypeOK, Control, Flushing, [Next]_vars PROVE Flushing'
  <1>1. CASE FlushPut
    <2>1. /\ UNCHANGED <<puts, dels>>
          /\ pc' = "delete" => \A d \in Docs : store'[d] = WithPuts(d)
          /\ pc' # "perms"
      BY <1>1, FailedGoes DEF FlushPut, WithPuts, queueVars
    <2> QED BY <2>1 DEF Flushing, WithPuts, Holds
  <1>2. CASE FlushDelete
    <2>1. /\ UNCHANGED <<puts, dels>>
          /\ pc' = "perms" => \A d \in Docs : store'[d] = IF d \in dels THEN Gone ELSE store[d]
          /\ pc' # "delete"
          /\ \A d \in Docs : store[d] = WithPuts(d)
      BY <1>2, FailedGoes DEF FlushDelete, Flushing, queueVars
    <2> QED BY <2>1 DEF Flushing, WithPuts, WithDels, Holds
  <1>3. CASE UNCHANGED <<pc, store, puts, dels>>
    BY <1>3 DEF Flushing, WithPuts, WithDels, Holds
  <1>4. CASE pc' \notin {"delete", "perms"}
    BY <1>4 DEF Flushing
  <1>5. FlushPut \/ FlushDelete \/ UNCHANGED <<pc, store, puts, dels>> \/ pc' \notin {"delete", "perms"}
    <2>1. CASE Source
      BY <2>1, SourceIsMoves DEF SourceMoves, Moved, queueVars
    <2>2. CASE FlushPerms \/ FlushSave
      BY <2>2, FailedGoes DEF FlushPerms, FlushSave, AfterFlush
    <2>3. CASE Emit
      BY <2>3, MaybeFlushMoves
         DEF Emit, EmitDelete, EmitNothing, EmitDoc, EmitPerms, MaybeFlush, queueVars, Due
    <2>4. CASE Repair
      BY <2>4 DEF Repair, RepairGone, RefetchDoc, RefetchGone, RefetchFails, MaybeFlush
    <2> QED BY <2>1, <2>2, <2>3, <2>4
       DEF Next, vars, StartRun, NextPage, EmitNoID, SyncFails, SyncDone, FinalCursor, LastFlush,
           Flush, SkipSweep, StartSweep, Enumerate, Inventory, RepairDone, Crash, Restart, queueVars
  <1> QED BY <1>1, <1>2, <1>3, <1>4, <1>5

\* No step of a flush changes what the index holds in the end.
LEMMA FlushKeepsResult ==
    ASSUME TypeOK, Control, Flushing, Flush, NEW d \in Docs PROVE Result(d)' = Result(d)
  <1>1. CASE FlushPut
    <2>1. UNCHANGED <<puts, dels, perms>> /\ store'[d] \in {store[d], WithPuts(d)}
      BY <1>1 DEF FlushPut, WithPuts, queueVars
    <2> QED BY <2>1 DEF Result, WithPerms, WithDels, WithPuts, Holds
  <1>2. CASE FlushDelete
    <2>1. UNCHANGED <<puts, dels, perms>> /\ store'[d] \in {store[d], IF d \in dels THEN Gone ELSE store[d]}
      BY <1>2 DEF FlushDelete, queueVars
    <2> QED BY <2>1 DEF Result, WithPerms, WithDels, WithPuts, Holds
  <1>3. CASE FlushPerms
    <2>1. store[d] = WithDels(d)
      BY <1>3 DEF FlushPerms, Flushing
    <2>2. CASE UNCHANGED <<store, puts, dels, perms>>
      BY <2>2 DEF Result, WithPerms, WithDels, WithPuts, Holds
    <2>3. CASE store'[d] = WithPerms(d, store[d]) /\ EmptyQueue
      BY <2>1, <2>3 DEF EmptyQueue, NoDoc, NoPerms, NoChange, Gone, Result, WithPerms, WithDels,
         WithPuts, Holds
    <2>4. \/ UNCHANGED <<store, puts, dels, perms>>
          \/ store'[d] = WithPerms(d, store[d]) /\ EmptyQueue
      BY <1>3 DEF FlushPerms, WithPerms, Holds
    <2> QED BY <2>2, <2>3, <2>4
  <1>4. CASE FlushSave
    BY <1>4 DEF FlushSave, queueVars, Result, WithPerms, WithDels, WithPuts, Holds
  <1> QED BY <1>1, <1>2, <1>3, <1>4 DEF Flush

\* With nothing in hand the index is what it comes to.
LEMMA NoQueueResult == ASSUME NoQueue, NEW d \in Docs PROVE Result(d) = store[d]
  BY DEF NoQueue, NoDoc, NoPerms, NoChange, Gone, Result, WithPerms, WithDels, WithPuts, Holds

-----------------------------------------------------------------------------
(* Places in the log.                                                      *)

\* What is covered later is covered earlier.
LEMMA SettledGrows ==
    ASSUME NEW d \in Docs, NEW b \in Nat, NEW c \in Nat, b <= c
    PROVE  /\ Settled(d, b) => Settled(d, c)
           /\ ContentSettled(d, b) => ContentSettled(d, c)
           /\ Settled(d, b) => ContentSettled(d, b)
           /\ \A x : Covers(x, d, c) => Covers(x, d, b)
  <1>1. \A t \in (c + 1)..Len(log) : t \in (b + 1)..Len(log)
    BY LenProperties
  <1>2. Settled(d, b) => Settled(d, c)
    BY <1>1 DEF Settled
  <1>3. ContentSettled(d, b) => ContentSettled(d, c)
    BY <1>1 DEF ContentSettled
  <1>4. Settled(d, b) => ContentSettled(d, b)
    BY DEF Settled, ContentSettled
  <1> QED BY <1>2, <1>3, <1>4 DEF Covers

\* While the source stands still so does what is covered.
LEMMA SameSource ==
    ASSUME UNCHANGED <<src, log>>, NEW d \in Docs, NEW c
    PROVE  /\ Settled(d, c)' <=> Settled(d, c)
           /\ ContentSettled(d, c)' <=> ContentSettled(d, c)
           /\ Wanted(d)' <=> Wanted(d)
           /\ \A x : Matches(x, d)' <=> Matches(x, d)
           /\ \A x : Covers(x, d, c)' <=> Covers(x, d, c)
  BY DEF Settled, ContentSettled, Wanted, Holds, Matches, Covers

\* A change is reported beyond every place a walk has been.
LEMMA SourceMovesBeyond ==
    ASSUME TypeOK, NEW e \in Docs, SourceMoves(e), NEW d \in Docs, NEW c \in Nat, c <= Len(log)
    PROVE  /\ Settled(d, c)' => Settled(d, c) /\ (src'[d] = src[d] \/ ~Wanted(d)')
           /\ ContentSettled(d, c)' =>
                 /\ ContentSettled(d, c)
                 /\ \/ src'[d] = src[d]
                    \/ ~Wanted(d)' /\ src'[d] = Gone
                    \/ Holds(src, d) /\ src'[d].ver = src[d].ver
  <1> DEFINE n == Len(log)
  <1>1. n \in Nat
    BY LenProperties DEF TypeOK
  <1> HIDE DEF n
  <1>2. CASE /\ Len(log') = n + 1
             /\ \A t \in 1..n : log'[t] = log[t]
             /\ log'[n + 1].doc = e
             /\ \/ ~log'[n + 1].shared
                \/ Holds(src, e) /\ src'[e].ver = src[e].ver
    <2>1. /\ \A t \in (c + 1)..n : t \in 1..n /\ t \in (c + 1)..(n + 1)
          /\ n + 1 \in (c + 1)..(n + 1)
      BY <1>1 DEF n
    <2>2. Settled(d, c)' => Settled(d, c) /\ d # e
      BY <1>2, <2>1 DEF Settled, n
    <2>3. ContentSettled(d, c)' => ContentSettled(d, c) /\ (d = e => log'[n + 1].shared)
      BY <1>2, <2>1 DEF ContentSettled, n
    <2> QED BY <1>2, <2>2, <2>3 DEF SourceMoves
  <1>3. CASE UNCHANGED log /\ ~ReportsGone /\ src'[e] = Gone
    <2>1. (Settled(d, c)' <=> Settled(d, c)) /\ (ContentSettled(d, c)' <=> ContentSettled(d, c))
      BY <1>3 DEF Settled, ContentSettled
    <2>2. d = e => ~Wanted(d)'
      BY <1>3 DEF Wanted, Holds, Gone
    <2> QED BY <1>3, <2>1, <2>2 DEF SourceMoves
  <1> QED BY <1>2, <1>3 DEF SourceMoves, n

LEMMA SourceKeepsCovers ==
    ASSUME TypeOK, NEW e \in Docs, SourceMoves(e), NEW d \in Docs, NEW c \in Nat, c <= Len(log)
    PROVE  /\ \A x : Covers(x, d, c) => Covers(x, d, c)'
           /\ (ContentSettled(d, c) => ~Holds(src, d)) => (ContentSettled(d, c) => ~Holds(src, d))'
           /\ \A a : (Settled(d, c) /\ Wanted(d) => a \in {src[d].acl, Held}) =>
                     (Settled(d, c) /\ Wanted(d) => a \in {src[d].acl, Held})'
  <1>1. /\ src'[d] = src[d] => (Wanted(d)' <=> Wanted(d)) /\ \A x : Matches(x, d)' <=> Matches(x, d)
        /\ Holds(src, d) => Wanted(d)
        /\ src'[d] = Gone => ~Holds(src, d)'
    BY DEF Wanted, Matches, Holds, Gone
  <1>2. \A x : Covers(x, d, c) => Covers(x, d, c)'
    BY <1>1, SourceMovesBeyond DEF Covers
  <1>3. (ContentSettled(d, c) => ~Holds(src, d)) => (ContentSettled(d, c) => ~Holds(src, d))'
    BY <1>1, SourceMovesBeyond DEF Holds
  <1> QED BY <1>1, <1>2, <1>3, SourceMovesBeyond

\* The step of a walk over the change at p + 1, which is of d.
LEMMA WalkMoves ==
    ASSUME TypeOK, NEW p \in Nat, p + 1 <= Len(log), NEW d \in Docs, log[p + 1].doc = d
    PROVE  /\ \A e \in Docs \ {d} : /\ Settled(e, p + 1) => Settled(e, p)
                                    /\ ContentSettled(e, p + 1) => ContentSettled(e, p)
                                    /\ \A x : Covers(x, e, p) => Covers(x, e, p + 1)
           /\ log[p + 1].shared => (ContentSettled(d, p + 1) => ContentSettled(d, p))
  <1>1. Len(log) \in Nat
    BY LenProperties DEF TypeOK
  <1>2. \A t \in (p + 1)..Len(log) : t = p + 1 \/ t \in ((p + 1) + 1)..Len(log)
    BY <1>1
  <1>3. \A e \in Docs \ {d} : /\ Settled(e, p + 1) => Settled(e, p)
                              /\ ContentSettled(e, p + 1) => ContentSettled(e, p)
    BY <1>2 DEF Settled, ContentSettled
  <1>4. log[p + 1].shared => (ContentSettled(d, p + 1) => ContentSettled(d, p))
    BY <1>2 DEF ContentSettled
  <1> QED BY <1>3, <1>4 DEF Covers

LEMMA PlacesAreNumbers ==
    TypeOK => saved \in Nat /\ pos \in Nat /\ horizon \in Nat /\ pending \in Nat /\ Len(log) \in Nat
  BY ValuesAreTyped DEF TypeOK

\* Nothing passes the end of what the walk has listed, and nothing the walk
\* lists passes the end of the log.
LEMMA PlacesStep ==
    ASSUME TypeOK, TypeOK', Control, Places, ~Repeats, [Next]_vars PROVE Places'
  <1> USE PlacesAreNumbers
  <1>1. CASE Source
    <2>1. PICK d \in Docs : SourceMoves(d)
      BY <1>1, SourceIsMoves
    <2>2. /\ UNCHANGED <<saved, pc, kind, tail, failed, pos, horizon, pending>>
          /\ Len(log) <= Len(log')
      BY <2>1 DEF SourceMoves, Moved, walkVars, queueVars
    <2> QED BY <2>2 DEF Places, InFlush
  <1>2. CASE StartRun
    BY <1>2 DEF Places, InFlush, StartRun, NewRun, srcVars
  <1>3. CASE NextPage
    BY <1>3 DEF NextPage
  <1>4. CASE Emit
    <2> PICK d \in Docs : EmitDelete(d) \/ EmitNothing(d) \/ EmitDoc(d) \/ EmitPerms(d)
      BY <1>4 DEF Emit
    <2>1. /\ UNCHANGED <<log, saved, kind, horizon>> /\ pos < horizon /\ pos' = pos + 1
          /\ pc = "sync"
      BY DEF Due, EmitDelete, EmitNothing, EmitDoc, EmitPerms, srcVars
    <2>2. pending' \in {pending, pos + 1}
      BY DEF EmitDelete, EmitNothing, EmitDoc, EmitPerms, MovePending, queueVars
    <2>3. pc' \in {"sync", "put"} /\ (pc' = "put" => tail' = FALSE)
      BY <2>1 DEF EmitDelete, EmitNothing, EmitDoc, EmitPerms, MaybeFlush
    <2> QED BY <2>1, <2>2, <2>3 DEF Places, InFlush
  <1>5. CASE EmitNoID
    BY <1>5 DEF Places, InFlush, EmitNoID, srcVars, walkVars
  <1>6. CASE SyncFails \/ SyncDone
    BY <1>6 DEF Places, InFlush, SyncFails, SyncDone, LastFlush, srcVars, walkVars, queueVars
  <1>7. CASE FinalCursor
    BY <1>7 DEF Places, InFlush, FinalCursor, SaveCursor, srcVars, walkVars, queueVars
  <1>8. CASE Flush
    <2>1. UNCHANGED <<log, kind, pos, horizon, pending>> /\ InFlush
      BY <1>8 DEF Flush, FlushPut, FlushDelete, FlushPerms, FlushSave, InFlush, srcVars, walkVars,
         queueVars
    <2>2. saved' \in {saved, pending} /\ (kind = "sweep" => saved' = saved)
      BY <1>8 DEF Flush, FlushPut, FlushDelete, FlushPerms, FlushSave, SaveCursor, Control
    <2>3. \/ failed' = TRUE /\ pc' # "final"
          \/ UNCHANGED <<tail, failed>> /\ (kind = "run" /\ pc' = "final" => tail /\ ~failed)
      BY <1>8 DEF Flush, FlushPut, FlushDelete, FlushPerms, FlushSave, FlushFailed,
         FlushFailedInRun, FlushFailedInSweep, AfterFlush
    <2>4. kind \in {"run", "sweep"}
      BY DEF TypeOK
    <2> QED BY <2>1, <2>2, <2>3, <2>4 DEF Places
  <1>9. CASE SkipSweep \/ StartSweep \/ Enumerate \/ Inventory \/ RepairDone
    BY <1>9 DEF Places, Control, SkipSweep, StartSweep, Enumerate, Inventory, RepairDone, LastFlush,
       srcVars, walkVars, queueVars, InFlush
  <1>10. CASE Repair
    <2>1. UNCHANGED <<log, saved, kind, walkVars, pending>> /\ kind = "sweep"
      BY <1>10 DEF Repair, RepairGone, RefetchDoc, RefetchGone, RefetchFails, Refetch, srcVars, Control
    <2> QED BY <2>1 DEF Places, walkVars
  <1>11. CASE Crash \/ Restart
    BY <1>11 DEF Places, Crash, Restart, srcVars, walkVars, queueVars, InFlush
  <1>12. CASE UNCHANGED vars
    BY <1>12 DEF Places, vars, InFlush
  <1> QED BY <1>1, <1>2, <1>3, <1>4, <1>5, <1>6, <1>7, <1>8, <1>9, <1>10, <1>11, <1>12 DEF Next

-----------------------------------------------------------------------------
(* What is queued and planned is true of what it is about.                 *)

\* What a read finds is covered whatever comes before it.
LEMMA ReadCovers ==
    ASSUME TypeOK, NEW d \in Docs, Holds(src, d), NEW r \in Read(d), NEW c
    PROVE  Matches(r, d) /\ Covers(r, d, c)
  <1>1. Matches(r, d)
    BY DEF TypeOK, Read, Matches
  <1> QED BY <1>1, ReadIsTyped DEF Covers

LEMMA NoQueueIsTrue == NoQueue => QueueIsTrue
  BY DEF NoQueue, QueueIsTrue, NoDoc, Gone, Holds, NoPerms, NoChange

LEMMA SameQueueIsTrue ==
    ASSUME QueueIsTrue, UNCHANGED <<src, log, puts, dels, perms, horizon>> PROVE QueueIsTrue'
  BY DEF QueueIsTrue, Covers, Settled, ContentSettled, Wanted, Matches, Holds

LEMMA QueueIsTrueStep == ASSUME IInv, TypeOK', ~Repeats, [Next]_vars PROVE QueueIsTrue'
  <1> USE DEF IInv
  <1> USE PlacesAreNumbers
  <1>1. CASE Source
    <2>1. PICK e \in Docs : SourceMoves(e)
      BY <1>1, SourceIsMoves
    <2>2. UNCHANGED <<puts, dels, perms, horizon>> /\ horizon <= Len(log)
      BY <2>1 DEF SourceMoves, Moved, walkVars, queueVars, Places
    <2>3. ASSUME NEW d \in Docs
          PROVE  /\ \A x : Covers(x, d, horizon) => Covers(x, d, horizon)'
                 /\ (ContentSettled(d, horizon) => ~Holds(src, d)) =>
                        (ContentSettled(d, horizon) => ~Holds(src, d))'
                 /\ \A a : (Settled(d, horizon) /\ Wanted(d) => a \in {src[d].acl, Held}) =>
                           (Settled(d, horizon) /\ Wanted(d) => a \in {src[d].acl, Held})'
      BY <2>1, <2>2, SourceKeepsCovers
    <2>4. ASSUME NEW d \in Docs, Holds(puts, d)' PROVE Covers(puts[d], d, horizon)'
      BY <2>2, <2>3, <2>4 DEF QueueIsTrue, Holds
    <2>5. ASSUME NEW d \in Docs, d \in dels', ContentSettled(d, horizon)' PROVE ~Holds(src, d)'
      BY <2>2, <2>3, <2>5 DEF QueueIsTrue
    <2>6. ASSUME NEW d \in Docs, perms'[d].set, Settled(d, horizon)', Wanted(d)'
          PROVE  perms'[d].acl \in {src'[d].acl, Held}
      BY <2>2, <2>3, <2>6 DEF QueueIsTrue
    <2> QED BY <2>4, <2>5, <2>6 DEF QueueIsTrue
  <1>2. CASE StartRun \/ StartSweep
    <2>1. NoQueue'
      BY <1>2 DEF StartRun, StartSweep, NewRun, EmptyQueue, NoQueue, NoDoc, NoPerms, Gone, NoList, NoChange
    <2> QED BY <2>1, NoQueueIsTrue DEF NoQueue, QueueIsTrue, NoDoc, Gone, Holds, NoPerms, NoChange
  <1>3. CASE Emit
    <2> PICK d \in Docs : EmitDelete(d) \/ EmitNothing(d) \/ EmitDoc(d) \/ EmitPerms(d)
      BY <1>3 DEF Emit
    <2>1. UNCHANGED <<src, log, horizon>>
      BY DEF Due, EmitDelete, EmitNothing, EmitDoc, EmitPerms, srcVars
    <2>2. /\ puts' = puts \/ (Holds(src, d) /\ \E r \in Read(d) : puts' = [puts EXCEPT ![d] = r])
          /\ dels' = dels \/ (~Holds(src, d) /\ dels' = dels \cup {d})
          /\ perms' = perms \/ \E r \in Read(d) : perms' = [perms EXCEPT ![d] = [set |-> TRUE, acl |-> r.acl]]
      <3>1. CASE EmitDelete(d)
        BY <3>1 DEF EmitDelete
      <3>2. CASE EmitNothing(d)
        <4>1. UNCHANGED <<puts, dels, perms>>
          BY <3>2 DEF EmitNothing, queueVars
        <4> QED BY <4>1
      <3>3. CASE EmitDoc(d)
        <4>1. UNCHANGED <<dels, perms>> /\ Holds(src, d)
          BY <3>3 DEF EmitDoc
        <4>2. \E r \in Read(d) : puts' = [puts EXCEPT ![d] = r]
          BY <3>3 DEF EmitDoc
        <4> QED BY <4>1, <4>2
      <3>4. CASE EmitPerms(d)
        <4>1. UNCHANGED <<puts, dels>>
          BY <3>4 DEF EmitPerms
        <4>2. \E r \in Read(d) : perms' = [perms EXCEPT ![d] = [set |-> TRUE, acl |-> r.acl]]
          BY <3>4 DEF EmitPerms
        <4> QED BY <4>1, <4>2
      <3> QED BY <3>1, <3>2, <3>3, <3>4
    <2>3. \A e \in Docs : Holds(puts', e) => Covers(puts'[e], e, horizon)
      <3> SUFFICES ASSUME NEW e \in Docs, Holds(puts', e) PROVE Covers(puts'[e], e, horizon)
        OBVIOUS
      <3>1. CASE puts' = puts
        BY <3>1 DEF QueueIsTrue, Holds
      <3>2. CASE Holds(src, d) /\ \E r \in Read(d) : puts' = [puts EXCEPT ![d] = r]
        <4>1. PICK r \in Read(d) : puts' = [puts EXCEPT ![d] = r]
          BY <3>2
        <4>2. Covers(r, d, horizon)
          BY <3>2, ReadCovers
        <4>3. CASE e = d
          BY <4>1, <4>2, <4>3 DEF TypeOK
        <4>4. CASE e # d
          BY <4>1, <4>4 DEF QueueIsTrue, TypeOK, Holds
        <4> QED BY <4>3, <4>4
      <3> QED BY <2>2, <3>1, <3>2
    <2>4. \A e \in Docs : e \in dels' /\ ContentSettled(e, horizon) => ~Holds(src, e)
      BY <2>2 DEF QueueIsTrue
    <2>5. ASSUME NEW e \in Docs, perms'[e].set, Settled(e, horizon), Wanted(e)
          PROVE  perms'[e].acl \in {src[e].acl, Held}
      <3>1. CASE perms'[e] = perms[e]
        BY <2>5, <3>1 DEF QueueIsTrue
      <3>2. CASE perms'[e] # perms[e]
        <4>1. PICK r \in Read(d) : perms' = [perms EXCEPT ![d] = [set |-> TRUE, acl |-> r.acl]]
          BY <2>2, <3>2
        <4>2. e = d /\ perms'[e].acl = r.acl
          BY <3>2, <4>1 DEF TypeOK
        <4> QED BY <4>2, ReadIsTyped
      <3> QED BY <3>1, <3>2
    <2>6. ASSUME NEW e \in Docs
          PROVE  /\ \A x : Covers(x, e, horizon)' <=> Covers(x, e, horizon)
                 /\ ContentSettled(e, horizon)' <=> ContentSettled(e, horizon)
                 /\ Settled(e, horizon)' <=> Settled(e, horizon)
                 /\ Wanted(e)' <=> Wanted(e)
      BY <2>1, SameSource
    <2> QED BY <2>1, <2>3, <2>4, <2>5, <2>6 DEF QueueIsTrue, Holds
  <1>4. CASE Repair
    <2> PICK d \in Docs : RepairGone(d) \/ RefetchDoc(d) \/ RefetchGone(d) \/ RefetchFails(d)
      BY <1>4 DEF Repair
    <2>1. UNCHANGED <<src, log, horizon, perms>>
      BY DEF RepairGone, RefetchDoc, RefetchGone, RefetchFails, Refetch, srcVars, walkVars
    <2>2. /\ \/ puts' = puts
             \/ Holds(src, d) /\ \E r \in Read(d) : puts' = [puts EXCEPT ![d] = r]
          /\ \/ dels' = dels
             \/ (ContentSettled(d, horizon) => ~Holds(src, d)) /\ dels' = dels \cup {d}
      BY DEF RepairGone, RefetchDoc, RefetchGone, RefetchFails, PlanIsTrue, Control, Refetch
    <2>3. \A e \in Docs : Holds(puts', e) => Covers(puts'[e], e, horizon)
      BY <2>2, ReadCovers DEF QueueIsTrue, TypeOK, Holds
    <2>4. \A e \in Docs : e \in dels' /\ ContentSettled(e, horizon) => ~Holds(src, e)
      BY <2>2 DEF QueueIsTrue
    <2>6. ASSUME NEW e \in Docs
          PROVE  /\ \A x : Covers(x, e, horizon)' <=> Covers(x, e, horizon)
                 /\ ContentSettled(e, horizon)' <=> ContentSettled(e, horizon)
                 /\ Settled(e, horizon)' <=> Settled(e, horizon)
                 /\ Wanted(e)' <=> Wanted(e)
      BY <2>1, SameSource
    <2> QED BY <2>1, <2>3, <2>4, <2>6 DEF QueueIsTrue, Holds
  <1>5. CASE Flush
    <2>1. UNCHANGED <<src, log, horizon>>
      BY <1>5 DEF Flush, FlushPut, FlushDelete, FlushPerms, FlushSave, srcVars, walkVars
    <2>2. UNCHANGED <<puts, dels, perms>> \/ EmptyQueue
      BY <1>5 DEF Flush, FlushPut, FlushDelete, FlushPerms, FlushSave, queueVars
    <2> QED BY <2>1, <2>2, SameQueueIsTrue DEF EmptyQueue, QueueIsTrue, NoDoc, Gone, Holds,
            NoPerms, NoChange
  <1>6. CASE \/ EmitNoID \/ SyncFails \/ SyncDone \/ FinalCursor \/ SkipSweep \/ Enumerate
             \/ Inventory \/ RepairDone \/ Crash \/ Restart \/ UNCHANGED vars
    <2>1. UNCHANGED <<src, log, puts, dels, perms, horizon>>
      BY <1>6 DEF EmitNoID, SyncFails, SyncDone, FinalCursor, SkipSweep, Enumerate, Inventory,
         RepairDone, Crash, Restart, vars, srcVars, walkVars, queueVars
    <2> QED BY <2>1, SameQueueIsTrue
  <1>7. CASE NextPage
    BY <1>7 DEF NextPage
  <1> QED BY <1>1, <1>2, <1>3, <1>4, <1>5, <1>6, <1>7 DEF Next

\* A step of repair takes a document off the plan.
LEMMA RepairMoves ==
    ASSUME TypeOK, Repair
    PROVE  /\ UNCHANGED <<src, log, kind, horizon>> /\ pc' \in {"repair", "put", "idle"}
           /\ pc = "repair" /\ plan'.gone \subseteq plan.gone
  <1> PICK d \in Docs : RepairGone(d) \/ RefetchDoc(d) \/ RefetchGone(d) \/ RefetchFails(d)
    BY DEF Repair
  <1>1. plan = [gone |-> plan.gone, want |-> plan.want, held |-> plan.held]
    BY DEF TypeOK
  <1>2. CASE RepairGone(d)
    <2>1. plan'.gone = plan.gone \ {d}
      BY <1>1, <1>2 DEF RepairGone
    <2> QED BY <1>2, <2>1 DEF RepairGone, MaybeFlush, srcVars, walkVars
  <1>3. Refetched(d) => plan'.gone = plan.gone
    BY <1>1 DEF Refetched
  <1>4. CASE RefetchDoc(d) \/ RefetchGone(d)
    BY <1>3, <1>4 DEF RefetchDoc, RefetchGone, Refetch, MaybeFlush, srcVars, walkVars
  <1>5. CASE RefetchFails(d)
    BY <1>5 DEF RefetchFails, Refetch, srcVars, walkVars
  <1> QED BY <1>2, <1>4, <1>5

LEMMA PlanIsTrueStep == ASSUME IInv, TypeOK', ~Repeats, [Next]_vars PROVE PlanIsTrue'
  <1> USE DEF IInv
  <1> USE PlacesAreNumbers
  <1>1. CASE Source
    <2>1. PICK e \in Docs : SourceMoves(e)
      BY <1>1, SourceIsMoves
    <2>2. UNCHANGED <<pc, kind, items, plan, horizon>> /\ horizon <= Len(log)
      BY <2>1 DEF SourceMoves, Moved, walkVars, sweepVars, Places
    <2>3. ASSUME NEW d \in Docs
          PROVE  (ContentSettled(d, horizon) => ~Holds(src, d)) =>
                        (ContentSettled(d, horizon) => ~Holds(src, d))'
      BY <2>1, <2>2, SourceKeepsCovers
    <2> QED BY <2>2, <2>3 DEF PlanIsTrue, InFlush
  <1>2. CASE Enumerate
    <2>1. UNCHANGED <<src, log, kind, horizon>> /\ pc' \in {"inventory", "idle"}
          /\ (pc' = "inventory" => items' = [d \in Docs |-> src[d].ver])
      BY <1>2 DEF Enumerate, srcVars, walkVars
    <2>2. \A d \in Docs : src[d].ver = 0 => ~Holds(src, d)
      BY DEF Holds
    <2> QED BY <2>1, <2>2 DEF PlanIsTrue, InFlush, Holds
  <1>3. CASE Inventory
    <2>1. /\ UNCHANGED <<src, log, kind, horizon>> /\ pc' \in {"repair", "idle"} /\ pc = "inventory"
          /\ pc' = "repair" => \A d \in plan'.gone : items[d] = 0
      BY <1>3 DEF Inventory, srcVars, walkVars
    <2>2. \A d \in Docs : ContentSettled(d, horizon)' <=> ContentSettled(d, horizon)
      BY <2>1, SameSource
    <2> QED BY <2>1, <2>2 DEF PlanIsTrue, InFlush, Holds
  <1>4. CASE Repair
    <2>1. /\ UNCHANGED <<src, log, kind, horizon>> /\ pc' \in {"repair", "put", "idle"}
          /\ pc = "repair" /\ plan'.gone \subseteq plan.gone
      BY <1>4, RepairMoves
    <2>2. \A d \in Docs : ContentSettled(d, horizon)' <=> ContentSettled(d, horizon)
      BY <2>1, SameSource
    <2> QED BY <2>1, <2>2 DEF PlanIsTrue, InFlush, Holds
  <1>5. CASE Flush \/ RepairDone
    <2>1. /\ UNCHANGED <<src, log, kind, plan, horizon>> /\ pc' # "inventory"
          /\ pc = "repair" \/ InFlush
      BY <1>5 DEF Flush, FlushPut, FlushDelete, FlushPerms, FlushSave, FlushFailed, FlushFailedInRun,
         FlushFailedInSweep, AfterFlush, RepairDone, LastFlush, InFlush, srcVars, walkVars, sweepVars
    <2>2. \A d \in Docs : ContentSettled(d, horizon)' <=> ContentSettled(d, horizon)
      BY <2>1, SameSource
    <2> QED BY <2>1, <2>2 DEF PlanIsTrue, Holds
  <1>6. CASE \/ StartRun \/ Emit \/ EmitNoID \/ SyncFails \/ SyncDone \/ FinalCursor \/ SkipSweep
             \/ StartSweep \/ Crash \/ Restart
    <2>1. pc' # "inventory" /\ (kind' = "run" \/ pc' \in {"idle", "down", "enumerate"})
      BY <1>6 DEF StartRun, Emit, EmitDelete, EmitNothing, EmitDoc, EmitPerms, Due, EmitNoID,
         SyncFails, SyncDone, LastFlush, FinalCursor, SkipSweep, StartSweep, Crash, Restart, Control,
         MaybeFlush
    <2> QED BY <2>1 DEF PlanIsTrue, InFlush
  <1>7. CASE UNCHANGED vars
    <2>1. \A d \in Docs : ContentSettled(d, horizon)' <=> ContentSettled(d, horizon)
      BY <1>7, SameSource DEF vars
    <2> QED BY <1>7, <2>1 DEF PlanIsTrue, InFlush, Holds, vars
  <1>8. CASE NextPage
    BY <1>8 DEF NextPage
  <1> QED BY <1>1, <1>2, <1>3, <1>4, <1>5, <1>6, <1>7, <1>8 DEF Next

-----------------------------------------------------------------------------
(* What is stored covers the checkpoint, and what is in hand the walk.     *)

\* A flush writes nothing that is not true of what the checkpoint covers.
LEMMA FlushKeepsCovers ==
    ASSUME IInv, Flush, NEW d \in Docs PROVE Covers(store'[d], d, saved)
  <1> USE DEF IInv
  <1> USE PlacesAreNumbers
  <1>1. Covers(store[d], d, saved)
    BY DEF StoreCovers
  <1>2. /\ ContentSettled(d, saved) => ContentSettled(d, horizon)
        /\ Settled(d, saved) => Settled(d, horizon)
        /\ Settled(d, saved) => ContentSettled(d, saved)
        /\ \A x : Covers(x, d, horizon) => Covers(x, d, saved)
    BY SettledGrows DEF Places
  <1>3. CASE FlushPut
    <2>1. store'[d] = store[d] \/ (Holds(puts, d) /\ store'[d] = puts[d])
      BY <1>3 DEF FlushPut
    <2> QED BY <1>1, <1>2, <2>1 DEF QueueIsTrue
  <1>4. CASE FlushDelete
    <2>1. store'[d] = store[d] \/ (d \in dels /\ store'[d] = Gone)
      BY <1>4 DEF FlushDelete
    <2>2. d \in dels /\ ContentSettled(d, saved) => src[d] = Gone
      BY <1>2 DEF QueueIsTrue, SourceIsGone
    <2> QED BY <1>1, <1>2, <2>1, <2>2 DEF Covers, Matches
  <1>5. CASE FlushPerms
    <2>1. \/ store'[d] = store[d]
          \/ perms[d].set /\ store'[d] = [store[d] EXCEPT !.acl = perms[d].acl] /\ Holds(store, d)
      BY <1>5 DEF FlushPerms
    <2>2. CASE /\ perms[d].set /\ store'[d] = [store[d] EXCEPT !.acl = perms[d].acl]
               /\ Holds(store, d)
      <3>1. store'[d] = [ver |-> store[d].ver, acl |-> perms[d].acl]
        BY <2>2 DEF TypeOK, Doc
      <3>2. ASSUME Wanted(d), Settled(d, saved) PROVE Matches(store'[d], d)
        <4>1. /\ perms[d].acl \in {src[d].acl, Held}
              /\ store[d].ver = src[d].ver
          BY <1>1, <1>2, <2>2, <3>2 DEF QueueIsTrue, Covers
        <4>2. Holds(src, d) /\ src[d] = [ver |-> src[d].ver, acl |-> src[d].acl]
          BY <2>2, <4>1 DEF Holds, TypeOK
        <4> QED BY <3>1, <4>1, <4>2 DEF Matches
      <3> QED BY <1>1, <3>1, <3>2 DEF Covers
    <2> QED BY <1>1, <2>1, <2>2
  <1>6. CASE FlushSave
    BY <1>1, <1>6 DEF FlushSave
  <1> QED BY <1>3, <1>4, <1>5, <1>6 DEF Flush

\* The index at the moment a checkpoint is written has what it covers.
LEMMA SavedIsCovered ==
    ASSUME IInv, FlushSave \/ FinalCursor, NEW d \in Docs PROVE Covers(store[d], d, saved')
  <1> USE DEF IInv
  <1> USE PlacesAreNumbers
  <1>1. Covers(store[d], d, saved)
    BY DEF StoreCovers
  <1>2. queued = 0 /\ NoQueue /\ pc \in {"save", "final"}
    BY DEF FlushSave, FinalCursor, Control
  <1>3. kind = "run" => Covers(store[d], d, pos)
    BY <1>2, NoQueueResult DEF WalkCovers, InFlush
  <1>4. CASE FlushSave
    <2>1. saved' \in {saved, pending} /\ (kind = "sweep" => saved' = saved)
      BY <1>4 DEF FlushSave, SaveCursor, Control
    <2>2. kind = "run" => Covers(store[d], d, pending)
      BY <1>3, SettledGrows DEF Places
    <2> QED BY <1>1, <2>1, <2>2 DEF TypeOK
  <1>5. CASE FinalCursor
    <2>1. saved' \in {saved, horizon} /\ pos = horizon /\ kind = "run"
      BY <1>5 DEF FinalCursor, SaveCursor, Places, Control
    <2> QED BY <1>1, <1>3, <2>1
  <1> QED BY <1>4, <1>5

LEMMA StoreCoversStep == ASSUME IInv, TypeOK', ~Repeats, [Next]_vars PROVE StoreCovers'
  <1> USE DEF IInv
  <1> USE PlacesAreNumbers
  <1>1. CASE Source
    <2>1. PICK e \in Docs : SourceMoves(e)
      BY <1>1, SourceIsMoves
    <2>2. UNCHANGED <<store, saved>> /\ saved <= Len(log)
      BY <2>1 DEF SourceMoves, Moved, Places
    <2>3. \A d \in Docs : \A x : Covers(x, d, saved) => Covers(x, d, saved)'
      BY <2>1, <2>2, SourceKeepsCovers
    <2> QED BY <2>2, <2>3 DEF StoreCovers
  <1>2. CASE UNCHANGED <<src, log>> /\ \A d \in Docs : Covers(store'[d], d, saved')
    <2>1. ASSUME NEW d \in Docs PROVE Covers(store[d], d, saved)'
      <3>1. Covers(store'[d], d, saved')
        BY <1>2
      <3> QED BY <1>2, <3>1 DEF Covers, Settled, ContentSettled, Wanted, Matches, Holds
    <2> QED BY <2>1 DEF StoreCovers
  <1>3. CASE FlushPut \/ FlushDelete \/ FlushPerms
    <2>1. UNCHANGED <<src, log, saved>> /\ Flush
      BY <1>3 DEF Flush, FlushPut, FlushDelete, FlushPerms, srcVars
    <2> QED BY <1>2, <2>1, FlushKeepsCovers
  <1>4. CASE FlushSave \/ FinalCursor
    <2>1. UNCHANGED <<src, log, store>>
      BY <1>4 DEF FlushSave, FinalCursor, srcVars
    <2> QED BY <1>2, <1>4, <2>1, SavedIsCovered
  <1>5. CASE Crash
    <2>1. UNCHANGED <<src, log, store>> /\ saved' \in {saved, 0}
      BY <1>5 DEF Crash, srcVars
    <2>2. \A d \in Docs : Covers(store[d], d, saved) /\ Covers(store[d], d, 0)
      BY SettledGrows DEF StoreCovers
    <2> QED BY <1>2, <2>1, <2>2
  <1>6. CASE UNCHANGED <<src, log, store, saved>>
    BY <1>2, <1>6 DEF StoreCovers
  <1>7. \/ Source \/ FlushPut \/ FlushDelete \/ FlushPerms \/ FlushSave \/ FinalCursor \/ Crash
        \/ UNCHANGED <<src, log, store, saved>>
    BY DEF Next, vars, Flush, StartRun, NextPage, Emit, EmitDelete, EmitNothing, EmitDoc, EmitPerms,
       Due, EmitNoID, SyncFails, SyncDone, SkipSweep, StartSweep, Enumerate, Inventory, Repair,
       RepairGone, RefetchDoc, RefetchGone, RefetchFails, Refetch, RepairDone, Restart, srcVars
  <1> QED BY <1>1, <1>3, <1>4, <1>5, <1>6, <1>7

\* What an emitted change comes to, once queued.
LEMMA EmitCovers ==
    ASSUME IInv, TypeOK', NEW d \in Docs,
           EmitDelete(d) \/ EmitNothing(d) \/ EmitDoc(d) \/ EmitPerms(d),
           NEW e \in Docs
    PROVE  Covers(Result(e)', e, pos + 1)
  <1> USE DEF IInv
  <1> USE PlacesAreNumbers
  <1>1. /\ pc = "sync" /\ kind = "run" /\ pos < horizon /\ log[pos + 1].doc = d /\ horizon <= Len(log)
        /\ pos + 1 \in Nat /\ pos + 1 <= horizon /\ pos + 1 <= Len(log)
        /\ UNCHANGED <<src, log, store>>
    BY DEF Due, EmitDelete, EmitNothing, EmitDoc, EmitPerms, Control, Places, srcVars
  <1>2. Covers(Result(e), e, pos)
    BY <1>1 DEF WalkCovers
  <1>3. CASE e # d
    <2>1. puts'[e] = puts[e] /\ (e \in dels' <=> e \in dels) /\ perms'[e] = perms[e]
      BY <1>3 DEF EmitDelete, EmitNothing, EmitDoc, EmitPerms, TypeOK, queueVars
    <2>2. Result(e)' = Result(e)
      BY <1>1, <2>1 DEF Result, WithPerms, WithDels, WithPuts, Holds
    <2> QED BY <1>1, <1>2, <1>3, <2>2, WalkMoves
  <1>4. /\ ContentSettled(d, pos + 1) => ContentSettled(d, horizon)
        /\ Settled(d, pos + 1) => Settled(d, horizon) /\ ContentSettled(d, pos + 1)
    BY <1>1, SettledGrows
  <1>5. CASE EmitDelete(d)
    <2>1. d \in dels' /\ ~Holds(src, d) /\ src[d] = Gone
      BY <1>5 DEF EmitDelete, SourceIsGone
    <2>2. Result(d)' = Gone
      BY <2>1 DEF Result, WithPerms, WithDels, Gone
    <2>3. Covers(Gone, d, pos + 1)
      BY <2>1 DEF Covers, Matches
    <2> QED BY <1>3, <2>2, <2>3
  <1>6. CASE EmitNothing(d)
    <2>1. ~Wanted(d)
      BY <1>6 DEF EmitNothing, Wanted
    <2> QED BY <1>3, <2>1 DEF Covers
  <1>7. CASE EmitDoc(d)
    <2>1. Holds(src, d) /\ dels' = dels /\ perms' = perms
      BY <1>7 DEF EmitDoc
    <2>2. PICK r \in Read(d) : puts' = [puts EXCEPT ![d] = r]
      BY <1>7 DEF EmitDoc
    <2>3. puts'[d] = r /\ r \in Doc /\ r.ver = src[d].ver /\ r.acl \in {src[d].acl, Held}
          /\ Holds(puts', d)
      BY <2>1, <2>2, ReadIsTyped DEF TypeOK, Holds
    <2>4. CASE ContentSettled(d, pos + 1)
      <3>1. d \notin dels
        BY <1>4, <2>1, <2>4 DEF QueueIsTrue
      <3>2. WithDels(d)' = r
        BY <2>1, <2>3, <3>1 DEF WithDels, WithPuts, Holds
      <3>3. Result(d)' = IF perms[d].set THEN [r EXCEPT !.acl = perms[d].acl] ELSE r
        BY <2>1, <2>3, <3>2 DEF Result, WithPerms, Holds
      <3>4. [r EXCEPT !.acl = perms[d].acl] = [ver |-> r.ver, acl |-> perms[d].acl]
            /\ r = [ver |-> r.ver, acl |-> r.acl]
            /\ src[d] = [ver |-> src[d].ver, acl |-> src[d].acl]
        BY <2>3 DEF Doc, TypeOK
      <3>5. Settled(d, pos + 1) /\ perms[d].set => perms[d].acl \in {src[d].acl, Held}
        BY <1>4, <2>1 DEF QueueIsTrue, Wanted
      <3>6. PICK a : Result(d)' = [ver |-> src[d].ver, acl |-> a]
                     /\ (Settled(d, pos + 1) => a \in {src[d].acl, Held})
        BY <2>3, <3>3, <3>4, <3>5
      <3> QED BY <1>3, <2>1, <3>4, <3>6 DEF Covers, Matches
    <2>5. CASE ~ContentSettled(d, pos + 1)
      BY <1>3, <1>4, <2>5 DEF Covers
    <2> QED BY <2>4, <2>5
  <1>8. CASE EmitPerms(d)
    <2>1. Holds(src, d) /\ dels' = dels /\ puts' = puts /\ log[pos + 1].shared
      BY <1>8 DEF EmitPerms
    <2>2. PICK r \in Read(d) : perms' = [perms EXCEPT ![d] = [set |-> TRUE, acl |-> r.acl]]
      BY <1>8 DEF EmitPerms
    <2>3. perms'[d].set /\ perms'[d].acl \in {src[d].acl, Held}
      BY <2>2, ReadIsTyped DEF TypeOK
    <2>4. CASE ContentSettled(d, pos + 1)
      <3>1. Wanted(d) /\ ContentSettled(d, pos)
        BY <1>1, <2>1, <2>4, WalkMoves DEF Wanted
      <3>2. Result(d).ver = src[d].ver
        BY <1>1, <3>1 DEF Covers, WalkCovers
      <3>3. WithDels(d)' = WithDels(d) /\ WithDels(d) \in Doc
        BY <1>1, <2>1, ValuesAreTyped DEF WithDels, WithPuts, Holds, TypeOK
      <3>4. WithDels(d).ver = src[d].ver /\ src[d].ver > 0
        BY <2>1, <3>2, <3>3 DEF Result, WithPerms, Doc, Holds
      <3>5. Result(d)' = [ver |-> src[d].ver, acl |-> perms'[d].acl]
        BY <2>3, <3>3, <3>4 DEF Result, WithPerms, Doc
      <3>6. src[d] = [ver |-> src[d].ver, acl |-> src[d].acl]
        BY DEF TypeOK
      <3> QED BY <1>3, <2>1, <2>3, <3>5, <3>6 DEF Covers, Matches
    <2>5. CASE ~ContentSettled(d, pos + 1)
      BY <1>3, <1>4, <2>5 DEF Covers
    <2> QED BY <2>4, <2>5
  <1> QED BY <1>5, <1>6, <1>7, <1>8

LEMMA WalkCoversStep == ASSUME IInv, TypeOK', ~Repeats, [Next]_vars PROVE WalkCovers'
  <1> USE DEF IInv
  <1> USE PlacesAreNumbers
  <1> DEFINE Walking == kind = "run" /\ (pc \in {"sync", "final"} \/ InFlush)
  <1>1. CASE Source
    <2>1. PICK e \in Docs : SourceMoves(e)
      BY <1>1, SourceIsMoves
    <2>2. /\ UNCHANGED <<pc, kind, pos, store, puts, dels, perms>> /\ pos <= Len(log)
      BY <2>1 DEF SourceMoves, Moved, walkVars, queueVars, Places
    <2>3. \A d \in Docs : Result(d)' = Result(d)
      BY <2>2 DEF Result, WithPerms, WithDels, WithPuts, Holds
    <2>4. \A d \in Docs : \A x : Covers(x, d, pos) => Covers(x, d, pos)'
      BY <2>1, <2>2, SourceKeepsCovers
    <2> QED BY <2>2, <2>3, <2>4 DEF WalkCovers, InFlush
  <1>2. CASE /\ UNCHANGED <<src, log>>
             /\ \A d \in Docs : Walking' => Covers(Result(d)', d, pos')
    <2>1. ASSUME Walking', NEW d \in Docs PROVE Covers(Result(d), d, pos)'
      <3>1. Covers(Result(d)', d, pos')
        BY <1>2, <2>1
      <3> QED BY <1>2, <3>1 DEF Covers, Settled, ContentSettled, Wanted, Matches, Holds
    <2> QED BY <2>1 DEF WalkCovers
  <1>3. CASE StartRun
    <2>1. UNCHANGED <<src, log, store>> /\ pos' = saved /\ NoQueue'
      BY <1>3 DEF StartRun, NewRun, EmptyQueue, NoQueue, srcVars
    <2>2. \A d \in Docs : Result(d)' = store[d]
      BY <2>1 DEF NoQueue, NoDoc, NoPerms, NoChange, Gone, Result, WithPerms, WithDels, WithPuts, Holds
    <2> QED BY <1>2, <2>1, <2>2 DEF StoreCovers
  <1>4. CASE Emit
    <2> PICK d \in Docs : EmitDelete(d) \/ EmitNothing(d) \/ EmitDoc(d) \/ EmitPerms(d)
      BY <1>4 DEF Emit
    <2>1. UNCHANGED <<src, log>> /\ pos' = pos + 1
      BY DEF Due, EmitDelete, EmitNothing, EmitDoc, EmitPerms, srcVars
    <2> QED BY <1>2, <2>1, EmitCovers
  <1>5. CASE EmitNoID \/ SyncFails \/ SyncDone
    <2>1. UNCHANGED <<src, log, store, puts, dels, perms, pos, kind>> /\ pc = "sync"
      BY <1>5 DEF EmitNoID, SyncFails, SyncDone, srcVars, queueVars, walkVars
    <2>2. \A d \in Docs : Result(d)' = Result(d)
      BY <2>1 DEF Result, WithPerms, WithDels, WithPuts, Holds
    <2> QED BY <1>2, <2>1, <2>2 DEF WalkCovers
  <1>6. CASE Flush
    <2>1. UNCHANGED <<src, log, pos, kind>> /\ InFlush
      BY <1>6 DEF Flush, FlushPut, FlushDelete, FlushPerms, FlushSave, InFlush, srcVars, walkVars
    <2>2. \A d \in Docs : Result(d)' = Result(d)
      BY <1>6, FlushKeepsResult
    <2> QED BY <1>2, <2>1, <2>2 DEF WalkCovers
  <1>7. CASE \/ FinalCursor \/ SkipSweep \/ StartSweep \/ Enumerate \/ Inventory \/ Repair
             \/ RepairDone \/ Crash \/ Restart
    <2>1. kind' = "sweep" \/ pc' \in {"idle", "down", "synced"}
      BY <1>7 DEF FinalCursor, SkipSweep, StartSweep, Enumerate, Inventory, Repair, RepairGone,
         RefetchDoc, RefetchGone, RefetchFails, Refetch, RepairDone, Crash, Restart, Control, TypeOK
    <2> QED BY <2>1 DEF WalkCovers, InFlush
  <1>8. CASE UNCHANGED vars
    <2>1. UNCHANGED <<src, log, pc, kind, store, puts, dels, perms, pos>>
      BY <1>8 DEF vars
    <2>2. \A d \in Docs : Result(d)' = Result(d)
      BY <2>1 DEF Result, WithPerms, WithDels, WithPuts, Holds
    <2> QED BY <1>2, <2>1, <2>2 DEF WalkCovers, InFlush
  <1>9. CASE NextPage
    BY <1>9 DEF NextPage
  <1> QED BY <1>1, <1>3, <1>4, <1>5, <1>6, <1>7, <1>8, <1>9 DEF Next

LEMMA InvInit == Init => IInv /\ SInv
  <1> SUFFICES ASSUME Init PROVE IInv /\ SInv
    OBVIOUS
  <1>1. TypeOK
    BY TypeInit
  <1>2. NoQueue /\ queued = 0 /\ pc = "idle" /\ kind = "run" /\ pending = 0
    BY DEF Init, NoQueue
  <1>3. Control
    BY <1>2 DEF Control, InFlush
  <1>4. SourceIsGone
    BY DEF Init, SourceIsGone, NoDoc
  <1>5. Flushing /\ PlanIsTrue /\ WalkCovers
    BY <1>2 DEF Flushing, PlanIsTrue, WalkCovers, InFlush
  <1>6. Places
    BY DEF Init, Places, InFlush
  <1>7. QueueIsTrue
    BY <1>2 DEF QueueIsTrue, NoQueue, NoDoc, NoPerms, NoChange, Holds, Gone
  <1>8. StoreCovers
    BY DEF Init, StoreCovers, Covers, Matches
  <1>9. SweepIsTrue
    BY <1>2 DEF SweepIsTrue, NoQueue, InFlush
  <1> QED BY <1>1, <1>3, <1>4, <1>5, <1>6, <1>7, <1>8, <1>9 DEF IInv, SInv

LEMMA InvStep == ASSUME IInv, ~Repeats, [Next]_vars PROVE IInv'
  <1>1. TypeOK'
    BY TypeStep DEF IInv
  <1>2. Control' /\ SourceIsGone' /\ Flushing'
    BY ControlStep, SourceIsGoneStep, FlushingStep DEF IInv
  <1>3. Places'
    BY <1>1, PlacesStep DEF IInv
  <1>4. QueueIsTrue'
    BY <1>1, QueueIsTrueStep
  <1>5. PlanIsTrue' /\ StoreCovers' /\ WalkCovers'
    BY <1>1, PlanIsTrueStep, StoreCoversStep, WalkCoversStep
  <1> QED BY <1>1, <1>2, <1>3, <1>4, <1>5 DEF IInv

\* ingest.go flush: a checkpoint is written only after what it covers is
\* stored, so a run that resumes from it never has to look back.  Of a walk that
\* lists its log once: one that pages through a source still changing may queue a
\* removal and a later version of one document in the same batch.
THEOREM CheckpointIsHonest == ASSUME ~Repeats PROVE Spec => []CheckpointCovers
  <1>1. IInv => CheckpointCovers
    <2> SUFFICES ASSUME IInv, NEW d \in Docs, Settled(d, saved), Wanted(d) PROVE Agrees(d)
      BY DEF CheckpointCovers, Wanted
    <2>1. Covers(store[d], d, saved)
      BY DEF IInv, StoreCovers
    <2> QED BY <2>1 DEF Covers, Matches, Agrees
  <1>2. IInv /\ [Next]_vars => IInv'
    BY InvStep
  <1> QED BY <1>1, <1>2, InvInit, PTL DEF Spec

-----------------------------------------------------------------------------
(* A sweep.                                                                *)

\* A sweep changes no list, so the index comes to what it holds, puts what was
\* fetched and drops what is gone.
LEMMA SweepResult ==
    ASSUME TypeOK, Control, kind = "sweep", NEW d \in Docs PROVE Result(d) = WithDels(d)
  BY DEF Control, Result, WithPerms, NoPerms, NoChange

\* Outside a sweep, and outside its repair, the plan says nothing.
LEMMA NoSweepIsTrue ==
    ASSUME UNCHANGED src, touched \subseteq touched', \A d \in dels' : d \in dels \/ ~Holds(src, d),
           \A d \in dels \ touched : ~Holds(src, d),
           pc' # "inventory", kind' = "run" \/ pc' \in {"idle", "down", "enumerate"}
    PROVE  SweepIsTrue'
  BY DEF SweepIsTrue, InFlush, Holds

LEMMA InventoryIsTrue == ASSUME SInv, TypeOK', Inventory PROVE SweepIsTrue'
  <1> USE DEF SInv
  <1>1. /\ pc = "inventory" /\ NoQueue /\ kind = "sweep"
        /\ UNCHANGED <<src, store, kind, touched, puts, dels, perms>>
        /\ pc' \in {"repair", "idle"}
    BY DEF Inventory, Control, srcVars, queueVars
  <1>2. CASE pc' = "repair"
    <2>1. /\ plan'.gone = {d \in Docs : Holds(store, d) /\ items[d] = 0}
          /\ \A d \in Docs \ (plan'.gone \cup plan'.want) : store[d].ver = items[d]
      <3> DEFINE indexed == {d \in Docs : Holds(store, d)}
                 listed == {d \in Docs : items[d] # 0}
                 stale == {d \in indexed \cap listed : items[d] # store[d].ver}
      <3>1. plan' = [gone |-> indexed \ listed, want |-> (listed \ indexed) \cup stale,
                     held |-> {d \in (indexed \cap listed) \ stale : store[d].acl = Held}]
        BY <1>2 DEF Inventory
      <3>2. \A d \in Docs : store[d].ver \in Nat
        BY ValuesAreTyped DEF TypeOK, Doc
      <3> QED BY <3>1, <3>2 DEF Holds
    <2>2. \A d \in Docs \ touched : items[d] = src[d].ver
      BY <1>1 DEF SweepIsTrue, Untouched
    <2>3. \A d \in plan'.gone \ touched' : ~Holds(src', d)
      BY <1>1, <2>1, <2>2 DEF Holds
    <2>4. \A d \in Docs : Result(d)' = store[d]
      BY <1>1 DEF NoQueue, NoDoc, NoPerms, NoChange, Gone, Result, WithPerms, WithDels, WithPuts, Holds
    <2>5. \A d \in (Docs \ touched) \ (plan'.gone \cup plan'.want) : Result(d)'.ver = src'[d].ver
      BY <1>1, <2>1, <2>2, <2>4
    <2>6. dels' = {}
      BY <1>1 DEF NoQueue
    <2>7. pc' # "inventory" /\ ~InFlush'
      BY <1>2 DEF InFlush
    <2> QED BY <1>1, <2>3, <2>5, <2>6, <2>7 DEF SweepIsTrue, Untouched
  <1>3. CASE pc' = "idle"
    BY <1>1, <1>3, NoSweepIsTrue DEF SweepIsTrue
  <1> QED BY <1>1, <1>2, <1>3

LEMMA RepairIsTrue == ASSUME SInv, TypeOK', Control', Repair PROVE SweepIsTrue'
  <1> USE DEF SInv
  <1> PICK d \in Docs : RepairGone(d) \/ RefetchDoc(d) \/ RefetchGone(d) \/ RefetchFails(d)
    BY DEF Repair
  <1>1. /\ pc = "repair" /\ kind = "sweep" /\ kind' = "sweep"
        /\ UNCHANGED <<src, store, touched, perms>>
    BY DEF Control, Refetch, RepairGone, RefetchDoc, RefetchGone, RefetchFails, srcVars
  <1>2. /\ \A e \in plan.gone \ touched : ~Holds(src, e)
        /\ \A e \in Untouched \ (plan.gone \cup plan.want) : Result(e).ver = src[e].ver
        /\ \A e \in dels \ touched : ~Holds(src, e)
    BY <1>1 DEF SweepIsTrue
  <1>3. \A e \in Docs : Result(e) = WithDels(e) /\ Result(e)' = WithDels(e)'
    <2>1. perms' = NoPerms /\ perms = NoPerms
      BY <1>1 DEF Control
    <2> QED BY <2>1 DEF Result, WithPerms, NoPerms, NoChange
  <1>4. plan = [gone |-> plan.gone, want |-> plan.want, held |-> plan.held]
    BY DEF TypeOK
  <1>5. CASE RepairGone(d) \/ RefetchDoc(d) \/ RefetchGone(d)
    <2>1. pc' \in {"repair", "put"} /\ tail' = FALSE
      BY <1>5 DEF RepairGone, RefetchDoc, RefetchGone, MaybeFlush
    <2>2. /\ plan'.gone \subseteq plan.gone
          /\ plan.gone \cup plan.want \subseteq plan'.gone \cup plan'.want \cup {d}
      BY <1>4, <1>5 DEF RepairGone, RefetchDoc, RefetchGone, Refetched
    <2>3. \/ dels' = dels /\ Holds(src, d) /\ \E r \in Read(d) : puts' = [puts EXCEPT ![d] = r]
          \/ dels' = dels \cup {d} /\ puts' = puts /\ (d \in touched \/ ~Holds(src, d))
      BY <1>2, <1>5 DEF RepairGone, RefetchDoc, RefetchGone
    <2>4. \A e \in dels' \ touched : ~Holds(src, e)
      BY <1>2, <2>3
    <2>5. ASSUME NEW e \in Docs \ {d} PROVE Result(e)' = Result(e)
      <3>1. puts'[e] = puts[e] /\ (e \in dels' <=> e \in dels)
        BY <2>3 DEF TypeOK
      <3> QED BY <1>1, <1>3, <3>1 DEF WithDels, WithPuts, Holds
    <2>6. d \notin touched => Result(d)'.ver = src[d].ver
      <3> SUFFICES ASSUME d \notin touched PROVE WithDels(d)'.ver = src[d].ver
        BY <1>3
      <3>1. CASE dels' = dels \cup {d} /\ ~Holds(src, d)
        <4>1. src[d] = Gone /\ WithDels(d)' = Gone
          BY <3>1 DEF SourceIsGone, WithDels, Gone
        <4> QED BY <4>1
      <3>2. CASE dels' = dels /\ Holds(src, d)
        <4>1. PICK r \in Read(d) : puts' = [puts EXCEPT ![d] = r]
          BY <2>3, <3>2
        <4>2. puts'[d] = r /\ r.ver = src[d].ver /\ d \notin dels'
          BY <1>2, <3>2, <4>1, ReadIsTyped DEF TypeOK
        <4> QED BY <3>2, <4>2 DEF WithDels, WithPuts, Holds
      <3> QED BY <2>3, <3>1, <3>2
    <2>7. \A e \in (Docs \ touched) \ (plan'.gone \cup plan'.want) : Result(e)'.ver = src[e].ver
      BY <1>2, <2>2, <2>5, <2>6 DEF Untouched
    <2>8. \A e \in plan'.gone \ touched : ~Holds(src, e)
      BY <1>2, <2>2
    <2> QED BY <1>1, <2>1, <2>4, <2>7, <2>8 DEF SweepIsTrue, Untouched, Holds
  <1>6. CASE RefetchFails(d)
    <2>1. pc' = "idle" /\ dels' = dels
      BY <1>6 DEF RefetchFails
    <2> QED BY <1>1, <1>2, <2>1, NoSweepIsTrue
  <1> QED BY <1>5, <1>6

LEMMA SweepIsTrueStep == ASSUME SInv, TypeOK', Control', [Next]_vars PROVE SweepIsTrue'
  <1> USE DEF SInv
  <1>1. CASE Source
    <2>1. PICK e \in Docs : SourceMoves(e)
      BY <1>1, SourceIsMoves
    <2>2. /\ UNCHANGED <<pc, kind, tail, store, puts, dels, perms, items, plan>>
          /\ touched' = touched \cup {e}
          /\ \A d \in Docs \ {e} : src'[d] = src[d]
      BY <2>1 DEF SourceMoves, Moved, queueVars, sweepVars
    <2>3. \A d \in Docs : Result(d)' = Result(d)
      BY <2>2 DEF Result, WithPerms, WithDels, WithPuts, Holds
    <2>4. \A d \in Docs \ touched' : src'[d] = src[d] /\ d \notin touched /\ (Holds(src, d)' <=> Holds(src, d))
      BY <2>2 DEF Holds
    <2>5. dels \subseteq Docs /\ plan.gone \subseteq Docs
      BY DEF TypeOK
    <2> QED BY <2>2, <2>3, <2>4, <2>5 DEF SweepIsTrue, Untouched, InFlush
  <1>2. CASE \/ StartRun \/ NextPage \/ Emit \/ EmitNoID \/ SyncFails \/ SyncDone \/ FinalCursor
             \/ SkipSweep \/ StartSweep \/ Crash \/ Restart
    <2>1. /\ UNCHANGED <<src, touched>> /\ pc' # "inventory"
          /\ kind' = "run" \/ pc' \in {"idle", "down", "enumerate"}
      BY <1>2 DEF StartRun, NextPage, Emit, EmitDelete, EmitNothing, EmitDoc, EmitPerms, Due, EmitNoID,
         SyncFails, SyncDone, LastFlush, FinalCursor, SkipSweep, StartSweep, Crash, Restart, Control,
         MaybeFlush, srcVars
    <2>2. \A d \in dels' : d \in dels \/ ~Holds(src, d)
      BY <1>2 DEF StartRun, NextPage, Emit, EmitDelete, EmitNothing, EmitDoc, EmitPerms, EmitNoID,
         SyncFails, SyncDone, FinalCursor, SkipSweep, StartSweep, Crash, Restart, NewRun, EmptyQueue,
         queueVars
    <2> QED BY <2>1, <2>2, NoSweepIsTrue DEF SweepIsTrue
  <1>3. CASE Enumerate
    <2>1. /\ UNCHANGED <<src, dels>> /\ dels = {} /\ pc' \in {"inventory", "idle"}
          /\ pc' = "inventory" => items' = [d \in Docs |-> src[d].ver]
      BY <1>3 DEF Enumerate, Control, NoQueue, srcVars, queueVars
    <2> QED BY <2>1 DEF SweepIsTrue, Untouched, InFlush
  <1>4. CASE Inventory
    BY <1>4, InventoryIsTrue
  <1>5. CASE Repair
    BY <1>5, RepairIsTrue
  <1>6. CASE RepairDone
    <2>1. /\ UNCHANGED <<src, kind, store, puts, dels, perms, plan, touched>>
          /\ pc = "repair" /\ pc' # "inventory"
          /\ HasFetcher => plan.gone = {} /\ plan.want = {}
      BY <1>6 DEF RepairDone, LastFlush, srcVars, queueVars, sweepVars
    <2>2. \A d \in Docs : Result(d)' = Result(d)
      BY <2>1 DEF Result, WithPerms, WithDels, WithPuts, Holds
    <2> QED BY <2>1, <2>2 DEF SweepIsTrue, Untouched, Holds
  <1>7. CASE Flush
    <2>1. /\ UNCHANGED <<src, kind, plan, touched>> /\ dels' \in {dels, {}}
          /\ InFlush /\ pc' # "inventory"
          /\ kind = "sweep" => tail' = tail
          /\ InFlush' \/ pc' \in {"repair", "idle"} \/ kind = "run"
      BY <1>7 DEF Flush, FlushPut, FlushDelete, FlushPerms, FlushSave, FlushFailed, FlushFailedInRun,
         FlushFailedInSweep, AfterFlush, EmptyQueue, InFlush, srcVars, queueVars, sweepVars, TypeOK
    <2>2. \A d \in Docs : Result(d)' = Result(d)
      BY <1>7, FlushKeepsResult
    <2> QED BY <2>1, <2>2 DEF SweepIsTrue, Untouched, Holds
  <1>8. CASE UNCHANGED vars
    <2>1. UNCHANGED <<src, pc, kind, tail, store, puts, dels, perms, items, plan, touched>>
      BY <1>8 DEF vars
    <2>2. \A d \in Docs : Result(d)' = Result(d)
      BY <2>1 DEF Result, WithPerms, WithDels, WithPuts, Holds
    <2> QED BY <2>1, <2>2 DEF SweepIsTrue, Untouched, Holds, InFlush
  <1> QED BY <1>1, <1>2, <1>3, <1>4, <1>5, <1>6, <1>7, <1>8 DEF Next

LEMMA SInvStep == SInv /\ [Next]_vars => SInv'
  <1> SUFFICES ASSUME SInv, [Next]_vars PROVE SInv'
    OBVIOUS
  <1>1. TypeOK' /\ Control' /\ SourceIsGone' /\ Flushing'
    BY TypeStep, ControlStep, SourceIsGoneStep, FlushingStep DEF SInv
  <1>2. SweepIsTrue'
    BY <1>1, SweepIsTrueStep
  <1> QED BY <1>1, <1>2 DEF SInv

\* A document leaves the index only by the second write of a flush.
LEMMA Removes ==
    ASSUME SInv, [Next]_vars, NEW d \in Docs, Holds(store, d), ~Holds(store', d)
    PROVE  ~Holds(src, d) \/ d \in touched
  <1> USE DEF SInv
  <1>1. CASE FlushDelete
    <2>1. d \in dels
      BY <1>1 DEF FlushDelete, Holds
    <2> QED BY <2>1 DEF SweepIsTrue
  <1>2. CASE FlushPut
    BY <1>2 DEF FlushPut, Holds
  <1>3. CASE FlushPerms
    <2>1. store'[d] = store[d] \/ store'[d] = [store[d] EXCEPT !.acl = perms[d].acl]
      BY <1>3 DEF FlushPerms
    <2>2. store'[d].ver = store[d].ver
      BY <2>1 DEF TypeOK, Doc
    <2> QED BY <2>2 DEF Holds
  <1>4. CASE UNCHANGED store
    BY <1>4 DEF Holds
  <1>5. FlushDelete \/ FlushPut \/ FlushPerms \/ UNCHANGED store
    BY DEF Next, vars, Flush, FlushSave, Source, SourceWrites, SourceShares, SourceDeletes, Reported,
       Moved, StartRun, NextPage, Emit, EmitDelete, EmitNothing, EmitDoc, EmitPerms, Due, EmitNoID,
       SyncFails, SyncDone, FinalCursor, SkipSweep, StartSweep, Enumerate, Inventory, Repair,
       RepairGone, RefetchDoc, RefetchGone, RefetchFails, Refetch, RepairDone, Crash, Restart
  <1> QED BY <1>1, <1>2, <1>3, <1>4, <1>5

\* A sweep ends without an error in one of two places, with nothing in hand.
LEMMA Ends ==
    ASSUME SInv, [Next]_vars, SweepEnds
    PROVE  (RepairDone /\ NoQueue) \/ (FlushSave /\ NoQueue /\ tail /\ UNCHANGED <<src, store, touched>>)
  <1> USE DEF SInv
  <1>1. kind = "sweep" /\ pc # "idle" /\ pc' = "idle" /\ ~failed'
    BY DEF SweepEnds
  <1>2. ~Source
    BY <1>1, SourceIsMoves DEF SourceMoves, Moved
  <1>3. CASE Flush
    <2>1. ~FlushFailed
      BY <1>1 DEF FlushFailed, FlushFailedInRun, FlushFailedInSweep
    <2>2. FlushSave
      BY <1>1, <1>3, <2>1 DEF Flush, FlushPut, FlushDelete, FlushPerms
    <2>3. tail
      BY <1>1, <2>1, <2>2 DEF FlushSave, AfterFlush
    <2> QED BY <2>2, <2>3 DEF FlushSave, Control, srcVars
  <1>4. CASE RepairDone
    BY <1>1, <1>4 DEF RepairDone, LastFlush, Control
  <1>5. CASE Emit \/ Repair
    BY <1>1, <1>5 DEF Emit, EmitDelete, EmitNothing, EmitDoc, EmitPerms, Due, Repair, RepairGone,
       RefetchDoc, RefetchGone, RefetchFails, MaybeFlush, Control
  <1> QED BY <1>1, <1>2, <1>3, <1>4, <1>5
          DEF Next, vars, StartRun, NextPage, EmitNoID, SyncFails, SyncDone, FinalCursor, SkipSweep,
              StartSweep, Enumerate, Inventory, Crash, Restart, Control

LEMMA Repairs ==
    ASSUME SInv, [Next]_vars, SweepEnds, HasFetcher, NEW d \in Docs \ touched'
    PROVE  store'[d].ver = src'[d].ver
  <1> USE DEF SInv
  <1>1. NoQueue /\ kind = "sweep" /\ UNCHANGED <<src, store, touched>>
    BY Ends DEF SweepEnds, RepairDone, srcVars
  <1>2. plan.gone = {} /\ plan.want = {} /\ (pc = "repair" \/ InFlush)
    BY <1>1, Ends DEF RepairDone, FlushSave, InFlush, SweepIsTrue
  <1>3. Result(d).ver = src[d].ver
    BY <1>1, <1>2 DEF SweepIsTrue, Untouched
  <1> QED BY <1>1, <1>3, NoQueueResult

\* Reconcile: a sweep deletes nothing that is still there, whatever became of the
\* checkpoint and however the source moves under it, and one that can fetch leaves
\* everything it went over at the revision the source has.
THEOREM SweepsAreSafe == Spec => SweepIsSafe
  <1>1. SInv /\ [Next]_vars =>
            [\A d \in Docs : Holds(store, d) /\ ~Holds(store, d)' => ~Holds(src, d) \/ d \in touched]_vars
    BY Removes DEF Holds
  <1>2. SInv /\ [Next]_vars =>
            [SweepEnds /\ HasFetcher => \A d \in Docs \ touched' : store'[d].ver = src'[d].ver]_vars
    BY Repairs
  <1>3. Init => SInv
    BY InvInit
  <1> QED BY <1>1, <1>2, <1>3, SInvStep, PTL DEF Spec, SweepIsSafe, RemovedOnlyIfGone, SweepRepairs
=============================================================================
