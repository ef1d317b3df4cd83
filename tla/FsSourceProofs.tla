--------------------------- MODULE FsSourceProofs ---------------------------
(***************************************************************************)
(* What holds of the filesystem connector for every corpus and every       *)
(* bound, when the backend is prompt, takes every watch and no sync that   *)
(* has saved a cursor is cut short.                                        *)
(***************************************************************************)
EXTENDS FsSource, TLAPS

(***************************************************************************)
(* The inductive invariant.  The cursor a sync will be measured from has   *)
(* the index behind it, and every file a sync has still to put right is    *)
(* ahead of it or was changed since it started; under a trusted record,    *)
(* every file the index is wrong about is also named by it.                *)
(***************************************************************************)
Running == sync # Idle

\* The cursor a walk is measured from: the saved one, or the one a sync in
\* progress was given.
cursor == IF Running THEN sync.since ELSE saved

\* Nothing has been lost, or only before the walk that makes up for it.
Trusted == watching /\ (~lost \/ (Running /\ sync.kind = "walk" /\ ~stale))

DirQueued == \E e \in events : e.path = Dir
FileQueued(f) == overflow \/ f \in naming \/ (f \in InDir /\ DirQueued)

WriteNoted(f) ==
    \/ "write" \in seen[f]
    \/ tree[f].mod = now /\ (FileQueued(f) \/ [path |-> f, op |-> "write"] \in events)

ChangeNoted(f) ==
    \/ seen[f] # {}
    \/ tree[f].chg = now /\ (FileQueued(f) \/ \E e \in events : e.path = f)

RuleNoted ==
    \/ seen[Rule] # {}
    \/ rule.at = now /\ (overflow \/ \E e \in events : e.path = Rule)

PermNoted(f) == IF policy = "owners" THEN RuleNoted ELSE ChangeNoted(f)

Ahead(f) == Running /\ f \in sync.todo /\ sync.pos <= f
ToRead(f) == Ahead(f) /\ f \notin sync.quick

\* The cursor's promise, in a sync too.
CursorCovers ==
    /\ cursor < now
    /\ \A f \in Files : tree[f] # None /\ tree[f].mod <= cursor =>
          Read_(f) /\ (PermAt(f) <= cursor => Governed(f))

\* The files in the new directory are heard, or its own event is queued.
DirIsHeard ==
    /\ \A f \in InDir : tree[f] # None => dir # "absent"
    /\ watching /\ dir = "unwatched" => DirQueued

\* What a sync holds: a walk follows a loss, and what it has cached is out of
\* date only by a change made, and noted, since it started.
SyncIsFresh ==
    Running =>
        /\ sync.started <= now
        /\ sync.since < sync.started
        /\ sync.kind = "walk" => (watching => lost) /\ sync.quick = {}
        /\ sync.rule \notin {None, rule} =>
               rule.at >= sync.started /\ (Trusted => RuleNoted)
        /\ sync.pc = "read" =>
               /\ sync.info # None
               /\ sync.pos <= N
               /\ tree[At] # None /\ sync.info.mode # tree[At].mode =>
                      tree[At].chg >= sync.started /\ (Trusted => ChangeNoted(At))

\* What was there when the sync started is right, or ahead of it.
SyncCovers ==
    Running =>
        \A f \in Files : tree[f] # None /\ tree[f].mod < sync.started =>
            /\ Read_(f) \/ ToRead(f)
            /\ Read_(f) /\ ~Governed(f) /\ PermAt(f) < sync.started => Ahead(f)

\* Under a trusted record a file the index is wrong about is noted, or ahead.
RecordIsTrue ==
    Trusted =>
        \A f \in Files : tree[f] # None =>
            /\ Read_(f) \/ WriteNoted(f) \/ ToRead(f)
            /\ Read_(f) => Governed(f) \/ PermNoted(f) \/ Ahead(f)

\* No version is one of an edit still to come.
Numbered ==
    \A f \in Files :
        /\ tree[f] # None => tree[f].ver <= edits
        /\ index[f] # None => index[f].ver <= edits

IInv == TypeOK /\ Numbered /\ CursorCovers /\ DirIsHeard /\ SyncIsFresh /\ SyncCovers /\ RecordIsTrue

-----------------------------------------------------------------------------
(* Types.                                                                  *)

LEMMA Bounds ==
    /\ N \in Nat /\ Files = 1..N
    /\ InDir \subseteq Files
    /\ Rule \notin Files /\ Dir \notin Paths
    /\ MaxTime \in Nat /\ 2 \in Times /\ Times \subseteq Nat /\ 0 \in Times
    /\ MaxEdits \in Nat /\ Edits \subseteq Nat /\ 0 \in Edits
    /\ MaxFails \in Nat
BY ConstantsOK DEF ConstantsOK, N, Paths, Times, Edits

LEMMA NoneKinds ==
    None \notin File /\ None \notin RuleFile /\ None \notin [ver: Edits, perm: Edits]
BY NoneIsNothing

\* A sync in progress is a record of one.
LEMMA RunningRecord ==
    /\ Idle \notin UnderWay
    /\ TypeOK => (Running <=> sync \in UnderWay)
<1>1. Idle \notin UnderWay
  <2>1. \A s \in UnderWay : s.pc \in {"stat", "read"}
    BY DEF UnderWay
  <2>2. Idle.pc = "idle"
    BY DEF Idle
  <2>. QED BY <2>1, <2>2
<1>. QED BY <1>1 DEF TypeOK, Sync, Running

LEMMA LaterIsOne ==
    ASSUME NEW S, NEW s \in S, NEW t \in S
    PROVE  Later(s, t) \in S
BY DEF Later

LEMMA TypeInit == Init => TypeOK
<1>. SUFFICES ASSUME Init PROVE TypeOK
  OBVIOUS
<1>. USE Bounds
<1>1. rule \in RuleFile
  BY DEF Init, RuleFile
<1>2. seen \in [Paths -> SUBSET Ops]
  BY DEF Init, NoRecord
<1>3. tree \in [Files -> File \cup {None}]
  BY DEF Init
<1>4. index \in [Files -> [ver: Edits, perm: Edits] \cup {None}]
  BY DEF Init
<1>5. sync \in Sync
  BY DEF Init, Sync
<1>6. fails \in 0..MaxFails
  BY DEF Init
<1>. QED BY <1>1, <1>2, <1>3, <1>4, <1>5, <1>6 DEF Init, TypeOK

\* What a person does, short of the file it is done to.
LEMMA EditType ==
    ASSUME TypeOK, NEW p \in Paths \cup {Dir}, NEW op \in Ops, Edit(p, op)
    PROVE  /\ edits' = edits + 1 /\ edits' \in Edits
           /\ events' \subseteq [path: Paths \cup {Dir}, op: Ops]
           /\ overflow' \in BOOLEAN
           /\ UNCHANGED <<now, policy, fails, watching, naming, seen, lost, stale,
                          index, saved, sync>>
<1>1. edits' = edits + 1 /\ edits' \in Edits
  BY Bounds DEF Edit, TypeOK, Edits
<1>2. Raise(p, op)
  BY DEF Edit
<1>3. [path |-> p, op |-> op] \in [path: Paths \cup {Dir}, op: Ops]
  OBVIOUS
<1>4. events' \subseteq events \cup {[path |-> p, op |-> op]}
  BY <1>2 DEF Raise
<1>5. events' \subseteq [path: Paths \cup {Dir}, op: Ops]
  BY <1>3, <1>4 DEF TypeOK
<1>6. overflow' \in BOOLEAN
  BY <1>2 DEF Raise, TypeOK
<1>. QED BY <1>1, <1>5, <1>6 DEF Edit, recVars

\* mark records the path, or forgets everything.
LEMMA MarkType ==
    ASSUME TypeOK, NEW p \in Paths, NEW op \in Ops, Mark(p, op)
    PROVE  /\ seen' \in [Paths -> SUBSET Ops]
           /\ lost' \in BOOLEAN /\ stale' \in BOOLEAN
           /\ \/ lost' = TRUE /\ stale' = TRUE
              \/ /\ seen' = [seen EXCEPT ![p] = @ \cup {op}]
                 /\ UNCHANGED <<lost, stale>>
<1>1. CASE LoseLocked
  BY <1>1 DEF LoseLocked, NoRecord
<1>2. CASE seen' = [seen EXCEPT ![p] = @ \cup {op}] /\ UNCHANGED <<lost, stale>>
  <2>1. seen \in [Paths -> SUBSET Ops]
    BY DEF TypeOK
  <2>2. seen' \in [Paths -> SUBSET Ops]
    BY <1>2, <2>1
  <2>. QED BY <1>2, <2>2 DEF TypeOK
<1>. QED BY <1>1, <1>2 DEF Mark

LEMMA PeopleType ==
    ASSUME TypeOK,
           \/ \E f \in Files : Write(f) \/ Chmod(f) \/ Delete(f)
           \/ EditRule \/ Mkdir \/ Tick
    PROVE  TypeOK'
<1>. USE Bounds
<1>1. ASSUME NEW f \in Files, Write(f) PROVE TypeOK'
  <2>1. Edit(f, "write") /\ UNCHANGED <<rule, dir>>
    BY <1>1 DEF Write
  <2>2. f \in Paths \cup {Dir} /\ "write" \in Ops
    BY DEF Paths, Ops
  <2>3. tree' = [tree EXCEPT ![f] = [ver |-> edits + 1, mod |-> now, chg |-> now,
                                     mode |-> IF @ = None THEN 0 ELSE @.mode]]
    BY <1>1 DEF Write
  <2>4. edits + 1 \in Edits
    BY EditType, <2>1, <2>2
  <2>5. (IF tree[f] = None THEN 0 ELSE tree[f].mode) \in Edits
    BY DEF TypeOK, File
  <2>6. tree' \in [Files -> File \cup {None}]
    BY <2>3, <2>4, <2>5 DEF TypeOK, File
  <2>. QED BY EditType, <2>1, <2>2, <2>6 DEF TypeOK
<1>2. ASSUME NEW f \in Files, Chmod(f) PROVE TypeOK'
  <2>1. Edit(f, "chmod") /\ UNCHANGED <<rule, dir>> /\ tree[f] # None
    BY <1>2 DEF Chmod
  <2>2. f \in Paths \cup {Dir} /\ "chmod" \in Ops
    BY DEF Paths, Ops
  <2>3. tree' = [tree EXCEPT ![f] = [@ EXCEPT !.mode = edits + 1, !.chg = now]]
    BY <1>2 DEF Chmod
  <2>4. edits + 1 \in Edits
    BY EditType, <2>1, <2>2
  <2>5. [tree[f] EXCEPT !.mode = edits + 1, !.chg = now] \in File
    BY <2>1, <2>4 DEF TypeOK, File
  <2>6. tree' \in [Files -> File \cup {None}]
    BY <2>3, <2>5 DEF TypeOK
  <2>. QED BY EditType, <2>1, <2>2, <2>6 DEF TypeOK
<1>3. ASSUME NEW f \in Files, Delete(f) PROVE TypeOK'
  <2>1. Edit(f, "remove") /\ UNCHANGED <<rule, dir>>
    BY <1>3 DEF Delete
  <2>2. f \in Paths \cup {Dir} /\ "remove" \in Ops
    BY DEF Paths, Ops
  <2>3. tree' \in [Files -> File \cup {None}]
    BY <1>3 DEF Delete, TypeOK
  <2>. QED BY EditType, <2>1, <2>2, <2>3 DEF TypeOK
<1>4. CASE EditRule
  <2>1. Edit(Rule, "write") /\ UNCHANGED <<tree, dir>>
    BY <1>4 DEF EditRule
  <2>2. Rule \in Paths \cup {Dir} /\ "write" \in Ops
    BY DEF Paths, Ops
  <2>3. edits + 1 \in Edits
    BY EditType, <2>1, <2>2
  <2>4. rule' \in RuleFile
    BY <1>4, <2>3 DEF EditRule, RuleFile, TypeOK
  <2>. QED BY EditType, <2>1, <2>2, <2>4 DEF TypeOK
<1>5. CASE Mkdir
  <2>1. Edit(Dir, "write") /\ UNCHANGED <<tree, rule>> /\ dir' = "unwatched"
    BY <1>5 DEF Mkdir
  <2>2. Dir \in Paths \cup {Dir} /\ "write" \in Ops
    BY DEF Ops
  <2>. QED BY EditType, <2>1, <2>2 DEF TypeOK
<1>6. CASE Tick
  <2>1. now' \in Times
    BY <1>6 DEF Tick, TypeOK, Times
  <2>. QED BY <1>6, <2>1 DEF Tick, TypeOK, backVars, recVars
<1>. QED BY <1>1, <1>2, <1>3, <1>4, <1>5, <1>6

LEMMA WatcherType == TypeOK /\ Collecting => TypeOK'
<1>. SUFFICES ASSUME TypeOK, Collecting PROVE TypeOK'
  OBVIOUS
<1>. USE Bounds
<1>0. /\ seen \in [Paths -> SUBSET Ops]
      /\ events \subseteq [path: Paths \cup {Dir}, op: Ops]
      /\ NoRecord \in [Paths -> SUBSET Ops]
  BY DEF TypeOK, NoRecord
<1>1. ASSUME NEW e \in events, Record(e) PROVE TypeOK'
  <2>1. e.path \in Paths /\ e.op \in Ops
    BY <1>0, <1>1 DEF Record
  <2>2. Mark(e.path, e.op)
    BY <1>1 DEF Record
  <2>3. seen' \in [Paths -> SUBSET Ops] /\ lost' \in BOOLEAN /\ stale' \in BOOLEAN
    BY <2>1, <2>2, MarkType
  <2>4. events' \subseteq [path: Paths \cup {Dir}, op: Ops]
    BY <1>0, <1>1 DEF Record
  <2>. QED BY <1>1, <2>3, <2>4 DEF Record, Collect, worldVars, TypeOK
<1>2. ASSUME NEW e \in events, RecordDir(e) PROVE TypeOK'
  <2>1. events' \subseteq [path: Paths \cup {Dir}, op: Ops]
    BY <1>0, <1>2 DEF RecordDir
  <2>2. /\ dir' \in {"absent", "unwatched", "watched"}
        /\ naming' \subseteq InDir
        /\ seen' \in [Paths -> SUBSET Ops] /\ lost' \in BOOLEAN /\ stale' \in BOOLEAN
    BY <1>0, <1>2 DEF RecordDir, LoseLocked, TypeOK
  <2>. QED BY <1>2, <2>1, <2>2 DEF RecordDir, Collect, worldVars, TypeOK
<1>3. ASSUME NEW f \in InDir, RecordTree(f) PROVE TypeOK'
  <2>1. f \in Paths /\ "write" \in Ops
    BY DEF Paths, Ops
  <2>2. seen' \in [Paths -> SUBSET Ops] /\ lost' \in BOOLEAN /\ stale' \in BOOLEAN
    BY <1>0, <1>3, <2>1, MarkType DEF RecordTree, TypeOK
  <2>3. naming' \subseteq InDir
    BY <1>3 DEF RecordTree, TypeOK
  <2>. QED BY <1>3, <2>2, <2>3 DEF RecordTree, worldVars, backVars, TypeOK
<1>4. CASE CollectError
  BY <1>0, <1>4 DEF CollectError, Collect, LoseLocked, worldVars, TypeOK
<1>. QED BY <1>1, <1>2, <1>3, <1>4 DEF Collecting

\* What a sync in progress is made of.
LEMMA UnderWayFields ==
    ASSUME NEW s \in UnderWay
    PROVE  /\ s.pc \in {"stat", "read"} /\ s.kind \in {"walk", "watched"}
           /\ s.since \in Times /\ s.started \in Times /\ s.highest \in Times
           /\ s.pos \in 1..(N + 1)
           /\ s.todo \subseteq Files /\ s.quick \subseteq Files
           /\ s.rule \in RuleFile \cup {None} /\ s.info \in File \cup {None}
BY DEF UnderWay

LEMMA CachedType ==
    ASSUME TypeOK, Running
    PROVE  /\ Cached \in RuleFile
           /\ Cached.ver \in Edits /\ Cached.at \in Times
           /\ \A info \in File : ChangedAt(info) \in Times /\ Permissions(info) \in Edits
<1>1. sync \in UnderWay
  BY RunningRecord
<1>2. Cached \in RuleFile
  BY <1>1, UnderWayFields DEF Cached, TypeOK
<1>3. Cached.ver \in Edits /\ Cached.at \in Times
  BY <1>2 DEF RuleFile
<1>4. \A info \in File : ChangedAt(info) \in Times /\ Permissions(info) \in Edits
  BY <1>3 DEF File, ChangedAt, Permissions
<1>. QED BY <1>2, <1>3, <1>4

LEMMA BeginType ==
    ASSUME TypeOK, NEW kind \in {"walk", "watched"}, NEW todo \in SUBSET Files,
           NEW quick \in SUBSET Files, Begin(kind, todo, quick)
    PROVE  sync' \in UnderWay
<1>1. (IF kind = "walk" THEN 0 ELSE saved) \in Times
  BY Bounds DEF TypeOK
<1>2. 1 \in 1..(N + 1)
  BY Bounds
<1>. QED BY <1>1, <1>2 DEF Begin, UnderWay, TypeOK

LEMMA StartType ==
    ASSUME TypeOK, StartWalk \/ StartRuled \/ StartWatched
    PROVE  /\ sync' \in UnderWay
           /\ TypeOK'
<1>1. {f \in Files : tree[f] # None} \in SUBSET Files /\ {} \in SUBSET Files
      /\ {f \in Files : seen[f] # {}} \in SUBSET Files
      /\ {f \in Files : seen[f] = {"chmod"}} \in SUBSET Files
  OBVIOUS
<1>2. sync' \in UnderWay
  BY <1>1, BeginType DEF StartWalk, StartRuled, StartWatched
<1>3. sync' \in Sync
  BY <1>2 DEF Sync
<1>4. NoRecord \in [Paths -> SUBSET Ops]
  BY DEF NoRecord
<1>. QED BY <1>2, <1>3, <1>4
         DEF StartWalk, StartRuled, StartWatched, Syncing, worldVars, backVars, TypeOK

\* A file emitted is stored under what it was, and with the permissions given.
LEMMA EmitType ==
    ASSUME TypeOK, NEW f \in Files, tree[f] # None, Running, EmitPermissions(f)
    PROVE  index' \in [Files -> [ver: Edits, perm: Edits] \cup {None}]
<1>1. Permissions(tree[f]) \in Edits
  BY CachedType DEF TypeOK
<1>2. CASE index[f] = None
  BY <1>2 DEF EmitPermissions, TypeOK
<1>3. CASE index[f] # None
  <2>1. index[f] \in [ver: Edits, perm: Edits]
    BY <1>3 DEF TypeOK
  <2>2. [index[f] EXCEPT !.perm = Permissions(tree[f])] \in [ver: Edits, perm: Edits]
    BY <1>1, <2>1
  <2>. QED BY <1>3, <2>2 DEF EmitPermissions, TypeOK
<1>. QED BY <1>2, <1>3

LEMMA StepType ==
    ASSUME TypeOK, SyncIsFresh, Running, Step
    PROVE  /\ sync' \in Sync
           /\ TypeOK'
<1>. USE Bounds
<1>0. /\ sync \in UnderWay
      /\ Cached \in RuleFile
      /\ sync.highest \in Times /\ sync.since \in Times /\ sync.started \in Times
      /\ sync.pos \in 1..(N + 1)
  BY RunningRecord, UnderWayFields, CachedType
<1>a. ASSUME sync.pos <= N
      PROVE  sync.pos \in Files /\ sync.pos + 1 \in 1..(N + 1)
  BY <1>0, <1>a
<1>b. ASSUME tree[At] # None, sync.pos <= N
      PROVE  /\ tree[At] \in File /\ tree[At].mod \in Times /\ tree[At].ver \in Edits
             /\ ChangedAt(tree[At]) \in Times
             /\ Later(Later(sync.highest, tree[At].mod), ChangedAt(tree[At])) \in Times
  <2>1. tree[At] \in File /\ tree[At].mod \in Times /\ tree[At].ver \in Edits
    BY <1>a, <1>b DEF TypeOK, File, At
  <2>2. ChangedAt(tree[At]) \in Times
    BY <2>1, CachedType
  <2>. QED BY <1>0, <2>1, <2>2, LaterIsOne
<1>1. CASE NotListed
  <2>1. sync.pos <= N
    BY <1>1 DEF NotListed, Looking, At
  <2>2. sync' \in UnderWay
    BY <1>0, <1>1, <1>a, <2>1 DEF NotListed, Passed, UnderWay
  <2>. QED BY <1>1, <2>2 DEF NotListed, Looking, Syncing, worldVars, backVars, TypeOK, Sync
<1>2. CASE Gone
  <2>1. sync.pos <= N
    BY <1>2 DEF Gone, Looking, At
  <2>2. sync' \in UnderWay
    BY <1>0, <1>2, <1>a, <2>1 DEF Gone, Passed, UnderWay
  <2>3. index' \in [Files -> [ver: Edits, perm: Edits] \cup {None}]
    BY <1>2 DEF Gone, TypeOK
  <2>. QED BY <1>2, <2>2, <2>3 DEF Gone, Looking, Syncing, worldVars, backVars, TypeOK, Sync
<1>3. CASE Quick
  <2>1. sync.pos <= N
    BY <1>3 DEF Quick, Looking, At
  <2>2. sync' \in UnderWay
    BY <1>0, <1>3, <1>a, <2>1 DEF Quick, UnderWay
  <2>3. index' \in [Files -> [ver: Edits, perm: Edits] \cup {None}]
    BY <1>3, <1>a, <2>1, EmitType DEF Quick, At
  <2>. QED BY <1>3, <2>2, <2>3 DEF Quick, Looking, Syncing, worldVars, backVars, TypeOK, Sync
<1>4. CASE Refresh
  <2>1. sync.pos <= N /\ tree[At] # None
    BY <1>4 DEF Refresh, Looking, At
  <2>2. sync' \in UnderWay
    BY <1>0, <1>4, <1>a, <1>b, <2>1 DEF Refresh, UnderWay
  <2>3. index' \in [Files -> [ver: Edits, perm: Edits] \cup {None}]
    BY <1>4, <1>a, <2>1, EmitType DEF Refresh, At, TypeOK
  <2>. QED BY <1>4, <2>2, <2>3 DEF Refresh, Looking, Syncing, worldVars, backVars, TypeOK, Sync
<1>5. CASE Stat
  <2>1. sync.pos <= N /\ tree[At] # None
    BY <1>5 DEF Stat, Looking, At
  <2>2. sync' \in UnderWay
    BY <1>0, <1>5, <1>b, <2>1 DEF Stat, UnderWay
  <2>. QED BY <1>5, <2>2 DEF Stat, Looking, Syncing, worldVars, backVars, TypeOK, Sync
<1>6. CASE Read
  <2>1. sync.pos <= N /\ sync.info \in File
    BY <1>0, <1>6, UnderWayFields DEF SyncIsFresh, Read
  <2>2. sync' \in UnderWay
    BY <1>0, <1>6, <1>a, <2>1 DEF Read, Passed, UnderWay
  <2>3. Permissions(sync.info) \in Edits /\ sync.info.mod \in Times
    BY <2>1, CachedType DEF File
  <2>4. /\ index' \in [Files -> [ver: Edits, perm: Edits] \cup {None}]
        /\ saved' \in Times
    <3>1. CASE tree[At] = None
      BY <1>6, <3>1 DEF Read, TypeOK
    <3>2. CASE tree[At] # None
      <4>1. [ver |-> tree[At].ver, perm |-> Permissions(sync.info)] \in [ver: Edits, perm: Edits]
        BY <1>b, <2>1, <2>3, <3>2
      <4>. QED BY <1>6, <2>3, <3>2, <4>1, SMTT(30) DEF Read, TypeOK
    <3>. QED BY <3>1, <3>2
  <2>. QED BY <1>6, <2>2, <2>4 DEF Read, Syncing, worldVars, backVars, TypeOK, Sync
<1>7. CASE Finish
  <2>1. saved' \in Times
    <3>1. CASE sync.highest = 0
      BY <1>0, <1>7, <3>1 DEF Finish
    <3>2. CASE sync.highest # 0
      <4>1. (IF sync.started - 1 < sync.highest THEN sync.started - 1 ELSE sync.highest) \in Times
        BY <1>0 DEF SyncIsFresh, Times
      <4>. QED BY <1>0, <1>7, <3>2, <4>1, LaterIsOne DEF Finish, Covered
    <3>. QED BY <3>1, <3>2
  <2>2. lost' \in BOOLEAN
    BY <1>7 DEF Finish, CaughtUp
  <2>. QED BY <1>7, <2>1, <2>2 DEF Finish, Syncing, worldVars, backVars, TypeOK, Sync
<1>. QED BY <1>1, <1>2, <1>3, <1>4, <1>5, <1>6, <1>7 DEF Step

LEMMA EndingType ==
    ASSUME TypeOK, FailSync \/ \E ok \in BOOLEAN : Restart(ok)
    PROVE  TypeOK'
<1>1. CASE FailSync
  BY <1>1, Bounds DEF FailSync, worldVars, backVars, recVars, TypeOK, Sync
<1>2. ASSUME NEW ok \in BOOLEAN, Restart(ok) PROVE TypeOK'
  <2>1. NoRecord \in [Paths -> SUBSET Ops]
    BY DEF NoRecord
  <2>2. dir' \in {"absent", "unwatched", "watched"}
    BY <1>2 DEF Restart, TypeOK
  <2>3. /\ fails' \in 0..MaxFails
        /\ events' = {} /\ naming' = {} /\ seen' = NoRecord
    BY <1>2, Bounds DEF Restart, TypeOK
  <2>5. watching' = ok /\ overflow' = FALSE /\ lost' = TRUE /\ stale' = FALSE
    BY <1>2 DEF Restart
  <2>6. {watching', overflow', lost', stale'} \subseteq BOOLEAN
    BY <2>5
  <2>4. UNCHANGED <<now, edits, policy, tree, rule, index, saved, sync>>
    BY <1>2 DEF Restart, worldVars
  <2>. QED BY <2>1, <2>2, <2>3, <2>4, <2>6 DEF TypeOK
<1>. QED BY <1>1, <1>2

\* Only a sync in progress takes a step of one.
LEMMA StepRuns == TypeOK /\ Step => Running
<1>. SUFFICES ASSUME TypeOK, Step, sync = Idle PROVE FALSE
  BY DEF Running
<1>1. sync.pc \in {"stat", "read"}
  BY DEF Step, NotListed, Gone, Quick, Refresh, Stat, Looking, Read, Finish
<1>. QED BY <1>1 DEF Idle

LEMMA TypeStep == TypeOK /\ SyncIsFresh /\ [Next]_vars => TypeOK'
<1>. SUFFICES ASSUME TypeOK, SyncIsFresh, [Next]_vars PROVE TypeOK'
  OBVIOUS
<1>1. CASE UNCHANGED vars
  BY <1>1 DEF vars, worldVars, backVars, recVars, TypeOK
<1>2. CASE Next
  BY <1>2, PeopleType, WatcherType, StartType, StepType, StepRuns, EndingType DEF Next
<1>. QED BY <1>1, <1>2
-----------------------------------------------------------------------------
(* The invariant holds at the start.                                       *)

LEMMA InvInit == Init => IInv
<1>. SUFFICES ASSUME Init PROVE IInv
  OBVIOUS
<1>1. TypeOK
  BY TypeInit
<1>2. sync = Idle /\ lost = TRUE /\ saved = 0 /\ now = 2 /\ dir = "absent"
  BY DEF Init
<1>3. ~Running /\ ~Trusted /\ cursor = 0
  BY <1>2 DEF Running, Trusted, cursor
<1>4. \A f \in Files : tree[f] = None
  BY DEF Init
<1>5. CursorCovers
  BY <1>2, <1>3, <1>4 DEF CursorCovers
<1>6. DirIsHeard
  BY <1>2, <1>4, Bounds DEF DirIsHeard
<1>7. Numbered
  BY DEF Init, Numbered
<1>. QED BY <1>1, <1>3, <1>5, <1>6, <1>7 DEF IInv, SyncIsFresh, SyncCovers, RecordIsTrue

-----------------------------------------------------------------------------
(* What people do.                                                         *)

\* What is done to a path is queued, or the queue says it is full, or the event
\* of the directory it is in is still queued.
LEMMA EditIsQueued ==
    ASSUME TypeOK, DirIsHeard, NEW p \in Paths \cup {Dir}, NEW op \in Ops, Edit(p, op),
           p \in InDir => dir # "absent"
    PROVE  /\ events \subseteq events' /\ (overflow => overflow')
           /\ watching => \/ overflow'
                          \/ [path |-> p, op |-> op] \in events'
                          \/ p \in InDir /\ DirQueued'
           /\ watching /\ p = Dir => [path |-> p, op |-> op] \in events'
<1>1. Raise(p, op)
  BY DEF Edit
<1>2. events \subseteq events' /\ (overflow => overflow')
  BY <1>1 DEF Raise
<1>3. Heard(p) => overflow' \/ [path |-> p, op |-> op] \in events'
  BY <1>1 DEF Raise
<1>4. watching /\ ~Heard(p) => p \in InDir /\ dir = "unwatched"
  BY DEF Heard, TypeOK
<1>5. watching /\ ~Heard(p) => p \in InDir /\ DirQueued'
  BY <1>2, <1>4 DEF DirIsHeard, DirQueued
<1>6. watching /\ p = Dir => Heard(p)
  BY Bounds DEF Heard, Paths
<1>7. watching /\ p = Dir => [path |-> p, op |-> op] \in events'
  BY <1>1, <1>6 DEF Raise
<1>. QED BY <1>2, <1>3, <1>5, <1>7

\* A note stands while its queue only grows and its clock stands still.
LEMMA NotedStays ==
    ASSUME events \subseteq events', overflow => overflow',
           UNCHANGED <<now, naming, seen>>
    PROVE  /\ \A f \in Files : tree'[f] = tree[f] =>
                  (WriteNoted(f) => WriteNoted(f)') /\ (ChangeNoted(f) => ChangeNoted(f)')
           /\ rule' = rule => (RuleNoted => RuleNoted')
<1>1. \A f : FileQueued(f) => FileQueued(f)'
  BY DEF FileQueued, DirQueued
<1>2. ASSUME NEW f \in Files, tree'[f] = tree[f]
      PROVE  (WriteNoted(f) => WriteNoted(f)') /\ (ChangeNoted(f) => ChangeNoted(f)')
  <2>1. WriteNoted(f) => WriteNoted(f)'
    BY <1>1, <1>2 DEF WriteNoted
  <2>2. ChangeNoted(f) => ChangeNoted(f)'
    BY <1>1, <1>2 DEF ChangeNoted
  <2>. QED BY <2>1, <2>2
<1>3. rule' = rule => (RuleNoted => RuleNoted')
  BY DEF RuleNoted
<1>. QED BY <1>2, <1>3

\* What the index says of a file is as true as it was when neither has changed.
LEMMA FileStays ==
    ASSUME NEW f, tree'[f] = tree[f], index'[f] = index[f], UNCHANGED <<policy, rule>>
    PROVE  /\ Read_(f)' = Read_(f) /\ Governed(f)' = Governed(f)
           /\ PermAt(f)' = PermAt(f)
BY DEF Read_, Governed, Perm, PermAt

\* People leave the sync and the record alone.
LEMMA SyncStays ==
    ASSUME UNCHANGED <<sync, watching, lost, stale, saved>>
    PROVE  /\ Running' = Running /\ Trusted' = Trusted /\ cursor' = cursor
           /\ \A f : Ahead(f)' = Ahead(f) /\ ToRead(f)' = ToRead(f)
BY DEF Running, Trusted, cursor, Ahead, ToRead

LEMMA WriteInv ==
    ASSUME IInv, TypeOK', NEW g \in Files, Write(g)
    PROVE  IInv'
<1>. USE DEF IInv
<1>0. /\ Edit(g, "write") /\ g \in Paths \cup {Dir} /\ "write" \in Ops
      /\ UNCHANGED <<rule, dir>>
      /\ (g \in InDir => dir # "absent")
  BY DEF Write, Paths, Ops
<1>1. UNCHANGED <<now, policy, rule, dir, watching, naming, seen, lost, stale, index, saved, sync>>
  BY <1>0, EditType
<1>2. /\ events \subseteq events' /\ (overflow => overflow')
      /\ watching => FileQueued(g)' \/ [path |-> g, op |-> "write"] \in events'
  BY <1>0, EditIsQueued DEF FileQueued
<1>3. /\ Running' = Running /\ Trusted' = Trusted /\ cursor' = cursor
      /\ \A f : Ahead(f)' = Ahead(f) /\ ToRead(f)' = ToRead(f)
  BY <1>1, SyncStays
<1>4. /\ \A f \in Files : f # g => tree'[f] = tree[f]
      /\ tree'[g] # None /\ tree'[g].mod = now /\ tree'[g].chg = now
      /\ tree'[g].ver = edits + 1
  <2>1. tree' = [tree EXCEPT ![g] = [ver |-> edits + 1, mod |-> now, chg |-> now,
                                     mode |-> IF @ = None THEN 0 ELSE @.mode]]
    BY DEF Write
  <2>2. tree'[g] # None
    <3>1. tree'[g] = [ver |-> edits + 1, mod |-> now, chg |-> now,
                      mode |-> IF tree[g] = None THEN 0 ELSE tree[g].mode]
      BY <2>1 DEF TypeOK
    <3>2. edits + 1 \in Edits /\ now \in Times
          /\ (IF tree[g] = None THEN 0 ELSE tree[g].mode) \in Edits
      BY <1>0, EditType, Bounds DEF TypeOK, File
    <3>3. tree'[g] \in File
      BY <3>1, <3>2 DEF File
    <3>. QED BY <3>3, NoneKinds
  <2>. QED BY <2>1, <2>2 DEF TypeOK
<1>5. \A f \in Files : f # g =>
          /\ Read_(f)' = Read_(f) /\ Governed(f)' = Governed(f) /\ PermAt(f)' = PermAt(f)
          /\ (WriteNoted(f) => WriteNoted(f)') /\ (ChangeNoted(f) => ChangeNoted(f)')
  BY <1>1, <1>2, <1>4, FileStays, NotedStays
<1>6. RuleNoted => RuleNoted'
  BY <1>1, <1>2, NotedStays
<1>7. watching => WriteNoted(g)' /\ ChangeNoted(g)'
  <2>1. watching => WriteNoted(g)'
    BY <1>1, <1>2, <1>4 DEF WriteNoted
  <2>2. watching => ChangeNoted(g)'
    BY <1>1, <1>2, <1>4 DEF ChangeNoted
  <2>. QED BY <2>1, <2>2
<1>8. Trusted => watching
  BY DEF Trusted
<1>9. cursor \in Times /\ now \in Times /\ (Running => sync \in UnderWay /\ sync.started \in Times)
  BY RunningRecord, UnderWayFields DEF cursor, TypeOK
<1>a. /\ edits' = edits + 1 /\ edits \in Nat
      /\ \A f \in Files : (tree[f] # None => tree[f].ver \in Nat)
                          /\ (index[f] # None => index[f].ver \in Nat)
  BY <1>0, EditType, Bounds DEF TypeOK, File
<1>b. index[g] # None => index[g].ver # edits + 1
  BY <1>a DEF Numbered
<1>n. Numbered'
  BY <1>1, <1>4, <1>a DEF Numbered
<1>c. CursorCovers'
  BY <1>1, <1>3, <1>4, <1>5, <1>9, Bounds DEF CursorCovers
<1>d. DirIsHeard'
  BY <1>0, <1>1, <1>2, <1>4, Bounds DEF DirIsHeard, DirQueued
<1>e. SyncIsFresh'
  <2>1. Running /\ sync.pc = "read" => sync.pos \in Files
    BY <1>9, UnderWayFields, Bounds DEF SyncIsFresh
  <2>. QED BY <1>1, <1>3, <1>4, <1>5, <1>6, <1>7, <1>8, <1>9, <2>1, Bounds DEF SyncIsFresh, At
<1>f. SyncCovers'
  <2>. SUFFICES ASSUME Running, NEW f \in Files, tree'[f] # None, tree'[f].mod < sync.started
                PROVE  /\ Read_(f)' \/ ToRead(f)'
                       /\ Read_(f)' /\ ~Governed(f)' /\ PermAt(f)' < sync.started => Ahead(f)'
    BY <1>1, <1>3 DEF SyncCovers
  <2>0. sync.started <= now
    BY DEF SyncIsFresh
  <2>1. CASE f # g
    BY <1>3, <1>4, <1>5, <2>1 DEF SyncCovers
  <2>2. CASE f = g
    <3>1. now < sync.started
      BY <1>4, <2>2
    <3>2. now \in Nat /\ sync.started \in Nat
      BY <1>9, Bounds
    <3>. QED BY <2>0, <3>1, <3>2
  <2>. QED BY <2>1, <2>2
<1>g. RecordIsTrue'
  <2>. SUFFICES ASSUME Trusted, NEW f \in Files, tree'[f] # None
                PROVE  /\ Read_(f)' \/ WriteNoted(f)' \/ ToRead(f)'
                       /\ Read_(f)' => Governed(f)' \/ PermNoted(f)' \/ Ahead(f)'
    BY <1>1, <1>3 DEF RecordIsTrue
  <2>1. CASE f # g
    <3>1. PermNoted(f) => PermNoted(f)'
      BY <1>1, <1>5, <1>6, <2>1 DEF PermNoted
    <3>. QED BY <1>3, <1>4, <1>5, <2>1, <3>1 DEF RecordIsTrue
  <2>2. CASE f = g
    <3>1. WriteNoted(g)' /\ ChangeNoted(g)'
      BY <1>7, <1>8
    <3>2. ~Read_(g)'
      BY <1>a, <1>b, <1>1, <1>4 DEF Read_
    <3>. QED BY <1>3, <2>2, <3>1, <3>2
  <2>. QED BY <2>1, <2>2
<1>. QED BY <1>n, <1>c, <1>d, <1>e, <1>f, <1>g

LEMMA ChmodInv ==
    ASSUME IInv, TypeOK', NEW g \in Files, Chmod(g)
    PROVE  IInv'
<1>. USE DEF IInv
<1>0. /\ Edit(g, "chmod") /\ g \in Paths \cup {Dir} /\ "chmod" \in Ops
      /\ UNCHANGED <<rule, dir>>
      /\ tree[g] # None /\ policy = "mode"
      /\ (g \in InDir => dir # "absent")
  BY DEF Chmod, Paths, Ops, DirIsHeard
<1>1. UNCHANGED <<now, policy, rule, dir, watching, naming, seen, lost, stale, index, saved, sync>>
  BY <1>0, EditType
<1>2. /\ events \subseteq events' /\ (overflow => overflow')
      /\ watching => FileQueued(g)' \/ [path |-> g, op |-> "chmod"] \in events'
  BY <1>0, EditIsQueued DEF FileQueued
<1>3. /\ Running' = Running /\ Trusted' = Trusted /\ cursor' = cursor
      /\ \A f : Ahead(f)' = Ahead(f) /\ ToRead(f)' = ToRead(f)
  BY <1>1, SyncStays
<1>4. /\ \A f \in Files : f # g => tree'[f] = tree[f]
      /\ tree'[g].mod = tree[g].mod /\ tree'[g].ver = tree[g].ver /\ tree'[g].chg = now
  <2>1. tree' = [tree EXCEPT ![g] = [@ EXCEPT !.mode = edits + 1, !.chg = now]]
    BY DEF Chmod
  <2>2. tree[g] \in File
    BY <1>0 DEF TypeOK
  <2>. QED BY <2>1, <2>2 DEF TypeOK, File
<1>5. \A f \in Files : f # g =>
          /\ Read_(f)' = Read_(f) /\ Governed(f)' = Governed(f) /\ PermAt(f)' = PermAt(f)
          /\ (WriteNoted(f) => WriteNoted(f)') /\ (ChangeNoted(f) => ChangeNoted(f)')
  BY <1>1, <1>2, <1>4, FileStays, NotedStays
<1>6. RuleNoted => RuleNoted'
  BY <1>1, <1>2, NotedStays
<1>7. /\ watching => ChangeNoted(g)'
      /\ WriteNoted(g) => WriteNoted(g)'
      /\ Read_(g)' = Read_(g) /\ PermAt(g)' = now
  <2>1. watching => ChangeNoted(g)'
    BY <1>1, <1>2, <1>4 DEF ChangeNoted
  <2>2. WriteNoted(g) => WriteNoted(g)'
    BY <1>1, <1>2, <1>4 DEF WriteNoted, FileQueued, DirQueued
  <2>3. Read_(g)' = Read_(g)
    BY <1>1, <1>4 DEF Read_
  <2>4. PermAt(g)' = now
    BY <1>0, <1>1, <1>4 DEF PermAt
  <2>. QED BY <2>1, <2>2, <2>3, <2>4
<1>8. Trusted => watching
  BY DEF Trusted
<1>9. /\ cursor \in Nat /\ now \in Nat
      /\ Running => sync \in UnderWay /\ sync.started \in Nat
  BY RunningRecord, UnderWayFields, Bounds DEF cursor, TypeOK
<1>n. Numbered'
  <2>1. edits' = edits + 1 /\ edits \in Nat
    BY <1>0, EditType, Bounds DEF TypeOK
  <2>2. \A f \in Files : (tree[f] # None => tree[f].ver \in Nat)
                         /\ (index[f] # None => index[f].ver \in Nat)
    BY Bounds DEF TypeOK, File
  <2>. QED BY <1>0, <1>1, <1>4, <2>1, <2>2 DEF Numbered
<1>c. CursorCovers'
  <2>. SUFFICES ASSUME NEW f \in Files, tree'[f] # None, tree'[f].mod <= cursor
                PROVE  Read_(f)' /\ (PermAt(f)' <= cursor => Governed(f)')
    BY <1>1, <1>3 DEF CursorCovers
  <2>1. CASE f # g
    BY <1>4, <1>5, <2>1 DEF CursorCovers
  <2>2. CASE f = g
    BY <1>0, <1>4, <1>7, <1>9, <2>2 DEF CursorCovers
  <2>. QED BY <2>1, <2>2
<1>d. DirIsHeard'
  <2>1. \A f \in InDir : tree'[f] # None => tree[f] # None
    BY <1>0, <1>4, Bounds
  <2>. QED BY <1>1, <1>2, <2>1 DEF DirIsHeard, DirQueued
<1>e. SyncIsFresh'
  <2>1. Running /\ sync.pc = "read" => sync.pos \in Files
    BY <1>9, UnderWayFields, Bounds DEF SyncIsFresh
  <2>2. ASSUME NEW p \in Files, p = sync.pos, Running, sync.pc = "read",
               tree'[p] # None, sync.info.mode # tree'[p].mode
        PROVE  tree'[p].chg >= sync.started /\ (Trusted => ChangeNoted(p)')
    <3>1. CASE p # g
      <4>1. tree[p] # None /\ sync.info.mode # tree[p].mode
        BY <1>4, <2>2, <3>1
      <4>2. tree[p].chg >= sync.started /\ (Trusted => ChangeNoted(p))
        BY <2>2, <4>1 DEF SyncIsFresh, At
      <4>. QED BY <1>4, <1>5, <3>1, <4>2
    <3>2. CASE p = g
      <4>1. now >= sync.started
        BY <1>9, <2>2 DEF SyncIsFresh
      <4>. QED BY <1>4, <1>7, <1>8, <3>2, <4>1
    <3>. QED BY <3>1, <3>2
  <2>. QED BY <1>1, <1>3, <1>6, <2>1, <2>2 DEF SyncIsFresh, At
<1>f. SyncCovers'
  <2>. SUFFICES ASSUME Running, NEW f \in Files, tree'[f] # None, tree'[f].mod < sync.started
                PROVE  /\ Read_(f)' \/ ToRead(f)'
                       /\ Read_(f)' /\ ~Governed(f)' /\ PermAt(f)' < sync.started => Ahead(f)'
    BY <1>1, <1>3 DEF SyncCovers
  <2>1. CASE f # g
    BY <1>3, <1>4, <1>5, <2>1 DEF SyncCovers
  <2>2. CASE f = g
    <3>1. sync.started <= now
      BY DEF SyncIsFresh
    <3>2. ~(PermAt(f)' < sync.started)
      BY <1>7, <1>9, <2>2, <3>1
    <3>. QED BY <1>0, <1>3, <1>4, <1>7, <2>2, <3>2 DEF SyncCovers
  <2>. QED BY <2>1, <2>2
<1>g. RecordIsTrue'
  <2>. SUFFICES ASSUME Trusted, NEW f \in Files, tree'[f] # None
                PROVE  /\ Read_(f)' \/ WriteNoted(f)' \/ ToRead(f)'
                       /\ Read_(f)' => Governed(f)' \/ PermNoted(f)' \/ Ahead(f)'
    BY <1>1, <1>3 DEF RecordIsTrue
  <2>1. CASE f # g
    <3>1. PermNoted(f) => PermNoted(f)'
      BY <1>1, <1>5, <1>6, <2>1 DEF PermNoted
    <3>. QED BY <1>3, <1>4, <1>5, <2>1, <3>1 DEF RecordIsTrue
  <2>2. CASE f = g
    <3>1. PermNoted(f)'
      BY <1>0, <1>1, <1>7, <1>8, <2>2 DEF PermNoted
    <3>. QED BY <1>0, <1>3, <1>7, <2>2, <3>1 DEF RecordIsTrue
  <2>. QED BY <2>1, <2>2
<1>. QED BY <1>n, <1>c, <1>d, <1>e, <1>f, <1>g

LEMMA DeleteInv ==
    ASSUME IInv, TypeOK', NEW g \in Files, Delete(g)
    PROVE  IInv'
<1>. USE DEF IInv
<1>0. /\ Edit(g, "remove") /\ g \in Paths \cup {Dir} /\ "remove" \in Ops
      /\ UNCHANGED <<rule, dir>>
      /\ (g \in InDir => dir # "absent")
  BY DEF Delete, Paths, Ops, DirIsHeard
<1>1. UNCHANGED <<now, policy, rule, dir, watching, naming, seen, lost, stale, index, saved, sync>>
  BY <1>0, EditType
<1>2. events \subseteq events' /\ (overflow => overflow')
  BY <1>0, EditIsQueued
<1>3. /\ Running' = Running /\ Trusted' = Trusted /\ cursor' = cursor
      /\ \A f : Ahead(f)' = Ahead(f) /\ ToRead(f)' = ToRead(f)
  BY <1>1, SyncStays
<1>4. \A f \in Files : tree'[f] # None => tree'[f] = tree[f] /\ tree[f] # None
  BY DEF Delete, TypeOK
<1>5. \A f \in Files : tree'[f] # None =>
          /\ Read_(f)' = Read_(f) /\ Governed(f)' = Governed(f) /\ PermAt(f)' = PermAt(f)
          /\ (WriteNoted(f) => WriteNoted(f)') /\ (ChangeNoted(f) => ChangeNoted(f)')
  BY <1>1, <1>2, <1>4, FileStays, NotedStays
<1>6. RuleNoted => RuleNoted'
  BY <1>1, <1>2, NotedStays
<1>7. \A f \in Files : tree'[f] # None => (PermNoted(f) => PermNoted(f)')
  BY <1>1, <1>5, <1>6 DEF PermNoted
<1>n. Numbered'
  <2>1. edits' = edits + 1 /\ edits \in Nat
    BY <1>0, EditType, Bounds DEF TypeOK
  <2>2. \A f \in Files : (tree[f] # None => tree[f].ver \in Nat)
                         /\ (index[f] # None => index[f].ver \in Nat)
    BY Bounds DEF TypeOK, File
  <2>. QED BY <1>1, <1>4, <2>1, <2>2 DEF Numbered
<1>c. CursorCovers'
  BY <1>1, <1>3, <1>4, <1>5 DEF CursorCovers
<1>d. DirIsHeard'
  BY <1>1, <1>2, <1>4, Bounds DEF DirIsHeard, DirQueued
<1>e. SyncIsFresh'
  <2>1. Running /\ sync.pc = "read" => sync.pos \in Files
    BY RunningRecord, UnderWayFields, Bounds DEF SyncIsFresh
  <2>2. ASSUME NEW p \in Files, p = sync.pos, Running, sync.pc = "read",
               tree'[p] # None, sync.info.mode # tree'[p].mode
        PROVE  tree'[p].chg >= sync.started /\ (Trusted => ChangeNoted(p)')
    <3>1. tree[p] # None /\ sync.info.mode # tree[p].mode /\ tree'[p] = tree[p]
      BY <1>4, <2>2
    <3>2. tree[p].chg >= sync.started /\ (Trusted => ChangeNoted(p))
      BY <2>2, <3>1 DEF SyncIsFresh, At
    <3>. QED BY <1>5, <2>2, <3>1, <3>2
  <2>. QED BY <1>1, <1>3, <1>6, <2>1, <2>2 DEF SyncIsFresh, At
<1>f. SyncCovers'
  BY <1>1, <1>3, <1>4, <1>5 DEF SyncCovers
<1>g. RecordIsTrue'
  BY <1>1, <1>3, <1>4, <1>5, <1>7 DEF RecordIsTrue
<1>. QED BY <1>n, <1>c, <1>d, <1>e, <1>f, <1>g

LEMMA EditRuleInv == ASSUME IInv, TypeOK', EditRule PROVE IInv'
<1>. USE DEF IInv
<1>0. /\ Edit(Rule, "write") /\ Rule \in Paths \cup {Dir} /\ "write" \in Ops
      /\ Rule \notin InDir
      /\ UNCHANGED <<tree, dir>>
      /\ policy = "owners" /\ rule'.at = now
  BY Bounds DEF EditRule, Paths, Ops
<1>1. UNCHANGED <<now, policy, tree, dir, watching, naming, seen, lost, stale, index, saved, sync>>
  BY <1>0, EditType
<1>2. /\ events \subseteq events' /\ (overflow => overflow')
      /\ watching => overflow' \/ [path |-> Rule, op |-> "write"] \in events'
  BY <1>0, EditIsQueued
<1>3. /\ Running' = Running /\ Trusted' = Trusted /\ cursor' = cursor
      /\ \A f : Ahead(f)' = Ahead(f) /\ ToRead(f)' = ToRead(f)
  BY <1>1, SyncStays
<1>5. \A f \in Files :
          /\ Read_(f)' = Read_(f) /\ PermAt(f)' = now
          /\ (WriteNoted(f) => WriteNoted(f)') /\ (ChangeNoted(f) => ChangeNoted(f)')
  BY <1>0, <1>1, <1>2, NotedStays DEF Read_, PermAt
<1>6. watching => RuleNoted'
  BY <1>0, <1>1, <1>2 DEF RuleNoted
<1>8. Trusted => watching
  BY DEF Trusted
<1>9. /\ cursor \in Nat /\ now \in Nat
      /\ Running => sync.started \in Nat
  BY RunningRecord, UnderWayFields, Bounds DEF cursor, TypeOK
<1>n. Numbered'
  <2>1. edits' = edits + 1 /\ edits \in Nat
    BY <1>0, EditType, Bounds DEF TypeOK
  <2>2. \A f \in Files : (tree[f] # None => tree[f].ver \in Nat)
                         /\ (index[f] # None => index[f].ver \in Nat)
    BY Bounds DEF TypeOK, File
  <2>. QED BY <1>1, <2>1, <2>2 DEF Numbered
<1>c. CursorCovers'
  BY <1>1, <1>3, <1>5, <1>9 DEF CursorCovers
<1>d. DirIsHeard'
  BY <1>1, <1>2 DEF DirIsHeard, DirQueued
<1>e. SyncIsFresh'
  <2>1. Running /\ sync.pc = "read" => sync.pos \in Files
    BY RunningRecord, UnderWayFields, Bounds DEF SyncIsFresh
  <2>2. Running /\ sync.rule \notin {None, rule'} =>
            rule'.at >= sync.started /\ (Trusted => RuleNoted')
    BY <1>0, <1>6, <1>8, <1>9 DEF SyncIsFresh
  <2>. QED BY <1>1, <1>3, <1>5, <2>1, <2>2 DEF SyncIsFresh, At
<1>f. SyncCovers'
  <2>1. Running => sync.started <= now
    BY DEF SyncIsFresh
  <2>2. \A f \in Files : Running => ~(PermAt(f)' < sync.started)
    BY <1>5, <1>9, <2>1
  <2>. QED BY <1>1, <1>3, <1>5, <2>2 DEF SyncCovers
<1>g. RecordIsTrue'
  <2>1. \A f \in Files : Trusted => PermNoted(f)'
    BY <1>0, <1>1, <1>6, <1>8 DEF PermNoted
  <2>. QED BY <1>1, <1>3, <1>5, <2>1 DEF RecordIsTrue
<1>. QED BY <1>n, <1>c, <1>d, <1>e, <1>f, <1>g

LEMMA MkdirInv == ASSUME IInv, TypeOK', Mkdir PROVE IInv'
<1>. USE DEF IInv
<1>0. /\ Edit(Dir, "write") /\ Dir \in Paths \cup {Dir} /\ "write" \in Ops
      /\ Dir \notin InDir
      /\ UNCHANGED <<tree, rule>> /\ dir' = "unwatched"
  BY Bounds DEF Mkdir, Paths, Ops
<1>1. UNCHANGED <<now, policy, tree, rule, watching, naming, seen, lost, stale, index, saved, sync>>
  BY <1>0, EditType
<1>2. /\ events \subseteq events' /\ (overflow => overflow')
      /\ watching => [path |-> Dir, op |-> "write"] \in events'
  BY <1>0, EditIsQueued
<1>3. /\ Running' = Running /\ Trusted' = Trusted /\ cursor' = cursor
      /\ \A f : Ahead(f)' = Ahead(f) /\ ToRead(f)' = ToRead(f)
  BY <1>1, SyncStays
<1>5. \A f \in Files :
          /\ Read_(f)' = Read_(f) /\ Governed(f)' = Governed(f) /\ PermAt(f)' = PermAt(f)
          /\ (WriteNoted(f) => WriteNoted(f)') /\ (ChangeNoted(f) => ChangeNoted(f)')
  BY <1>1, <1>2, FileStays, NotedStays
<1>6. RuleNoted => RuleNoted'
  BY <1>1, <1>2, NotedStays
<1>7. \A f \in Files : PermNoted(f) => PermNoted(f)'
  BY <1>1, <1>5, <1>6 DEF PermNoted
<1>n. Numbered'
  <2>1. edits' = edits + 1 /\ edits \in Nat
    BY <1>0, EditType, Bounds DEF TypeOK
  <2>2. \A f \in Files : (tree[f] # None => tree[f].ver \in Nat)
                         /\ (index[f] # None => index[f].ver \in Nat)
    BY Bounds DEF TypeOK, File
  <2>. QED BY <1>1, <2>1, <2>2 DEF Numbered
<1>c. CursorCovers'
  BY <1>1, <1>3, <1>5 DEF CursorCovers
<1>d. DirIsHeard'
  BY <1>0, <1>1, <1>2 DEF DirIsHeard, DirQueued
<1>e. SyncIsFresh'
  <2>1. Running /\ sync.pc = "read" => sync.pos \in Files
    BY RunningRecord, UnderWayFields, Bounds DEF SyncIsFresh
  <2>. QED BY <1>1, <1>3, <1>5, <1>6, <2>1 DEF SyncIsFresh, At
<1>f. SyncCovers'
  BY <1>1, <1>3, <1>5 DEF SyncCovers
<1>g. RecordIsTrue'
  BY <1>1, <1>3, <1>5, <1>7 DEF RecordIsTrue
<1>. QED BY <1>n, <1>c, <1>d, <1>e, <1>f, <1>g

\* The backend is prompt: what is still only queued was done in this tick.
LEMMA TickInv == ASSUME IInv, TypeOK', "late" \notin Faults, Tick PROVE IInv'
<1>. USE DEF IInv
<1>1. /\ UNCHANGED <<edits, policy, tree, rule, watching, events, overflow, dir, naming, seen,
                     lost, stale, index, saved, sync>>
      /\ now' = now + 1
      /\ events = {} /\ ~overflow /\ naming = {}
  BY DEF Tick, backVars, recVars
<1>2. /\ Running' = Running /\ Trusted' = Trusted /\ cursor' = cursor
      /\ \A f : Ahead(f)' = Ahead(f) /\ ToRead(f)' = ToRead(f)
  BY <1>1, SyncStays
<1>3. \A f \in Files :
          /\ Read_(f)' = Read_(f) /\ Governed(f)' = Governed(f) /\ PermAt(f)' = PermAt(f)
          /\ (WriteNoted(f) => WriteNoted(f)') /\ (ChangeNoted(f) => ChangeNoted(f)')
  BY <1>1, FileStays DEF WriteNoted, ChangeNoted, FileQueued, DirQueued
<1>4. RuleNoted => RuleNoted'
  BY <1>1 DEF RuleNoted
<1>5. \A f \in Files : PermNoted(f) => PermNoted(f)'
  BY <1>1, <1>3, <1>4 DEF PermNoted
<1>6. /\ cursor \in Nat /\ now \in Nat
      /\ Running => sync.started \in Nat
  BY RunningRecord, UnderWayFields, Bounds DEF cursor, TypeOK
<1>n. Numbered'
  BY <1>1 DEF Numbered
<1>c. CursorCovers'
  BY <1>1, <1>2, <1>3, <1>6 DEF CursorCovers
<1>d. DirIsHeard'
  BY <1>1 DEF DirIsHeard, DirQueued
<1>e. SyncIsFresh'
  <2>1. Running /\ sync.pc = "read" => sync.pos \in Files
    BY RunningRecord, UnderWayFields, Bounds DEF SyncIsFresh
  <2>2. Running => sync.started <= now'
    BY <1>1, <1>6 DEF SyncIsFresh
  <2>. QED BY <1>1, <1>2, <1>3, <1>4, <2>1, <2>2 DEF SyncIsFresh, At
<1>f. SyncCovers'
  BY <1>1, <1>2, <1>3 DEF SyncCovers
<1>g. RecordIsTrue'
  BY <1>1, <1>2, <1>3, <1>5 DEF RecordIsTrue
<1>. QED BY <1>n, <1>c, <1>d, <1>e, <1>f, <1>g

-----------------------------------------------------------------------------
(* The watcher.                                                            *)

\* The watcher keeps the invariant when it loses the record, or keeps its notes.
LEMMA NotesKept ==
    ASSUME IInv, TypeOK', DirIsHeard',
           UNCHANGED <<now, edits, policy, tree, rule, watching, index, saved, sync>>,
           \/ lost' = TRUE /\ stale' = TRUE
           \/ /\ UNCHANGED <<lost, stale>>
              /\ \A f \in Files : tree[f] # None =>
                     (WriteNoted(f) => WriteNoted(f)') /\ (ChangeNoted(f) => ChangeNoted(f)')
              /\ RuleNoted => RuleNoted'
    PROVE  IInv'
<1>. USE DEF IInv
<1>1. /\ Running' = Running /\ cursor' = cursor
      /\ \A f : Ahead(f)' = Ahead(f) /\ ToRead(f)' = ToRead(f)
      /\ \A f : Read_(f)' = Read_(f) /\ Governed(f)' = Governed(f) /\ PermAt(f)' = PermAt(f)
  BY FileStays DEF Running, cursor, Ahead, ToRead
<1>2. Trusted' =>
          /\ Trusted
          /\ \A f \in Files : tree[f] # None =>
                 /\ (WriteNoted(f) => WriteNoted(f)') /\ (ChangeNoted(f) => ChangeNoted(f)')
                 /\ (PermNoted(f) => PermNoted(f)')
          /\ RuleNoted => RuleNoted'
  BY <1>1 DEF Trusted, PermNoted
<1>n. Numbered'
  BY DEF Numbered
<1>c. CursorCovers'
  BY <1>1 DEF CursorCovers
<1>e. SyncIsFresh'
  <2>1. Running /\ sync.pc = "read" => sync.pos \in Files
    BY RunningRecord, UnderWayFields, Bounds DEF SyncIsFresh
  <2>2. lost => lost'
    OBVIOUS
  <2>. QED BY <1>1, <1>2, <2>1, <2>2 DEF SyncIsFresh, At
<1>f. SyncCovers'
  BY <1>1 DEF SyncCovers
<1>g. RecordIsTrue'
  BY <1>1, <1>2 DEF RecordIsTrue
<1>. QED BY <1>n, <1>c, <1>e, <1>f, <1>g

LEMMA CollectingInv ==
    ASSUME IInv, TypeOK', "unwatched" \notin Faults, Collecting
    PROVE  IInv'
<1>. USE DEF IInv
<1>0. seen \in [Paths -> SUBSET Ops] /\ events \subseteq [path: Paths \cup {Dir}, op: Ops]
      /\ Files \subseteq Paths /\ Rule \in Paths
  BY DEF TypeOK, Paths
<1>1. ASSUME NEW e \in events, Record(e) PROVE IInv'
  <2>1. /\ UNCHANGED <<now, edits, policy, tree, rule, fails, watching, index, saved, sync,
                       overflow, dir, naming>>
        /\ events' = events \ {e} /\ e.path # Dir
        /\ Mark(e.path, e.op)
    BY <1>1 DEF Record, Collect, worldVars
  <2>2. e.path \in Paths /\ e.op \in Ops /\ e = [path |-> e.path, op |-> e.op]
    BY <1>0, <2>1
  <2>3. DirQueued => DirQueued'
    BY <2>1 DEF DirQueued
  <2>4. DirIsHeard'
    BY <2>1, <2>3 DEF DirIsHeard
  <2>5. \/ lost' = TRUE /\ stale' = TRUE
        \/ seen' = [seen EXCEPT ![e.path] = @ \cup {e.op}] /\ UNCHANGED <<lost, stale>>
    BY <2>1, <2>2, MarkType
  <2>6. CASE seen' = [seen EXCEPT ![e.path] = @ \cup {e.op}] /\ UNCHANGED <<lost, stale>>
    <3>1. \A p \in Paths : seen[p] \subseteq seen'[p]
      BY <1>0, <2>2, <2>6
    <3>2. e.op \in seen'[e.path]
      BY <1>0, <2>2, <2>6
    <3>3. \A f : FileQueued(f) => FileQueued(f)'
      BY <2>1, <2>3 DEF FileQueued
    <3>4. ASSUME NEW f \in Files
          PROVE  (WriteNoted(f) => WriteNoted(f)') /\ (ChangeNoted(f) => ChangeNoted(f)')
      <4>1. f \in Paths
        BY <1>0
      <4>2. [path |-> f, op |-> "write"] \in events =>
                [path |-> f, op |-> "write"] \in events' \/ "write" \in seen'[f]
        BY <2>1, <3>2
      <4>3. (\E d \in events : d.path = f) => (\E d \in events' : d.path = f) \/ seen'[f] # {}
        BY <2>1, <3>2
      <4>4. WriteNoted(f) => WriteNoted(f)'
        BY <2>1, <3>1, <3>3, <4>1, <4>2 DEF WriteNoted
      <4>5. ChangeNoted(f) => ChangeNoted(f)'
        BY <2>1, <3>1, <3>3, <4>1, <4>3 DEF ChangeNoted
      <4>. QED BY <4>4, <4>5
    <3>5. RuleNoted => RuleNoted'
      <4>1. (\E d \in events : d.path = Rule) => (\E d \in events' : d.path = Rule) \/ seen'[Rule] # {}
        BY <2>1, <3>2
      <4>. QED BY <1>0, <2>1, <3>1, <4>1 DEF RuleNoted
    <3>. QED BY <2>1, <2>4, <2>6, <3>4, <3>5, NotesKept
  <2>. QED BY <2>1, <2>4, <2>5, <2>6, NotesKept
<1>2. ASSUME NEW e \in events, RecordDir(e) PROVE IInv'
  <2>1. /\ UNCHANGED <<now, edits, policy, tree, rule, fails, watching, index, saved, sync,
                       overflow, seen, lost, stale>>
        /\ events' = events \ {e} /\ e.path = Dir
        /\ dir' = "watched" /\ naming' = InDir
    BY <1>2 DEF RecordDir, Collect, worldVars
  <2>2. DirIsHeard'
    BY <2>1 DEF DirIsHeard
  <2>3. naming = {}
    BY <1>2 DEF RecordDir, Collect
  <2>4. \A f : FileQueued(f) => FileQueued(f)'
    BY <2>1, <2>3 DEF FileQueued
  <2>5. \A d \in events : d.path # Dir => d \in events'
    BY <2>1
  <2>6. ASSUME NEW f \in Files
        PROVE  (WriteNoted(f) => WriteNoted(f)') /\ (ChangeNoted(f) => ChangeNoted(f)')
    <3>1. f # Dir
      BY <1>0, Bounds
    <3>2. [path |-> f, op |-> "write"] \in events => [path |-> f, op |-> "write"] \in events'
      BY <2>5, <3>1
    <3>3. WriteNoted(f) => WriteNoted(f)'
      BY <2>1, <2>4, <3>2 DEF WriteNoted
    <3>4. ChangeNoted(f) => ChangeNoted(f)'
      BY <2>1, <2>4, <2>5, <3>1 DEF ChangeNoted
    <3>. QED BY <3>3, <3>4
  <2>7. RuleNoted => RuleNoted'
    BY <1>0, <2>1, <2>5, Bounds DEF RuleNoted
  <2>. QED BY <2>1, <2>2, <2>6, <2>7, NotesKept
<1>3. ASSUME NEW g \in InDir, RecordTree(g) PROVE IInv'
  <2>1. /\ UNCHANGED <<now, edits, policy, tree, rule, fails, watching, events, overflow, dir,
                       index, saved, sync>>
        /\ naming' = naming \ {g}
        /\ IF tree[g] = None THEN UNCHANGED <<seen, lost, stale>> ELSE Mark(g, "write")
    BY <1>3 DEF RecordTree, worldVars, backVars
  <2>2. g \in Paths /\ "write" \in Ops
    BY Bounds DEF Paths, Ops
  <2>3. DirIsHeard'
    BY <2>1 DEF DirIsHeard, DirQueued
  <2>4. \/ lost' = TRUE /\ stale' = TRUE
        \/ tree[g] # None /\ seen' = [seen EXCEPT ![g] = @ \cup {"write"}] /\ UNCHANGED <<lost, stale>>
        \/ tree[g] = None /\ UNCHANGED <<seen, lost, stale>>
    BY <2>1, <2>2, MarkType
  <2>5. CASE tree[g] # None /\ seen' = [seen EXCEPT ![g] = @ \cup {"write"}] /\ UNCHANGED <<lost, stale>>
    <3>1. \A p \in Paths : seen[p] \subseteq seen'[p]
      BY <1>0, <2>2, <2>5
    <3>2. "write" \in seen'[g]
      BY <1>0, <2>2, <2>5
    <3>3. ASSUME NEW f \in Files
          PROVE  (WriteNoted(f) => WriteNoted(f)') /\ (ChangeNoted(f) => ChangeNoted(f)')
      <4>1. f \in Paths
        BY <1>0
      <4>2. f # g => (FileQueued(f) => FileQueued(f)')
        BY <2>1 DEF FileQueued, DirQueued
      <4>3. CASE f = g
        BY <3>2, <4>3 DEF WriteNoted, ChangeNoted
      <4>4. CASE f # g
        BY <2>1, <3>1, <4>1, <4>2, <4>4 DEF WriteNoted, ChangeNoted
      <4>. QED BY <4>3, <4>4
    <3>4. RuleNoted => RuleNoted'
      BY <1>0, <2>1, <3>1 DEF RuleNoted
    <3>. QED BY <2>1, <2>3, <2>5, <3>3, <3>4, NotesKept
  <2>6. CASE tree[g] = None /\ UNCHANGED <<seen, lost, stale>>
    <3>1. ASSUME NEW f \in Files, tree[f] # None
          PROVE  (WriteNoted(f) => WriteNoted(f)') /\ (ChangeNoted(f) => ChangeNoted(f)')
      <4>1. FileQueued(f) => FileQueued(f)'
        BY <2>1, <2>6, <3>1 DEF FileQueued, DirQueued
      <4>2. WriteNoted(f) => WriteNoted(f)'
        BY <2>1, <2>6, <4>1 DEF WriteNoted
      <4>3. ChangeNoted(f) => ChangeNoted(f)'
        BY <2>1, <2>6, <4>1 DEF ChangeNoted
      <4>. QED BY <4>2, <4>3
    <3>2. RuleNoted => RuleNoted'
      BY <2>1, <2>6 DEF RuleNoted
    <3>. QED BY <2>1, <2>3, <2>6, <3>1, <3>2, NotesKept
  <2>. QED BY <2>1, <2>3, <2>4, <2>5, <2>6, NotesKept
<1>4. CASE CollectError
  <2>1. /\ UNCHANGED <<now, edits, policy, tree, rule, fails, watching, index, saved, sync,
                       events, dir, naming>>
        /\ lost' = TRUE /\ stale' = TRUE
    BY <1>4 DEF CollectError, Collect, LoseLocked, worldVars
  <2>2. DirIsHeard'
    BY <2>1 DEF DirIsHeard, DirQueued
  <2>. QED BY <2>1, <2>2, NotesKept
<1>. QED BY <1>1, <1>2, <1>3, <1>4 DEF Collecting

-----------------------------------------------------------------------------
(* A sync begins.                                                          *)

LEMMA Begins ==
    ASSUME TypeOK, sync = Idle, NEW kind \in {"walk", "watched"},
           NEW todo \in SUBSET Files, NEW quick \in SUBSET Files, Begin(kind, todo, quick)
    PROVE  /\ ~Running /\ Running' /\ cursor' = cursor /\ cursor = saved
           /\ sync'.pc = "stat" /\ sync'.kind = kind /\ sync'.since = saved
           /\ sync'.started = now /\ sync'.rule = None
           /\ sync'.todo = todo /\ sync'.quick = quick
           /\ \A f \in todo : Ahead(f)' /\ (f \notin quick => ToRead(f)')
<1>1. sync' \in UnderWay
  BY BeginType
<1>2. ~Running /\ Running'
  BY <1>1, RunningRecord DEF Running
<1>3. /\ sync'.pc = "stat" /\ sync'.kind = kind /\ sync'.since = saved
      /\ sync'.started = now /\ sync'.rule = None /\ sync'.pos = 1
      /\ sync'.todo = todo /\ sync'.quick = quick
  BY DEF Begin
<1>4. cursor' = cursor /\ cursor = saved
  BY <1>2, <1>3 DEF cursor
<1>5. \A f \in todo : 1 <= f
  BY Bounds
<1>. QED BY <1>2, <1>3, <1>4, <1>5 DEF Ahead, ToRead

\* A walk has every file there is ahead of it.
LEMMA WalkBegins ==
    ASSUME IInv, TypeOK', StartWalk \/ StartRuled
    PROVE  IInv'
<1>. USE DEF IInv
<1>. DEFINE todo == {f \in Files : tree[f] # None}
<1>1. /\ sync = Idle /\ Begin("walk", todo, {})
      /\ UNCHANGED <<now, edits, policy, tree, rule, watching, events, overflow, dir, naming,
                     index, saved>>
      /\ watching => lost'
  BY DEF StartWalk, StartRuled, Syncing, worldVars, backVars
<1>2. todo \in SUBSET Files /\ {} \in SUBSET Files
  OBVIOUS
<1>3. /\ Running' /\ cursor' = cursor /\ cursor = saved
      /\ sync'.pc = "stat" /\ sync'.kind = "walk" /\ sync'.since = saved
      /\ sync'.started = now /\ sync'.rule = None /\ sync'.quick = {}
      /\ \A f \in todo : Ahead(f)' /\ ToRead(f)'
  <2>. HIDE DEF todo
  <2>. QED BY <1>1, <1>2, Begins, ZenonT(40)
<1>4. \A f : Read_(f)' = Read_(f) /\ Governed(f)' = Governed(f) /\ PermAt(f)' = PermAt(f)
  BY <1>1, FileStays
<1>5. saved < now /\ now <= now
  BY <1>3, Bounds DEF CursorCovers, TypeOK
<1>n. Numbered'
  BY <1>1 DEF Numbered
<1>c. CursorCovers'
  BY <1>1, <1>3, <1>4 DEF CursorCovers
<1>d. DirIsHeard'
  BY <1>1 DEF DirIsHeard, DirQueued
<1>e. SyncIsFresh'
  BY <1>1, <1>3, <1>5 DEF SyncIsFresh
<1>f. SyncCovers'
  BY <1>1, <1>3 DEF SyncCovers
<1>g. RecordIsTrue'
  BY <1>1, <1>3 DEF RecordIsTrue
<1>. QED BY <1>n, <1>c, <1>d, <1>e, <1>f, <1>g

\* A watched sync has ahead of it what the record it was given names.
LEMMA WatchedBegins ==
    ASSUME IInv, TypeOK', StartWatched
    PROVE  IInv'
<1>. USE DEF IInv
<1>. DEFINE todo == {f \in Files : seen[f] # {}}
            quick == {f \in Files : seen[f] = {"chmod"}}
<1>1. /\ sync = Idle /\ Begin("watched", todo, quick)
      /\ UNCHANGED <<now, edits, policy, tree, rule, watching, events, overflow, dir, naming,
                     index, saved, lost>>
      /\ watching /\ ~lost
      /\ policy = "owners" => seen[Rule] = {}
  BY DEF StartWatched, Syncing, worldVars, backVars
<1>2. todo \in SUBSET Files /\ quick \in SUBSET Files
  OBVIOUS
<1>3. /\ ~Running /\ Running' /\ cursor' = cursor /\ cursor = saved
      /\ sync'.pc = "stat" /\ sync'.kind = "watched" /\ sync'.since = saved
      /\ sync'.started = now /\ sync'.rule = None
      /\ \A f \in todo : Ahead(f)' /\ (f \notin quick => ToRead(f)')
  <2>. HIDE DEF todo, quick
  <2>. QED BY <1>1, <1>2, Begins
<1>4. \A f : Read_(f)' = Read_(f) /\ Governed(f)' = Governed(f) /\ PermAt(f)' = PermAt(f)
  BY <1>1, FileStays
<1>5. saved < now /\ now <= now
  BY <1>3, Bounds DEF CursorCovers, TypeOK
<1>6. Trusted /\ \A f : ~Ahead(f) /\ ~ToRead(f)
  BY <1>1, <1>3 DEF Trusted, Ahead, ToRead
<1>7. \A f \in Files : /\ "write" \in seen[f] => ToRead(f)'
                       /\ seen[f] # {} => Ahead(f)'
  BY <1>3
<1>8. \A f \in Files : FileQueued(f)' = FileQueued(f)
  BY <1>1 DEF FileQueued, DirQueued
<1>9. \A f \in Files : WriteNoted(f) =>
          ToRead(f)' \/ (tree[f].mod = now /\ WriteNoted(f)')
  BY <1>1, <1>7, <1>8 DEF WriteNoted
<1>10. \A f \in Files : PermNoted(f) =>
           Ahead(f)' \/ (PermAt(f) = now /\ PermNoted(f)')
  <2>1. CASE policy = "owners"
    BY <1>1, <2>1 DEF PermNoted, RuleNoted, PermAt
  <2>2. CASE policy # "owners"
    BY <1>1, <1>7, <1>8, <2>2 DEF PermNoted, ChangeNoted, PermAt
  <2>. QED BY <2>1, <2>2
<1>n. Numbered'
  BY <1>1 DEF Numbered
<1>c. CursorCovers'
  BY <1>1, <1>3, <1>4 DEF CursorCovers
<1>d. DirIsHeard'
  BY <1>1 DEF DirIsHeard, DirQueued
<1>e. SyncIsFresh'
  BY <1>1, <1>3, <1>5 DEF SyncIsFresh
<1>f. SyncCovers'
  <2>. SUFFICES ASSUME NEW f \in Files, tree[f] # None, tree[f].mod < now
                PROVE  /\ Read_(f) \/ ToRead(f)'
                       /\ Read_(f) /\ ~Governed(f) /\ PermAt(f) < now => Ahead(f)'
    BY <1>1, <1>3, <1>4 DEF SyncCovers
  <2>1. now \in Nat /\ ~(now < now)
    BY Bounds DEF TypeOK
  <2>2. Read_(f) \/ WriteNoted(f)
    BY <1>6 DEF RecordIsTrue
  <2>3. Read_(f) /\ ~Governed(f) => PermNoted(f)
    BY <1>6 DEF RecordIsTrue
  <2>. QED BY <1>9, <1>10, <2>1, <2>2, <2>3
<1>g. RecordIsTrue'
  BY <1>1, <1>4, <1>6, <1>9, <1>10 DEF RecordIsTrue
<1>. QED BY <1>n, <1>c, <1>d, <1>e, <1>f, <1>g

-----------------------------------------------------------------------------
(* A sync goes on.                                                         *)

\* The permissions of f changed since the sync started, and are noted.
Excused(f) == PermAt(f) >= sync.started /\ (Trusted => PermNoted(f))

\* A step leaves the file behind with nothing to put right that is not noted.
Done(f) ==
    /\ Read_(f)' \/ ~(Read_(f) \/ ToRead(f))
    /\ Read_(f)' => \/ Governed(f)' \/ Excused(f)
                    \/ index'[f] = index[f] /\ ~Ahead(f)

\* What a step of a sync leaves alone.
OtherThings ==
    <<now, edits, policy, tree, rule, watching, events, overflow, dir, naming, seen, lost, stale>>

LEMMA Advances ==
    ASSUME IInv, TypeOK', Running, sync' \in UnderWay, UNCHANGED OtherThings,
           sync'.kind = sync.kind, sync'.since = sync.since, sync'.started = sync.started,
           sync'.todo = sync.todo, sync'.quick = sync.quick,
           sync'.rule \in {sync.rule, Cached},
           sync'.pos = sync.pos + 1, sync'.pc = "stat",
           NEW p \in Files, p = sync.pos,
           \A f \in Files : f # p => index'[f] = index[f],
           index'[p] # None => index'[p].ver <= edits,
           tree[p] # None => Done(p)
    PROVE  IInv'
<1>. USE DEF IInv, OtherThings
<1>1. /\ Running' /\ cursor' = cursor /\ cursor = sync.since
      /\ Trusted' = Trusted
      /\ \A f \in Files : f # p => Ahead(f)' = Ahead(f) /\ ToRead(f)' = ToRead(f)
  <2>1. Running'
    BY RunningRecord DEF Running
  <2>2. \A f \in Files : f # p => Ahead(f)' = Ahead(f)
    <3>1. p \in Nat /\ \A f \in Files : f \in Nat
      BY Bounds
    <3>2. \A f \in Files : f # p => (p + 1 <= f <=> p <= f)
      BY <3>1
    <3>. QED BY <2>1, <3>2 DEF Ahead
  <2>. QED BY <2>1, <2>2 DEF cursor, Trusted, ToRead
<1>2. \A f \in Files : f # p =>
          Read_(f)' = Read_(f) /\ Governed(f)' = Governed(f)
  BY FileStays
<1>3. /\ \A f \in Files : PermAt(f)' = PermAt(f) /\ WriteNoted(f)' = WriteNoted(f)
                          /\ PermNoted(f)' = PermNoted(f) /\ ChangeNoted(f)' = ChangeNoted(f)
      /\ RuleNoted' = RuleNoted
  BY DEF PermAt, WriteNoted, PermNoted, ChangeNoted, RuleNoted, FileQueued, DirQueued
<1>4. /\ sync.since \in Nat /\ sync.started \in Nat /\ sync.since < sync.started
      /\ tree[p] # None => PermAt(p) \in Nat
  BY RunningRecord, UnderWayFields, Bounds DEF SyncIsFresh, PermAt, TypeOK, File, RuleFile
<1>n. Numbered'
  BY DEF Numbered
<1>c. CursorCovers'
  <2>. SUFFICES ASSUME NEW f \in Files, tree[f] # None, tree[f].mod <= sync.since
                PROVE  Read_(f)' /\ (PermAt(f) <= sync.since => Governed(f)')
    BY <1>1, <1>3 DEF CursorCovers
  <2>1. Read_(f) /\ (PermAt(f) <= sync.since => Governed(f))
    BY <1>1 DEF CursorCovers
  <2>2. CASE f = p
    <3>1. Read_(p)' /\ Done(p)
      BY <2>1, <2>2 DEF Done
    <3>2. Excused(p) => ~(PermAt(p) <= sync.since)
      BY <1>4, <2>2 DEF Excused
    <3>3. index'[p] = index[p] => Governed(p)' = Governed(p)
      BY FileStays
    <3>. QED BY <2>1, <2>2, <3>1, <3>2, <3>3 DEF Done
  <2>. QED BY <1>2, <2>1, <2>2
<1>d. DirIsHeard'
  BY DEF DirIsHeard, DirQueued
<1>e. SyncIsFresh'
  <2>1. sync'.rule \notin {None, rule} => sync.rule \notin {None, rule}
    BY DEF Cached
  <2>. QED BY <1>1, <1>3, <2>1 DEF SyncIsFresh
<1>f. SyncCovers'
  <2>. SUFFICES ASSUME NEW f \in Files, tree[f] # None, tree[f].mod < sync.started
                PROVE  /\ Read_(f)' \/ ToRead(f)'
                       /\ Read_(f)' /\ ~Governed(f)' /\ PermAt(f) < sync.started => Ahead(f)'
    BY <1>1, <1>3 DEF SyncCovers
  <2>1. /\ Read_(f) \/ ToRead(f)
        /\ Read_(f) /\ ~Governed(f) /\ PermAt(f) < sync.started => Ahead(f)
    BY DEF SyncCovers
  <2>2. CASE f = p
    <3>1. Read_(p)' /\ Done(p)
      BY <2>1, <2>2 DEF Done
    <3>2. Excused(p) => ~(PermAt(p) < sync.started)
      BY <1>4, <2>2 DEF Excused
    <3>3. index'[p] = index[p] => Governed(p)' = Governed(p) /\ Read_(p)' = Read_(p)
      BY FileStays
    <3>. QED BY <2>1, <2>2, <3>1, <3>2, <3>3 DEF Done
  <2>. QED BY <1>1, <1>2, <2>1, <2>2
<1>g. RecordIsTrue'
  <2>. SUFFICES ASSUME NEW f \in Files, tree[f] # None, Trusted
                PROVE  /\ Read_(f)' \/ WriteNoted(f) \/ ToRead(f)'
                       /\ Read_(f)' => Governed(f)' \/ PermNoted(f) \/ Ahead(f)'
    BY <1>1, <1>3 DEF RecordIsTrue
  <2>1. /\ Read_(f) \/ WriteNoted(f) \/ ToRead(f)
        /\ Read_(f) => Governed(f) \/ PermNoted(f) \/ Ahead(f)
    BY DEF RecordIsTrue
  <2>2. CASE f = p
    <3>1. Done(p)
      BY <2>2
    <3>2. index'[p] = index[p] => Governed(p)' = Governed(p) /\ Read_(p)' = Read_(p)
      BY FileStays
    <3>3. Read_(p)' \/ WriteNoted(p)
      BY <2>1, <2>2, <3>1 DEF Done
    <3>4. Read_(p)' => Governed(p)' \/ PermNoted(p)
      BY <2>1, <2>2, <3>1, <3>2 DEF Done, Excused
    <3>. QED BY <2>2, <3>3, <3>4
  <2>. QED BY <1>1, <1>2, <2>1, <2>2
<1>. QED BY <1>n, <1>c, <1>d, <1>e, <1>f, <1>g

\* The permissions the rule a sync has cached gives are the ones of now, or the
\* rule was changed since the sync started.
LEMMA CachedIsFresh ==
    ASSUME IInv, Running, policy = "owners"
    PROVE  Cached = rule \/ (\A f \in Files : Excused(f))
BY DEF IInv, SyncIsFresh, Cached, Excused, PermAt, PermNoted

LEMMA EmitIsDone ==
    ASSUME IInv, Running, NEW p \in Files, tree[p] # None, EmitPermissions(p),
           UNCHANGED OtherThings, Read_(p) \/ ~ToRead(p)
    PROVE  /\ Done(p)
           /\ \A f \in Files : f # p => index'[f] = index[f]
           /\ index'[p] # None => index'[p].ver <= edits
<1>. USE DEF IInv, OtherThings
<1>1. CASE index[p] = None
  <2>1. index' = index
    BY <1>1 DEF EmitPermissions
  <2>2. ~Read_(p) /\ ~Read_(p)'
    BY <1>1, <2>1 DEF Read_
  <2>. QED BY <1>1, <2>1, <2>2 DEF Done
<1>2. CASE index[p] # None
  <2>1. index' = [index EXCEPT ![p] = [@ EXCEPT !.perm = Permissions(tree[p])]]
    BY <1>2 DEF EmitPermissions
  <2>2. index[p] \in [ver: Edits, perm: Edits] /\ Permissions(tree[p]) \in Edits
    BY <1>2, CachedType DEF TypeOK
  <2>3. index'[p].ver = index[p].ver /\ index'[p].perm = Permissions(tree[p])
    BY <2>1, <2>2 DEF TypeOK
  <2>4. index'[p] \in [ver: Edits, perm: Edits]
    BY <2>1, <2>2 DEF TypeOK
  <2>5. index'[p] # None
    BY <2>4, NoneKinds
  <2>6. Read_(p)' = Read_(p)
    BY <1>2, <2>3, <2>5 DEF Read_
  <2>7. Permissions(tree[p]) = Perm(p) => Governed(p)'
    BY <2>3, <2>5 DEF Governed, Perm
  <2>8. Permissions(tree[p]) = Perm(p) \/ Excused(p)
    BY CachedIsFresh DEF Permissions, Perm
  <2>9. \A f \in Files : f # p => index'[f] = index[f]
    BY <2>1 DEF TypeOK
  <2>10. index'[p].ver <= edits
    BY <1>2, <2>3 DEF Numbered
  <2>. QED BY <2>6, <2>7, <2>8, <2>9, <2>10 DEF Done
<1>. QED BY <1>1, <1>2

\* A step that passes the file it looked at.
LEMMA PassedInv ==
    ASSUME IInv, TypeOK', Running, NotListed \/ Gone \/ Quick \/ Refresh
    PROVE  IInv'
<1>. USE DEF IInv
<1>1. /\ UNCHANGED OtherThings /\ sync.pc = "stat" /\ sync.pos <= N
      /\ sync \in UnderWay
  BY RunningRecord DEF NotListed, Gone, Quick, Refresh, Looking, Syncing, OtherThings,
                       worldVars, backVars, At
<1>2. PICK p \in Files : p = sync.pos
  BY <1>1, UnderWayFields, Bounds
<1>3. /\ sync'.kind = sync.kind /\ sync'.since = sync.since /\ sync'.started = sync.started
      /\ sync'.todo = sync.todo /\ sync'.quick = sync.quick
      /\ sync'.rule \in {sync.rule, Cached}
      /\ sync'.pos = sync.pos + 1 /\ sync'.pc = "stat"
  <2>1. CASE NotListed \/ Gone
    BY <1>1, <2>1 DEF NotListed, Gone, Passed, UnderWay
  <2>2. CASE Quick
    BY <1>1, <2>2 DEF Quick, UnderWay
  <2>3. CASE Refresh
    BY <1>1, <2>3 DEF Refresh, UnderWay
  <2>. QED BY <2>1, <2>2, <2>3
<1>4. sync' \in UnderWay
  <2>1. sync' \in Sync
    BY DEF TypeOK
  <2>2. sync'.pc # "idle"
    BY <1>3
  <2>. QED BY <2>1, <2>2 DEF Sync, Idle
<1>5. /\ tree[p] # None => Done(p)
      /\ \A f \in Files : f # p => index'[f] = index[f]
      /\ index'[p] # None => index'[p].ver <= edits
  <2>1. CASE NotListed
    <3>1. UNCHANGED index /\ ~Ahead(p) /\ ~ToRead(p)
      BY <1>2, <2>1 DEF NotListed, Ahead, ToRead, At
    <3>2. Read_(p)' = Read_(p)
      BY <1>1, <3>1 DEF Read_, OtherThings
    <3>. QED BY <3>1, <3>2 DEF Done, Numbered
  <2>2. CASE Gone
    <3>1. tree[p] = None /\ (index' = index \/ index' = [index EXCEPT ![p] = None])
      BY <1>2, <2>2 DEF Gone, At
    <3>. QED BY <3>1 DEF Numbered, TypeOK
  <2>3. CASE Quick
    <3>1. tree[p] # None /\ EmitPermissions(p) /\ ~ToRead(p)
      BY <1>2, <2>3 DEF Quick, At, ToRead
    <3>. QED BY <1>1, <3>1, EmitIsDone
  <2>4. CASE Refresh
    <3>1. /\ tree[p] # None /\ tree[p].mod <= sync.since
          /\ IF ChangedAt(tree[p]) > sync.since THEN EmitPermissions(p) ELSE UNCHANGED index
      BY <1>2, <2>4 DEF Refresh, At
    <3>2. Read_(p) /\ (PermAt(p) <= sync.since => Governed(p))
      BY <3>1 DEF CursorCovers, cursor
    <3>3. CASE EmitPermissions(p)
      BY <1>1, <3>1, <3>2, <3>3, EmitIsDone
    <3>4. CASE index' = index /\ ~(ChangedAt(tree[p]) > sync.since)
      <4>1. ChangedAt(tree[p]) = PermAt(p) \/ Excused(p)
        BY CachedIsFresh DEF ChangedAt, PermAt
      <4>2. ChangedAt(tree[p]) \in Nat /\ sync.since \in Nat
        BY <1>1, <3>1, CachedType, UnderWayFields, Bounds DEF TypeOK
      <4>3. Governed(p) \/ Excused(p)
        BY <3>2, <3>4, <4>1, <4>2
      <4>4. Read_(p)' = Read_(p) /\ Governed(p)' = Governed(p)
        BY <1>1, <3>4, FileStays DEF OtherThings
      <4>. QED BY <3>2, <3>4, <4>3, <4>4 DEF Done, Numbered
    <3>. QED BY <3>1, <3>3, <3>4
  <2>. QED BY <2>1, <2>2, <2>3, <2>4
<1>. QED BY <1>1, <1>2, <1>3, <1>4, <1>5, Advances

LEMMA ReadInv ==
    ASSUME IInv, TypeOK', Running, Read
    PROVE  IInv'
<1>. USE DEF IInv
<1>1. /\ UNCHANGED OtherThings /\ sync.pc = "read" /\ sync.pos <= N
      /\ sync \in UnderWay /\ sync.info \in File
  BY RunningRecord, UnderWayFields DEF SyncIsFresh, Read, Syncing, OtherThings, worldVars, backVars
<1>2. PICK p \in Files : p = sync.pos
  BY <1>1, UnderWayFields, Bounds
<1>3. /\ sync'.kind = sync.kind /\ sync'.since = sync.since /\ sync'.started = sync.started
      /\ sync'.todo = sync.todo /\ sync'.quick = sync.quick
      /\ sync'.rule = sync.rule
      /\ sync'.pos = sync.pos + 1 /\ sync'.pc = "stat"
  BY <1>1 DEF Read, Passed, UnderWay
<1>4. sync' \in UnderWay
  <2>1. sync' \in Sync
    BY DEF TypeOK
  <2>2. sync'.pc # "idle"
    BY <1>3
  <2>. QED BY <2>1, <2>2 DEF Sync, Idle
<1>5. /\ tree[p] # None => Done(p)
      /\ \A f \in Files : f # p => index'[f] = index[f]
      /\ index'[p] # None => index'[p].ver <= edits
  <2>1. CASE tree[p] = None
    <3>1. index' = index
      BY <1>2, <2>1 DEF Read, At
    <3>. QED BY <2>1, <3>1 DEF Numbered
  <2>2. CASE tree[p] # None
    <3>1. index' = [index EXCEPT ![p] = [ver |-> tree[p].ver, perm |-> Permissions(sync.info)]]
      BY <1>2, <2>2 DEF Read, At
    <3>2. tree[p].ver \in Edits /\ Permissions(sync.info) \in Edits
      BY <1>1, <2>2, CachedType DEF TypeOK, File
    <3>3. index'[p] = [ver |-> tree[p].ver, perm |-> Permissions(sync.info)]
      BY <3>1 DEF TypeOK
    <3>4. index'[p] # None
      <4>1. index'[p] \in [ver: Edits, perm: Edits]
        BY <3>2, <3>3
      <4>. QED BY <4>1, NoneKinds
    <3>5. Read_(p)'
      BY <1>1, <3>3, <3>4 DEF Read_, OtherThings
    <3>6. Permissions(sync.info) = Perm(p) => Governed(p)'
      BY <1>1, <3>3, <3>4 DEF Governed, Perm, OtherThings
    <3>7. Permissions(sync.info) = Perm(p) \/ Excused(p)
      <4>1. CASE policy = "owners"
        BY <4>1, CachedIsFresh DEF Permissions, Perm
      <4>2. CASE policy # "owners"
        <5>1. sync.info.mode # tree[p].mode =>
                  tree[p].chg >= sync.started /\ (Trusted => ChangeNoted(p))
          BY <1>1, <1>2, <2>2 DEF SyncIsFresh, At
        <5>. QED BY <4>2, <5>1 DEF Permissions, Perm, Excused, PermAt, PermNoted
      <4>. QED BY <4>1, <4>2
    <3>8. \A f \in Files : f # p => index'[f] = index[f]
      BY <3>1 DEF TypeOK
    <3>9. index'[p].ver <= edits
      BY <2>2, <3>3 DEF Numbered
    <3>. QED BY <3>5, <3>6, <3>7, <3>8, <3>9 DEF Done
  <2>. QED BY <2>1, <2>2
<1>. QED BY <1>1, <1>2, <1>3, <1>4, <1>5, Advances

LEMMA StatInv ==
    ASSUME IInv, TypeOK', Running, Stat
    PROVE  IInv'
<1>. USE DEF IInv
<1>1. /\ UNCHANGED OtherThings /\ UNCHANGED index /\ sync.pos <= N
      /\ sync \in UnderWay /\ tree[At] # None
  BY RunningRecord DEF Stat, Looking, Syncing, OtherThings, worldVars, backVars, At
<1>2. /\ sync'.kind = sync.kind /\ sync'.since = sync.since /\ sync'.started = sync.started
      /\ sync'.todo = sync.todo /\ sync'.quick = sync.quick
      /\ sync'.rule = Cached /\ sync'.info = tree[At]
      /\ sync'.pos = sync.pos /\ sync'.pc = "read"
  BY <1>1 DEF Stat, UnderWay
<1>3. Running'
  <2>1. sync'.pc # Idle.pc
    BY <1>2 DEF Idle
  <2>. QED BY <2>1 DEF Running
<1>4. /\ cursor' = cursor /\ Trusted' = Trusted
      /\ \A f \in Files : Ahead(f)' = Ahead(f) /\ ToRead(f)' = ToRead(f)
  BY <1>1, <1>2, <1>3 DEF cursor, Trusted, Ahead, ToRead, OtherThings
<1>5. /\ \A f \in Files : /\ Read_(f)' = Read_(f) /\ Governed(f)' = Governed(f)
                          /\ PermAt(f)' = PermAt(f) /\ WriteNoted(f)' = WriteNoted(f)
                          /\ PermNoted(f)' = PermNoted(f) /\ ChangeNoted(f)' = ChangeNoted(f)
      /\ RuleNoted' = RuleNoted
  BY <1>1 DEF OtherThings, Read_, Governed, Perm, PermAt, WriteNoted, PermNoted, ChangeNoted,
              RuleNoted, FileQueued, DirQueued
<1>n. Numbered'
  BY <1>1 DEF Numbered, OtherThings
<1>c. CursorCovers'
  BY <1>1, <1>4, <1>5 DEF CursorCovers, OtherThings
<1>d. DirIsHeard'
  BY <1>1 DEF DirIsHeard, DirQueued, OtherThings
<1>e. SyncIsFresh'
  <2>1. sync'.rule \notin {None, rule} => sync.rule \notin {None, rule}
    BY <1>2 DEF Cached
  <2>2. At' = At /\ tree' = tree
    BY <1>1, <1>2 DEF At, OtherThings
  <2>. QED BY <1>1, <1>2, <1>3, <1>4, <1>5, <2>1, <2>2 DEF SyncIsFresh, OtherThings
<1>f. SyncCovers'
  BY <1>1, <1>2, <1>4, <1>5 DEF SyncCovers, OtherThings
<1>g. RecordIsTrue'
  BY <1>1, <1>4, <1>5 DEF RecordIsTrue, OtherThings
<1>. QED BY <1>n, <1>c, <1>d, <1>e, <1>f, <1>g

-----------------------------------------------------------------------------
(* A sync ends, and a process.                                             *)

LEMMA FinishInv ==
    ASSUME IInv, TypeOK', Running, Finish
    PROVE  IInv'
<1>. USE DEF IInv
<1>1. /\ UNCHANGED <<now, edits, policy, tree, rule, watching, events, overflow, dir, naming,
                     index, seen, stale>>
      /\ sync.pos = N + 1 /\ sync' = Idle
      /\ lost' = (lost /\ (sync.kind = "watched" \/ stale))
      /\ sync \in UnderWay
  BY RunningRecord DEF Finish, CaughtUp, Syncing, worldVars, backVars, At
<1>2. ~Running' /\ cursor' = saved'
  BY <1>1 DEF Running, cursor
<1>3. \A f \in Files : ~Ahead(f) /\ ~ToRead(f)
  <2>1. \A f \in Files : ~(N + 1 <= f)
    BY Bounds
  <2>. QED BY <1>1, <2>1 DEF Ahead, ToRead
<1>4. /\ \A f \in Files : /\ Read_(f)' = Read_(f) /\ Governed(f)' = Governed(f)
                          /\ PermAt(f)' = PermAt(f) /\ WriteNoted(f)' = WriteNoted(f)
                          /\ PermNoted(f)' = PermNoted(f)
  BY <1>1 DEF Read_, Governed, Perm, PermAt, WriteNoted, PermNoted, ChangeNoted,
              RuleNoted, FileQueued, DirQueued
<1>5. Trusted' => Trusted
  <2>1. sync.kind \in {"walk", "watched"}
    BY <1>1, UnderWayFields
  <2>. QED BY <1>1, <1>2, <2>1 DEF Trusted
<1>6. /\ sync.since \in Nat /\ sync.started \in Nat /\ sync.highest \in Nat /\ now \in Nat
      /\ sync.since < sync.started /\ sync.started <= now
  BY <1>1, UnderWayFields, Bounds DEF SyncIsFresh, TypeOK
<1>7. saved' < sync.started /\ saved' \in Nat
  <2>1. CASE sync.highest = 0
    BY <1>6, <2>1 DEF Finish
  <2>2. CASE sync.highest # 0
    <3>. DEFINE settled == IF sync.started - 1 < sync.highest
                           THEN sync.started - 1 ELSE sync.highest
    <3>1. settled \in Nat /\ settled < sync.started
      BY <1>6
    <3>2. saved' = Later(settled, sync.since)
      BY <2>2 DEF Finish, Covered
    <3>. HIDE DEF settled
    <3>. QED BY <1>6, <3>1, <3>2 DEF Later
  <2>. QED BY <2>1, <2>2
<1>n. Numbered'
  BY <1>1 DEF Numbered
<1>c. CursorCovers'
  <2>1. saved' < now
    BY <1>6, <1>7
  <2>2. ASSUME NEW f \in Files, tree[f] # None, tree[f].mod <= saved'
        PROVE  Read_(f) /\ (PermAt(f) <= saved' => Governed(f))
    <3>1. tree[f].mod \in Nat /\ PermAt(f) \in Nat
      BY <2>2, Bounds DEF PermAt, TypeOK, File, RuleFile
    <3>2. tree[f].mod < sync.started /\ (PermAt(f) <= saved' => PermAt(f) < sync.started)
      BY <1>6, <1>7, <2>2, <3>1
    <3>. QED BY <1>3, <2>2, <3>2 DEF SyncCovers
  <2>. QED BY <1>1, <1>2, <1>4, <2>1, <2>2 DEF CursorCovers
<1>d. DirIsHeard'
  BY <1>1 DEF DirIsHeard, DirQueued
<1>e. SyncIsFresh' /\ SyncCovers'
  BY <1>2 DEF SyncIsFresh, SyncCovers
<1>g. RecordIsTrue'
  BY <1>1, <1>3, <1>4, <1>5 DEF RecordIsTrue
<1>. QED BY <1>n, <1>c, <1>d, <1>e, <1>g

\* A sync that fails has saved no cursor: the next walk starts where it did.
LEMMA FailSyncInv ==
    ASSUME IInv, TypeOK', "interrupt" \notin Faults, FailSync
    PROVE  IInv'
<1>. USE DEF IInv
<1>1. /\ UNCHANGED <<now, edits, policy, tree, rule, watching, events, overflow, dir, naming,
                     seen, lost, stale, index, saved>>
      /\ Running /\ sync' = Idle /\ sync.kind = "walk" /\ saved = sync.since
  BY DEF FailSync, worldVars, backVars, recVars, Running
<1>2. ~Running' /\ cursor' = cursor
  BY <1>1 DEF Running, cursor
<1>3. ~Trusted'
  BY <1>1, <1>2 DEF Trusted, SyncIsFresh
<1>4. \A f : Read_(f)' = Read_(f) /\ Governed(f)' = Governed(f) /\ PermAt(f)' = PermAt(f)
  BY <1>1, FileStays
<1>n. Numbered'
  BY <1>1 DEF Numbered
<1>c. CursorCovers'
  BY <1>1, <1>2, <1>4 DEF CursorCovers
<1>d. DirIsHeard'
  BY <1>1 DEF DirIsHeard, DirQueued
<1>e. SyncIsFresh' /\ SyncCovers' /\ RecordIsTrue'
  BY <1>2, <1>3 DEF SyncIsFresh, SyncCovers, RecordIsTrue
<1>. QED BY <1>n, <1>c, <1>d, <1>e

LEMMA RestartInv ==
    ASSUME IInv, TypeOK', NEW ok \in BOOLEAN, Restart(ok)
    PROVE  IInv'
<1>. USE DEF IInv
<1>1. /\ UNCHANGED <<now, edits, policy, tree, rule, index, saved, sync>>
      /\ sync = Idle /\ watching' = ok /\ lost' = TRUE
      /\ dir' = IF dir = "absent" THEN dir ELSE IF ok THEN "watched" ELSE "unwatched"
  BY DEF Restart, worldVars
<1>2. ~Running /\ ~Running' /\ cursor' = cursor
  BY <1>1 DEF Running, cursor
<1>3. ~Trusted'
  BY <1>1, <1>2 DEF Trusted
<1>4. \A f : Read_(f)' = Read_(f) /\ Governed(f)' = Governed(f) /\ PermAt(f)' = PermAt(f)
  BY <1>1, FileStays
<1>n. Numbered'
  BY <1>1 DEF Numbered
<1>c. CursorCovers'
  BY <1>1, <1>2, <1>4 DEF CursorCovers
<1>d. DirIsHeard'
  <2>1. \A f \in InDir : tree'[f] # None => dir' # "absent"
    BY <1>1 DEF DirIsHeard
  <2>2. ~(watching' /\ dir' = "unwatched")
    BY <1>1
  <2>. QED BY <2>1, <2>2 DEF DirIsHeard
<1>e. SyncIsFresh' /\ SyncCovers' /\ RecordIsTrue'
  BY <1>2, <1>3 DEF SyncIsFresh, SyncCovers, RecordIsTrue
<1>. QED BY <1>n, <1>c, <1>d, <1>e

-----------------------------------------------------------------------------
(* The theorems.  Each of the faults refutes them, and the README says how. *)

LEMMA InvStep == ASSUME Faults = {} PROVE IInv /\ [Next]_vars => IInv'
<1>. SUFFICES ASSUME IInv, [Next]_vars PROVE IInv'
  OBVIOUS
<1>0. TypeOK'
  BY TypeStep DEF IInv
<1>1. CASE UNCHANGED vars
  BY <1>1 DEF vars, worldVars, backVars, recVars, IInv, TypeOK, Numbered, CursorCovers,
              DirIsHeard, SyncIsFresh, SyncCovers, RecordIsTrue, cursor, Running, Trusted, Read_,
              Governed, Perm, PermAt, WriteNoted, PermNoted, ChangeNoted, RuleNoted,
              FileQueued, DirQueued, Ahead, ToRead, At
<1>2. ASSUME NEW f \in Files, Write(f) \/ Chmod(f) \/ Delete(f) PROVE IInv'
  BY <1>0, <1>2, WriteInv, ChmodInv, DeleteInv
<1>3. CASE EditRule \/ Mkdir \/ Tick
  BY <1>0, <1>3, EditRuleInv, MkdirInv, TickInv
<1>4. CASE Collecting
  BY <1>0, <1>4, CollectingInv
<1>5. CASE StartWalk \/ StartRuled \/ StartWatched
  BY <1>0, <1>5, WalkBegins, WatchedBegins
<1>6. CASE Step
  <2>1. Running
    BY <1>6, StepRuns DEF IInv
  <2>. QED BY <1>0, <1>6, <2>1, PassedInv, StatInv, ReadInv, FinishInv DEF Step
<1>7. CASE FailSync
  BY <1>0, <1>7, FailSyncInv
<1>8. ASSUME NEW ok \in BOOLEAN, Restart(ok) PROVE IInv'
  BY <1>0, <1>8, RestartInv
<1>. QED BY <1>1, <1>2, <1>3, <1>4, <1>5, <1>6, <1>7, <1>8 DEF Next

\* The clock, the tree, the record and the sync keep their types.
THEOREM TypeCorrect == ASSUME Faults = {} PROVE Spec => []TypeOK
<1>1. IInv => TypeOK
  BY DEF IInv
<1>2. IInv /\ [Next]_vars => IInv'
  BY InvStep
<1>. QED BY <1>1, <1>2, InvInit, PTL DEF Spec

\* settled, covered: between two syncs every file as old as the saved cursor is
\* in the index as it is in the tree, however walks and watched syncs follow.
THEOREM CursorIsHonest == ASSUME Faults = {} PROVE Spec => []CursorHonest
<1>1. IInv => CursorHonest
  BY DEF IInv, CursorCovers, CursorHonest, cursor, Running
<1>2. IInv /\ [Next]_vars => IInv'
  BY InvStep
<1>. QED BY <1>1, <1>2, InvInit, PTL DEF Spec

\* What the record names covers what OnRecord asks of it.
LEMMA NotedIsOnRecord ==
    ASSUME NEW f \in Files, f \in Paths,
           WriteNoted(f) \/ (Read_(f) /\ PermNoted(f))
    PROVE  OnRecord(f)
<1>1. CASE WriteNoted(f)
  BY <1>1 DEF WriteNoted, FileQueued, DirQueued, OnRecord
<1>2. CASE Read_(f) /\ policy = "owners" /\ RuleNoted
  BY <1>2 DEF RuleNoted, OnRecord
<1>3. CASE Read_(f) /\ ChangeNoted(f)
  BY <1>3 DEF ChangeNoted, FileQueued, DirQueued, OnRecord
<1>. QED BY <1>1, <1>2, <1>3 DEF PermNoted

\* pending, record, caughtUp: a file the index has wrong is one the record
\* names, or one the walk that is going to happen will emit.
THEOREM NothingIsForgotten == ASSUME Faults = {} PROVE Spec => []NothingForgotten
<1>1. IInv => NothingForgotten
  <2>. SUFFICES ASSUME IInv, sync = Idle, NEW f \in Files, tree[f] # None,
                       ~(Read_(f) /\ Governed(f))
                PROVE  IF watching /\ ~lost THEN OnRecord(f) ELSE InWalk(f)
    BY DEF NothingForgotten
  <2>. USE DEF IInv
  <2>1. ~Running /\ cursor = saved /\ ~Ahead(f) /\ ~ToRead(f) /\ f \in Paths
    BY DEF Running, cursor, Ahead, ToRead, Paths
  <2>2. CASE watching /\ ~lost
    <3>1. Trusted
      BY <2>2 DEF Trusted
    <3>2. WriteNoted(f) \/ (Read_(f) /\ PermNoted(f))
      BY <2>1, <3>1 DEF RecordIsTrue
    <3>. QED BY <2>1, <2>2, <3>2, NotedIsOnRecord
  <2>3. CASE ~(watching /\ ~lost)
    <3>1. saved \in Nat /\ tree[f].mod \in Nat /\ PermAt(f) \in Nat
      BY Bounds DEF PermAt, TypeOK, File, RuleFile
    <3>2. tree[f].mod <= saved => Read_(f) /\ (PermAt(f) <= saved => Governed(f))
      BY <2>1 DEF CursorCovers
    <3>. QED BY <2>3, <3>1, <3>2 DEF InWalk
  <2>. QED BY <2>2, <2>3
<1>2. IInv /\ [Next]_vars => IInv'
  BY InvStep
<1>. QED BY <1>1, <1>2, InvInit, PTL DEF Spec
=============================================================================
