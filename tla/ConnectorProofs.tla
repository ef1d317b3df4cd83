-------------------------- MODULE ConnectorProofs --------------------------
(***************************************************************************)
(* What the connectors share: a crawl goes on where it stopped, for every  *)
(* number of containers, conversations, objects and interruptions; what it *)
(* indexes is under what its source said of it, for every set of grants,   *)
(* rules and people; and the ceiling on what a source is asked for holds   *)
(* for every policy and any number of callers.                             *)
(***************************************************************************)
EXTENDS Connectors, Limit, FiniteSetTheorems, WellFoundedInduction, TLAPS

-----------------------------------------------------------------------------
(* Conversations: the invariant.                                           *)

Points == [since: Nat, edge: SUBSET TsConvs, perms: Nat, cont: 0 .. TsConts, at: Nat]
Rules == [1 .. TsConts -> Nat]
Runs == [on: {TRUE}, start: Points, full: BOOLEAN, rules: Rules, tick: Nat, bound: Rules,
         c: 1 .. TsConts, since: Nat, pos: Nat \X Nat, left: SUBSET TsConvs,
         high: Nat, edge: SUBSET TsConvs]

TsTyped ==
  /\ tsNow \in Nat \ {0} /\ tsConv \in [TsConvs -> Nat] /\ \A x \in TsConvs : tsConv[x] <= tsNow
  /\ tsRule \in Rules /\ tsThen \in Rules
  /\ tsIdx \in [TsConvs -> [at: Nat, rule: Int]] /\ \A x \in TsConvs : tsIdx[x].at <= tsConv[x]
  /\ tsCk \in Points /\ tsRun \in {tsNoRun} \cup Runs
  /\ tsFresh \subseteq TsConvs /\ tsRaced \subseteq TsConvs /\ tsMisfiled \in BOOLEAN

\* A cursor is behind the clock, and its edge was seen at its instant.
Sound(p) ==
  /\ p.since <= tsNow /\ p.at <= tsNow /\ p.perms <= tsNow
  /\ (p.since > 0 => p.edge # {}) /\ \A x \in p.edge : tsConv[x] >= p.since

\* Where the walk of the container a cursor names begins.
From(p) == IF p.at > p.since THEN p.at ELSE p.since

RunSound == tsRun.on =>
  /\ Sound(tsRun.start) /\ tsRun.tick <= tsNow
  /\ tsRun.high <= tsNow /\ (tsRun.high > 0 => tsRun.edge # {}) /\ \A x \in tsRun.edge : tsConv[x] >= tsRun.high
  /\ tsRun.start.cont <= tsRun.c /\ tsCk.cont <= tsRun.c
  /\ tsRun.since = (IF tsRun.c = tsRun.start.cont THEN From(tsRun.start) ELSE tsRun.start.since)
  /\ tsCk.since = tsRun.start.since /\ tsCk.edge = tsRun.start.edge
  /\ tsRun.pos[1] <= tsNow

\* A conversation is indexed as it is, or ahead of a cursor, or ahead of the walk.
Indexed(x) == tsIdx[x].at = tsConv[x]
Ahead(x, p) == tsConv[x] >= p.since /\ ~(tsConv[x] = p.since /\ x \in p.edge)
ToCome(x, p) ==
  /\ Ahead(x, p)
  /\ p.cont = 0 \/ TsHome[x] > p.cont \/ (TsHome[x] = p.cont /\ tsConv[x] >= From(p))
OnItsWay(x) == Ahead(x, tsRun.start) /\ (TsHome[x] > tsRun.c \/ x \in walk)

CursorIsBehind == ~tsMisfiled => \A x \in TsConvs \ tsRaced : Indexed(x) \/ ToCome(x, tsCk)
WalkIsBehind == ~tsMisfiled /\ tsRun.on => \A x \in TsConvs \ tsRaced : Indexed(x) \/ OnItsWay(x)
FinishedRight ==
  ~tsMisfiled /\ tsCk.cont = 0 /\ tsCk # ZeroPoint => \A x \in TsConvs \ (tsFresh \cup tsRaced) : Indexed(x)

TsInv == TsTyped /\ Sound(tsCk) /\ RunSound /\ CursorIsBehind /\ WalkIsBehind /\ FinishedRight

-----------------------------------------------------------------------------
(* Conversations: the steps.                                               *)

LEMMA TsConsts ==
  /\ TsConts \in Nat \ {0} /\ TsConvs \subseteq Nat \ {0} /\ TsEvery \in Nat \ {0}
  /\ TsHome \in [TsConvs -> 1 .. TsConts] /\ TsOwn \subseteq TsConvs
BY TsAssumption DEF TsAssumption

LEMMA TsInitInv == TsInit => TsInv
<1>. SUFFICES ASSUME TsInit PROVE TsInv
  OBVIOUS
<1>1. /\ tsNow = 1 /\ tsConv \in [TsConvs -> {0, 1}] /\ tsRule = [c \in 1 .. TsConts |-> 0] /\ tsThen = tsRule
      /\ tsIdx = [x \in TsConvs |-> [at |-> 0, rule |-> 0]]
      /\ tsCk = [since |-> 0, edge |-> {}, perms |-> 0, cont |-> 0, at |-> 0]
      /\ tsRun = tsNoRun /\ tsFresh = {} /\ tsRaced = {} /\ tsMisfiled = FALSE
  BY DEF TsInit, ZeroPoint, syncPoint
<1>2. tsCk = ZeroPoint /\ ~tsRun.on /\ \A x \in TsConvs : tsIdx[x].at = 0
  BY <1>1 DEF ZeroPoint, syncPoint, tsNoRun
<1>3. tsCk \in Points
  BY <1>1, TsConsts DEF Points
<1>4. tsIdx \in [TsConvs -> [at: Nat, rule: Int]] /\ tsRule \in Rules /\ tsThen \in Rules
  BY <1>1 DEF Rules
<1>5. TsTyped
  <2>1. /\ tsNow \in Nat \ {0} /\ tsConv \in [TsConvs -> Nat] /\ \A x \in TsConvs : tsConv[x] <= tsNow
        /\ \A x \in TsConvs : tsIdx[x].at <= tsConv[x]
    BY <1>1, <1>2
  <2>2. tsFresh \subseteq TsConvs /\ tsRaced \subseteq TsConvs /\ tsMisfiled \in BOOLEAN
    BY <1>1
  <2>. QED BY <1>1, <1>3, <1>4, <2>1, <2>2 DEF TsTyped
<1>6. Sound(tsCk)
  BY <1>1 DEF Sound
<1>7. CursorIsBehind
  BY <1>1, <1>2 DEF CursorIsBehind, Indexed, ToCome, Ahead
<1>. QED BY <1>2, <1>5, <1>6, <1>7 DEF TsInv, RunSound, WalkIsBehind, FinishedRight

LEMMA PointFields ==
  ASSUME NEW p \in Points
  PROVE  /\ p.since \in Nat /\ p.at \in Nat /\ p.perms \in Nat /\ p.edge \subseteq TsConvs
         /\ p.cont \in Nat /\ p.cont <= TsConts /\ From(p) \in Nat
<1>1. p.cont \in 0 .. TsConts /\ p.since \in Nat /\ p.at \in Nat /\ p.perms \in Nat /\ p.edge \subseteq TsConvs
  BY DEF Points
<1>. QED BY <1>1, TsConsts DEF From

LEMMA RunFields ==
  ASSUME NEW r \in Runs
  PROVE  /\ r.on = TRUE /\ r.start \in Points /\ r.full \in BOOLEAN /\ r.rules \in Rules /\ r.bound \in Rules
         /\ r.tick \in Nat /\ r.c \in Nat \ {0} /\ r.c <= TsConts /\ r.since \in Nat
         /\ r.pos = <<r.pos[1], r.pos[2]>> /\ r.pos[1] \in Nat /\ r.pos[2] \in Nat /\ r.left \subseteq TsConvs
         /\ r.high \in Nat /\ r.edge \subseteq TsConvs
<1>1. r.c \in 1 .. TsConts
  BY DEF Runs
<1>2. r.c \in Nat \ {0} /\ r.c <= TsConts
  BY <1>1, TsConsts
<1>3. r.pos \in Nat \X Nat
  BY DEF Runs
<1>4. /\ r.on = TRUE /\ r.start \in Points /\ r.full \in BOOLEAN /\ r.rules \in Rules /\ r.bound \in Rules
      /\ r.tick \in Nat /\ r.since \in Nat /\ r.left \subseteq TsConvs /\ r.high \in Nat /\ r.edge \subseteq TsConvs
  BY DEF Runs
<1>. QED BY <1>2, <1>3, <1>4

LEMMA AccessTyped ==
  ASSUME NEW x \in TsConvs, NEW r \in Rules
  PROVE  access(x, r) \in Int
<1>1. TsHome[x] \in 1 .. TsConts /\ r \in [1 .. TsConts -> Nat]
  BY TsConsts DEF Rules
<1>2. r[TsHome[x]] \in Nat
  BY <1>1
<1>. QED BY <1>2 DEF access, OwnRule

\* What a run that is on looks like.
LEMMA RunTyped ==
  ASSUME TsTyped
  PROVE  /\ tsRun.on \in BOOLEAN /\ (tsRun.on => tsRun \in Runs) /\ (~tsRun.on => tsRun = tsNoRun)
<1>1. tsRun = tsNoRun \/ tsRun \in Runs
  BY DEF TsTyped
<1>2. tsNoRun.on = FALSE
  BY DEF tsNoRun
<1>3. \A r \in Runs : r.on = TRUE
  BY DEF Runs
<1>. QED BY <1>1, <1>2, <1>3

LEMMA WriteKeeps ==
  ASSUME TsInv, NEW w \in TsConvs, TsWrite(w)
  PROVE  TsInv'
<1>1. TsTyped /\ Sound(tsCk) /\ RunSound /\ CursorIsBehind /\ WalkIsBehind /\ FinishedRight
  BY DEF TsInv
<1>2. /\ tsConv[w] < tsNow /\ tsConv' = [tsConv EXCEPT ![w] = tsNow] /\ tsFresh' = tsFresh \union {w}
      /\ UNCHANGED <<tsNow, tsRule, tsThen, tsIdx, tsCk, tsRun, tsMisfiled>>
      /\ tsRaced' = IF \/ TsHome[w] < tsReached
                       \/ tsRun.on /\ TsHome[w] = tsRun.c /\ tsRun.pos[1] = tsNow /\ w <= tsRun.pos[2]
                    THEN tsRaced \union {w} ELSE tsRaced \ {w}
  BY DEF TsWrite, tsKeepsCrawl
<1>3. /\ tsNow \in Nat \ {0} /\ tsConv \in [TsConvs -> Nat] /\ \A x \in TsConvs : tsIdx[x].at \in Nat
      /\ tsConv' \in [TsConvs -> Nat] /\ tsConv'[w] = tsNow /\ \A x \in TsConvs : x # w => tsConv'[x] = tsConv[x]
      /\ \A x \in TsConvs : tsConv'[x] >= tsConv[x]
  BY <1>1, <1>2 DEF TsTyped
<1>4. TsTyped'
  BY <1>1, <1>2, <1>3 DEF TsTyped
<1>5. ASSUME NEW p \in Points, Sound(p) PROVE Sound(p)' /\ ~(tsNow = p.since /\ w \in p.edge)
  <2>1. p.edge \subseteq TsConvs /\ p.since \in Nat
    BY DEF Points
  <2>. QED BY <1>2, <1>3, <1>5, <2>1 DEF Sound
<1>6. tsCk \in Points /\ (tsRun.on => tsRun \in Runs /\ tsRun.start \in Points)
  BY <1>1, RunTyped DEF TsTyped, Runs
<1>7. Sound(tsCk)'
  BY <1>1, <1>2, <1>5, <1>6 DEF Sound
<1>8. RunSound'
  <2>. SUFFICES ASSUME tsRun.on PROVE RunSound'
    BY <1>2 DEF RunSound
  <2>1. PICK s \in Points : s = tsRun.start
    BY <1>6
  <2>5. Sound(s)'
    BY <1>1, <1>5, <2>1 DEF RunSound
  <2>2. tsRun.edge \subseteq TsConvs /\ tsRun.high \in Nat
    BY <1>6 DEF Runs
  <2>3. \A x \in tsRun.edge : tsConv'[x] >= tsRun.high
    BY <1>1, <1>3, <2>2 DEF RunSound
  <2>4. Sound(tsRun.start)'
    BY <1>2, <2>1, <2>5 DEF Sound
  <2>6. tsRun' = tsRun /\ tsCk' = tsCk /\ tsNow' = tsNow
    BY <1>2
  <2>. QED BY <1>1, <2>3, <2>4, <2>6 DEF RunSound, From
<1>9. CursorIsBehind'
  <2>. SUFFICES ASSUME ~tsMisfiled, NEW x \in TsConvs, x \notin tsRaced' PROVE Indexed(x)' \/ ToCome(x, tsCk)'
    BY <1>2 DEF CursorIsBehind
  <2>1. CASE x # w
    <3>1. x \notin tsRaced
      BY <1>2, <2>1
    <3>. QED BY <1>1, <1>2, <1>3, <2>1, <3>1 DEF CursorIsBehind, Indexed, ToCome, Ahead, From
  <2>2. CASE x = w
    <3>1. tsConv'[x] = tsNow /\ tsCk.since <= tsNow /\ From(tsCk) <= tsNow
      BY <1>1, <1>3, <2>2 DEF Sound, From
    <3>2. ~(tsNow = tsCk.since /\ x \in tsCk.edge)
      BY <1>1, <1>5, <1>6, <2>2
    <3>3. ~(TsHome[x] < tsReached)
      BY <1>2, <2>2
    <3>4. tsCk.cont <= tsReached
      BY <1>1, <1>6 DEF tsReached, RunSound, Points
    <3>5. TsHome[x] \in Nat /\ tsCk.cont \in Nat /\ tsReached \in Nat
      <4>1. tsCk.cont \in Nat /\ (tsRun.on => tsRun.c \in Nat)
        BY <1>6, PointFields, RunFields
      <4>. QED BY <4>1, TsConsts DEF tsReached
    <3>6. TsHome[x] >= tsCk.cont
      BY <3>3, <3>4, <3>5
    <3>. QED BY <1>2, <1>3, <3>1, <3>2, <3>5, <3>6 DEF ToCome, Ahead, From
  <2>. QED BY <2>1, <2>2
<1>10. WalkIsBehind'
  <2>. SUFFICES ASSUME ~tsMisfiled, tsRun.on, NEW x \in TsConvs, x \notin tsRaced' PROVE Indexed(x)' \/ OnItsWay(x)'
    BY <1>2 DEF WalkIsBehind
  <2>1. CASE x # w
    <3>1. x \notin tsRaced
      BY <1>2, <2>1
    <3>. QED BY <1>1, <1>2, <1>3, <2>1, <3>1 DEF WalkIsBehind, Indexed, OnItsWay, Ahead, walk, held
  <2>2. CASE x = w
    <3>1. tsConv'[x] = tsNow /\ tsRun.start.since <= tsNow /\ tsRun.since <= tsNow /\ tsRun.pos[1] <= tsNow
      BY <1>1, <1>3, <2>2 DEF RunSound, Sound, From
    <3>2. ~(tsNow = tsRun.start.since /\ x \in tsRun.start.edge)
      BY <1>1, <1>5, <1>6, <2>2 DEF RunSound
    <3>3. tsReached = tsRun.c /\ TsHome[x] \in Nat /\ tsRun.c \in Nat /\ tsRun.pos[1] \in Nat /\ tsRun.pos[2] \in Nat /\ x \in Nat
      BY <1>6, TsConsts DEF tsReached, Runs
    <3>4. TsHome[x] >= tsRun.c /\ ~(TsHome[x] = tsRun.c /\ tsRun.pos[1] = tsNow /\ x <= tsRun.pos[2])
      BY <1>2, <2>2, <3>3
    <3>5. Ahead(x, tsRun.start)'
      BY <1>2, <3>1, <3>2 DEF Ahead
    <3>6. CASE TsHome[x] = tsRun.c
      <4>1. tsNow > tsRun.pos[1] \/ (tsNow = tsRun.pos[1] /\ x > tsRun.pos[2])
        BY <1>3, <3>1, <3>3, <3>4, <3>6
      <4>2. x \in held(tsRun.c)'
        BY <1>2, <1>3, <3>1, <3>6 DEF held
      <4>3. x \in walk'
        BY <1>2, <3>1, <4>1, <4>2 DEF walk, held
      <4>. QED BY <3>5, <4>3 DEF OnItsWay
    <3>7. CASE TsHome[x] # tsRun.c
      BY <1>2, <3>3, <3>4, <3>5, <3>7 DEF OnItsWay
    <3>. QED BY <3>6, <3>7
  <2>. QED BY <2>1, <2>2
<1>11. FinishedRight'
  BY <1>1, <1>2, <1>3 DEF FinishedRight, Indexed
<1>. QED BY <1>4, <1>7, <1>8, <1>9, <1>10, <1>11 DEF TsInv

\* A rule is rewritten, or time passes: what is indexed and what lies ahead stay.
LEMMA TimeKeeps ==
  ASSUME TsInv, (\E c \in 1 .. TsConts : TsRewrite(c)) \/ TsTick
  PROVE  TsInv'
<1>1. TsTyped /\ Sound(tsCk) /\ RunSound /\ CursorIsBehind /\ WalkIsBehind /\ FinishedRight
  BY DEF TsInv
<1>2. /\ UNCHANGED <<tsConv, tsIdx, tsCk, tsRun, tsMisfiled, tsFresh, tsRaced>>
      /\ tsNow' \in {tsNow, tsNow + 1} /\ tsThen' \in {tsThen, tsRule}
      /\ tsRule' = tsRule \/ \E c \in 1 .. TsConts : tsRule' = [tsRule EXCEPT ![c] = @ + 1]
  BY DEF TsRewrite, TsTick, tsKeepsCrawl
<1>3. tsNow \in Nat \ {0} /\ tsNow' \in Nat \ {0} /\ tsNow <= tsNow'
  BY <1>1, <1>2 DEF TsTyped
<1>4. tsRule' \in Rules /\ tsThen' \in Rules
  BY <1>1, <1>2 DEF TsTyped, Rules
<1>5. TsTyped'
  <2>1. tsConv \in [TsConvs -> Nat] /\ \A x \in TsConvs : tsConv[x] <= tsNow'
    BY <1>1, <1>3 DEF TsTyped
  <2>. QED BY <1>1, <1>2, <1>3, <1>4, <2>1 DEF TsTyped
<1>6. ASSUME NEW p \in Points, Sound(p) PROVE Sound(p)'
  BY <1>2, <1>3, <1>6, PointFields DEF Sound
<1>7. Sound(tsCk)'
  <2>1. PICK p \in Points : p = tsCk
    BY <1>1 DEF TsTyped
  <2>2. Sound(p)'
    BY <1>1, <1>6, <2>1
  <2>. QED BY <1>2, <2>1, <2>2 DEF Sound
<1>8. RunSound'
  <2>. SUFFICES ASSUME tsRun.on PROVE RunSound'
    BY <1>2 DEF RunSound
  <2>1. tsRun \in Runs
    BY <1>1, RunTyped
  <2>2. PICK p \in Points : p = tsRun.start
    BY <2>1, RunFields
  <2>3. Sound(p)'
    BY <1>1, <1>6, <2>2 DEF RunSound
  <2>4. Sound(tsRun.start)'
    BY <1>2, <2>2, <2>3 DEF Sound
  <2>5. tsRun.tick <= tsNow' /\ tsRun.high <= tsNow' /\ tsRun.pos[1] <= tsNow'
    <3>1. tsRun.tick \in Nat /\ tsRun.high \in Nat /\ tsRun.pos[1] \in Nat
      BY <2>1, RunFields
    <3>2. tsRun.tick <= tsNow /\ tsRun.high <= tsNow /\ tsRun.pos[1] <= tsNow
      BY <1>1 DEF RunSound
    <3>. QED BY <1>2, <1>3, <3>1, <3>2
  <2>6. tsRun' = tsRun /\ tsCk' = tsCk /\ tsConv' = tsConv
    BY <1>2
  <2>. QED BY <1>1, <2>4, <2>5, <2>6 DEF RunSound, From
<1>9. CursorIsBehind'
  BY <1>1, <1>2 DEF CursorIsBehind, Indexed, ToCome, Ahead, From
<1>10. WalkIsBehind'
  BY <1>1, <1>2 DEF WalkIsBehind, Indexed, OnItsWay, Ahead, walk, held
<1>11. FinishedRight'
  BY <1>1, <1>2 DEF FinishedRight, Indexed
<1>. QED BY <1>5, <1>7, <1>8, <1>9, <1>10, <1>11 DEF TsInv

LEMMA TickBehind ==
  ASSUME tsNow \in Nat
  PROVE  tick \in Nat /\ tick <= tsNow
<1>1. TsEvery \in Nat \ {0}
  BY TsConsts
<1>2. ASSUME NEW n \in Nat, NEW e \in Nat \ {0}
      PROVE  (n \div e) * e <= n /\ n \div e \in Nat
  OBVIOUS
<1>3. ASSUME NEW q \in Nat, NEW e \in Nat
      PROVE  q * e \in Nat
  OBVIOUS
<1>. QED BY <1>1, <1>2, <1>3 DEF tick

\* A container is entered: its conversations are walked from where the cursor says.
LEMMA Enters ==
  ASSUME NEW r \in Runs, NEW c \in 1 .. TsConts
  PROVE  LET e == enters(r, c)
         IN /\ e \in Runs /\ e.c = c /\ e.pos = <<0, 0>> /\ e.start = r.start /\ e.tick = r.tick
            /\ e.high = r.high /\ e.edge = r.edge
            /\ e.since = IF c = r.start.cont THEN From(r.start) ELSE r.start.since
<1>. DEFINE since == IF c = r.start.cont /\ r.start.at > r.start.since THEN r.start.at ELSE r.start.since
            left == IF ~r.full /\ r.tick > r.start.perms THEN held(c) ELSE {}
<1>1. since \in Nat /\ left \subseteq TsConvs
  BY RunFields, PointFields DEF held
<1>2. since = IF c = r.start.cont THEN From(r.start) ELSE r.start.since
  BY DEF From
<1>3. enters(r, c) = [r EXCEPT !.c = c, !.pos = <<0, 0>>, !.since = since, !.left = left]
  BY DEF enters
<1>. HIDE DEF since, left
<1>4. <<0, 0>> \in Nat \X Nat
  OBVIOUS
<1>5. DOMAIN enters(r, c) = DOMAIN r /\ enters(r, c).c = c /\ enters(r, c).pos = <<0, 0>>
      /\ enters(r, c).since = since /\ enters(r, c).left = left
      /\ \A f \in {"on", "start", "full", "rules", "tick", "bound", "high", "edge"} : enters(r, c)[f] = r[f]
  BY <1>3 DEF Runs
<1>6. enters(r, c) \in Runs
  BY <1>1, <1>3, <1>4 DEF Runs
<1>. QED BY <1>2, <1>5, <1>6

LEMMA SyncKeeps ==
  ASSUME TsInv, TsSync
  PROVE  TsInv'
<1>1. TsTyped /\ Sound(tsCk) /\ RunSound /\ CursorIsBehind /\ WalkIsBehind /\ FinishedRight
  BY DEF TsInv
<1>. DEFINE r == [on |-> TRUE, start |-> tsCk, full |-> tsCk = ZeroPoint, rules |-> tsRule, tick |-> tick,
                  bound |-> tsThen, c |-> first(tsCk), since |-> 0, pos |-> <<0, 0>>, left |-> {},
                  high |-> tsCk.since, edge |-> tsCk.edge]
            c == first(tsCk)
<1>2. tsCk \in Points /\ tsNow \in Nat /\ tsConv \in [TsConvs -> Nat] /\ tick \in Nat /\ tick <= tsNow
  BY <1>1, TickBehind DEF TsTyped
<1>3. tsCk.cont \in 0 .. TsConts /\ tsCk.since \in Nat /\ tsCk.edge \subseteq TsConvs /\ From(tsCk) \in Nat
  BY <1>2, PointFields DEF Points
<1>4. c \in 1 .. TsConts /\ tsCk.cont <= c /\ (tsCk.cont # 0 => c = tsCk.cont) /\ (tsCk.cont = 0 => c = 1)
  BY <1>3, TsConsts DEF first
<1>5. r \in Runs
  <2>1. tsRule \in Rules /\ tsThen \in Rules /\ first(tsCk) \in 1 .. TsConts /\ <<0, 0>> \in Nat \X Nat
    BY <1>1, <1>4 DEF TsTyped
  <2>. QED BY <1>2, <1>3, <2>1 DEF Runs
<1>6. UNCHANGED <<tsNow, tsConv, tsRule, tsThen, tsFresh, tsIdx, tsCk, tsRaced, tsMisfiled>>
  BY DEF TsSync, tsKeepsSource
<1>7. tsRun' = enters(r, c)
  BY DEF TsSync
<1>8. /\ r.start = tsCk /\ r.tick = tick /\ r.high = tsCk.since /\ r.edge = tsCk.edge
  OBVIOUS
<1>. HIDE DEF r, c
<1>9. /\ tsRun' \in Runs /\ tsRun'.on = TRUE /\ tsRun'.c = c /\ tsRun'.pos = <<0, 0>> /\ tsRun'.start = tsCk
      /\ tsRun'.tick = tick /\ tsRun'.high = tsCk.since /\ tsRun'.edge = tsCk.edge
      /\ tsRun'.since = IF c = tsCk.cont THEN From(tsCk) ELSE tsCk.since
  <2>1. enters(r, c) \in Runs
    BY <1>4, <1>5, Enters
  <2>2. enters(r, c).on = TRUE
    BY <2>1, RunFields
  <2>. QED BY <1>4, <1>5, <1>7, <1>8, <2>1, <2>2, Enters
<1>10. TsTyped'
  BY <1>1, <1>6, <1>9 DEF TsTyped
<1>11. Sound(tsCk)'
  BY <1>1, <1>6 DEF Sound
<1>12. RunSound'
  <2>1. Sound(tsRun.start)'
    BY <1>1, <1>6, <1>9 DEF Sound
  <2>2. /\ tsRun'.tick <= tsNow' /\ tsRun'.high <= tsNow' /\ (tsRun'.high > 0 => tsRun'.edge # {})
        /\ \A x \in tsRun'.edge : tsConv'[x] >= tsRun'.high
    BY <1>1, <1>2, <1>6, <1>9 DEF Sound
  <2>3. /\ tsRun'.start.cont <= tsRun'.c /\ tsCk'.cont <= tsRun'.c
        /\ tsCk'.since = tsRun'.start.since /\ tsCk'.edge = tsRun'.start.edge
    BY <1>4, <1>6, <1>9
  <2>4. tsRun'.since = (IF tsRun'.c = tsRun'.start.cont THEN From(tsRun'.start) ELSE tsRun'.start.since)
    BY <1>9
  <2>5. tsRun'.pos[1] <= tsNow'
    BY <1>2, <1>6, <1>9
  <2>. QED BY <2>1, <2>2, <2>3, <2>4, <2>5 DEF RunSound, From
<1>13. CursorIsBehind' /\ FinishedRight'
  BY <1>1, <1>6 DEF CursorIsBehind, FinishedRight, Indexed, ToCome, Ahead, From
<1>14. WalkIsBehind'
  <2>. SUFFICES ASSUME ~tsMisfiled, NEW x \in TsConvs \ tsRaced, ~Indexed(x) PROVE OnItsWay(x)'
    BY <1>6 DEF WalkIsBehind, Indexed
  <2>1. ToCome(x, tsCk)
    BY <1>1 DEF CursorIsBehind
  <2>2. Ahead(x, tsRun.start)'
    BY <1>6, <1>9, <2>1 DEF ToCome, Ahead
  <2>3. TsHome[x] \in 1 .. TsConts /\ x \in Nat \ {0} /\ tsConv[x] \in Nat
    BY <1>2, TsConsts
  <2>4. tsConv[x] > 0
    BY <1>1, <2>3 DEF TsTyped, Indexed
  <2>5. TsHome[x] > c \/ (TsHome[x] = c /\ tsConv[x] >= tsRun'.since)
    <3>1. CASE tsCk.cont = 0
      BY <1>3, <1>4, <1>9, <2>1, <2>3, <3>1 DEF ToCome, Ahead
    <3>2. CASE tsCk.cont # 0
      <4>1. c = tsCk.cont /\ tsRun'.since = From(tsCk)
        BY <1>4, <1>9, <3>2
      <4>2. TsHome[x] > tsCk.cont \/ (TsHome[x] = tsCk.cont /\ tsConv[x] >= From(tsCk))
        BY <2>1, <3>2 DEF ToCome
      <4>3. CASE TsHome[x] > tsCk.cont
        BY <4>1, <4>3
      <4>4. CASE TsHome[x] = tsCk.cont /\ tsConv[x] >= From(tsCk)
        BY <4>1, <4>4
      <4>. QED BY <4>2, <4>3, <4>4
    <3>. QED BY <3>1, <3>2
  <2>6. CASE TsHome[x] > c
    BY <1>9, <2>2, <2>6 DEF OnItsWay
  <2>7. CASE TsHome[x] = c /\ tsConv[x] >= tsRun'.since
    <3>1. x \in walk'
      BY <1>6, <1>9, <2>4, <2>7 DEF walk, held
    <3>. QED BY <2>2, <3>1 DEF OnItsWay
  <2>. QED BY <2>5, <2>6, <2>7
<1>. QED BY <1>10, <1>11, <1>12, <1>13, <1>14 DEF TsInv

\* The cursor a change carries.
LEMMA Resumed ==
  ASSUME NEW s \in Points, NEW c \in 1 .. TsConts, NEW at \in Nat
  PROVE  LET p == resume(s, c, at)
         IN /\ p \in Points /\ p.since = s.since /\ p.edge = s.edge /\ p.perms = s.perms
            /\ p.cont = c /\ p.at = at /\ p # ZeroPoint
<1>1. c \in 0 .. TsConts /\ c # 0
  BY TsConsts
<1>2. resume(s, c, at) = [since |-> s.since, edge |-> s.edge, perms |-> s.perms, cont |-> c, at |-> at]
  BY DEF resume, syncPoint
<1>3. s.since \in Nat /\ s.perms \in Nat /\ s.edge \subseteq TsConvs
  BY PointFields
<1>4. ZeroPoint.cont = 0
  BY DEF ZeroPoint, syncPoint
<1>. QED BY <1>1, <1>2, <1>3, <1>4 DEF Points

\* A refresh reads nothing: what is indexed and what lies ahead stay, and the cursor
\* it saves is where the walk of the container will begin.
LEMMA RefreshKeeps ==
  ASSUME TsInv, NEW w \in TsConvs, TsRefresh(w)
  PROVE  TsInv'
<1>1. TsTyped /\ Sound(tsCk) /\ RunSound /\ CursorIsBehind /\ WalkIsBehind /\ FinishedRight
  BY DEF TsInv
<1>2. /\ tsRun.on /\ UNCHANGED <<tsNow, tsConv, tsRule, tsThen, tsFresh, tsRaced>>
      /\ tsRun' = [tsRun EXCEPT !.left = @ \ {w}]
      /\ tsCk' \in {tsCk, resume(tsRun.start, tsRun.c, tsRun.start.at)}
      /\ tsMisfiled' = (tsMisfiled \/ (tsRun.start.at > tsRun.start.since /\ tsRun.c # tsRun.start.cont))
      /\ tsIdx' = IF tsIdx[w].at = 0 THEN tsIdx ELSE [tsIdx EXCEPT ![w].rule = access(w, tsRun.rules)]
  BY DEF TsRefresh, tsKeepsSource, saves
<1>3. tsRun \in Runs /\ tsRun.c \in 1 .. TsConts
  BY <1>1, <1>2, RunTyped DEF Runs
<1>4. /\ tsRun' \in Runs /\ tsRun'.on = TRUE /\ tsRun'.start = tsRun.start /\ tsRun'.c = tsRun.c
      /\ tsRun'.since = tsRun.since /\ tsRun'.pos = tsRun.pos /\ tsRun'.tick = tsRun.tick
      /\ tsRun'.high = tsRun.high /\ tsRun'.edge = tsRun.edge
  BY <1>2, <1>3 DEF Runs
<1>5. tsIdx' \in [TsConvs -> [at: Nat, rule: Int]] /\ \A x \in TsConvs : tsIdx'[x].at = tsIdx[x].at
  <2>1. access(w, tsRun.rules) \in Int
    BY <1>3, RunFields, AccessTyped
  <2>2. tsIdx \in [TsConvs -> [at: Nat, rule: Int]]
    BY <1>1 DEF TsTyped
  <2>. QED BY <1>2, <2>1, <2>2
<1>6. PICK s \in Points : s = tsRun.start
  BY <1>3, RunFields
<1>7. /\ s.since \in Nat /\ s.at \in Nat /\ s.at <= tsNow /\ s.perms <= tsNow /\ s.since <= tsNow /\ tsNow \in Nat
      /\ s.edge \subseteq TsConvs
  BY <1>1, <1>2, <1>6, PointFields DEF RunSound, Sound, TsTyped
<1>. DEFINE q == resume(s, tsRun.c, s.at)
<1>8. /\ q \in Points /\ q.since = s.since /\ q.edge = s.edge /\ q.perms = s.perms
      /\ q.cont = tsRun.c /\ q.at = s.at
  <2>1. s.at \in Nat
    BY <1>7
  <2>. QED BY <1>3, <2>1, Resumed
<1>9. tsCk' = tsCk \/ tsCk' = q
  BY <1>2, <1>6
<1>10. tsCk \in Points
  BY <1>1 DEF TsTyped
<1>. HIDE DEF q
<1>11. TsTyped'
  BY <1>1, <1>2, <1>4, <1>5, <1>8, <1>9, <1>10 DEF TsTyped
<1>12. Sound(s)
  BY <1>1, <1>2, <1>6 DEF RunSound
<1>13. Sound(tsCk)'
  BY <1>1, <1>2, <1>7, <1>8, <1>9, <1>12 DEF Sound
<1>14. RunSound'
  <2>1. Sound(tsRun.start)'
    BY <1>2, <1>4, <1>6, <1>12 DEF Sound
  <2>2. tsCk'.cont <= tsRun'.c /\ tsCk'.since = tsRun'.start.since /\ tsCk'.edge = tsRun'.start.edge
    BY <1>1, <1>2, <1>3, <1>4, <1>6, <1>8, <1>9, TsConsts DEF RunSound
  <2>. QED BY <1>1, <1>2, <1>4, <2>1, <2>2 DEF RunSound, From
<1>15. walk' = walk
  BY <1>2, <1>4 DEF walk, held
<1>16. WalkIsBehind'
  BY <1>1, <1>2, <1>4, <1>5, <1>15 DEF WalkIsBehind, Indexed, OnItsWay, Ahead
<1>17. CursorIsBehind'
  <2>1. CASE tsCk' = tsCk
    BY <1>1, <1>2, <1>5, <2>1 DEF CursorIsBehind, Indexed, ToCome, Ahead, From
  <2>2. CASE tsCk' = q
    <3>. SUFFICES ASSUME ~tsMisfiled', NEW x \in TsConvs \ tsRaced, ~Indexed(x) PROVE ToCome(x, tsCk)'
      BY <1>2, <1>5 DEF CursorIsBehind, Indexed
    <3>1. Ahead(x, s) /\ (TsHome[x] > tsRun.c \/ x \in walk)
      BY <1>1, <1>2, <1>6 DEF WalkIsBehind, OnItsWay
    <3>2. tsRun.since = From(s)
      <4>1. s.at <= s.since \/ tsRun.c = s.cont
        <5>1. ~(s.at > s.since /\ tsRun.c # s.cont)
          BY <1>2, <1>6, Zenon
        <5>. QED BY <1>7, <5>1
      <4>2. CASE tsRun.c = s.cont
        BY <1>1, <1>2, <1>6, <4>2 DEF RunSound
      <4>3. CASE tsRun.c # s.cont /\ s.at <= s.since
        BY <1>1, <1>2, <1>6, <1>7, <4>3 DEF RunSound, From
      <4>. QED BY <4>1, <4>2, <4>3
    <3>3. Ahead(x, tsCk)'
      BY <1>2, <1>8, <2>2, <3>1 DEF Ahead
    <3>4. x \in walk => TsHome[x] = tsRun.c /\ tsConv[x] >= tsRun.since
      BY DEF walk, held
    <3>5. tsCk'.cont = tsRun.c /\ tsConv' = tsConv
      BY <1>2, <1>8, <2>2
    <3>6. From(tsCk)' = From(s)
      BY <1>8, <2>2 DEF From
    <3>. QED BY <3>1, <3>2, <3>3, <3>4, <3>5, <3>6 DEF ToCome
  <2>. QED BY <1>9, <2>1, <2>2
<1>18. FinishedRight'
  <2>1. CASE tsCk' = tsCk
    BY <1>1, <1>2, <1>5, <2>1 DEF FinishedRight, Indexed
  <2>2. CASE tsCk' = q
    <3>1. tsCk'.cont # 0
      BY <1>3, <1>8, <2>2, TsConsts
    <3>. QED BY <3>1 DEF FinishedRight
  <2>. QED BY <1>9, <2>1, <2>2
<1>. QED BY <1>11, <1>13, <1>14, <1>16, <1>17, <1>18 DEF TsInv

\* A set of numbers that is not empty has a least one.
LEMMA LeastOf ==
  ASSUME NEW S \in SUBSET Nat, S # {}
  PROVE  \E n \in S : \A m \in S : n <= m
<1>1. PICK x : x \in S
  OBVIOUS
<1>2. PICK n \in S : \A m \in S : ~ (<<m, n>> \in OpToRel(<, Nat))
  BY <1>1, WFMin, NatLessThanWellFounded, Zenon
<1>3. \A m \in S : ~ (m < n)
  BY <1>2, Zenon DEF OpToRel
<1>4. n \in Nat /\ \A m \in S : m \in Nat
  OBVIOUS
<1>. QED BY <1>3, <1>4

\* The oldest change comes next, and of several in one instant the first conversation.
LEMMA NextIsOldest ==
  ASSUME TsTyped, walk # {}
  PROVE  next \in walk /\ \A y \in walk : tsConv[next] < tsConv[y] \/ (tsConv[next] = tsConv[y] /\ next <= y)
<1>1. walk \subseteq TsConvs /\ \A x \in walk : x \in Nat /\ tsConv[x] \in Nat
  BY TsConsts DEF walk, held, TsTyped
<1>. DEFINE times == {tsConv[x] : x \in walk}
<1>2. times \in SUBSET Nat /\ times # {}
  BY <1>1
<1>3. PICK t \in times : \A u \in times : t <= u
  BY <1>2, LeastOf
<1>. DEFINE oldest == {x \in walk : tsConv[x] = t}
<1>4. oldest \in SUBSET Nat /\ oldest # {}
  BY <1>1, <1>3
<1>5. PICK n \in oldest : \A m \in oldest : n <= m
  BY <1>4, LeastOf
<1>6. n \in walk /\ \A y \in walk : tsConv[n] < tsConv[y] \/ (tsConv[n] = tsConv[y] /\ n <= y)
  <2>1. n \in walk /\ tsConv[n] = t
    BY <1>5
  <2>. SUFFICES ASSUME NEW y \in walk PROVE tsConv[n] < tsConv[y] \/ (tsConv[n] = tsConv[y] /\ n <= y)
    BY <2>1
  <2>2. t <= tsConv[y] /\ tsConv[y] \in Nat /\ t \in Nat
    BY <1>1, <1>2, <1>3
  <2>3. CASE tsConv[y] = t
    BY <1>5, <2>1, <2>3
  <2>4. CASE tsConv[y] # t
    BY <2>1, <2>2, <2>4
  <2>. QED BY <2>3, <2>4
<1>. QED BY <1>6, Zenon DEF next

\* The mark a run leaves was seen at its instant.
LEMMA Marked ==
  ASSUME TsTyped, NEW r \in Runs, NEW x \in TsConvs, r.high <= tsNow,
         r.high > 0 => r.edge # {}, \A y \in r.edge : tsConv[y] >= r.high
  PROVE  LET m == marked(r, x)
         IN /\ m \in Runs /\ m.start = r.start /\ m.c = r.c /\ m.since = r.since /\ m.pos = r.pos /\ m.tick = r.tick
            /\ m.left = r.left
            /\ m.high <= tsNow /\ (m.high > 0 => m.edge # {}) /\ \A y \in m.edge : tsConv[y] >= m.high
<1>1. tsConv[x] \in Nat /\ tsConv[x] <= tsNow /\ r.high \in Nat /\ r.edge \subseteq TsConvs
  BY RunFields DEF TsTyped
<1>. DEFINE m == marked(r, x)
<1>2. CASE tsConv[x] > r.high
  <2>1. m = [r EXCEPT !.high = tsConv[x], !.edge = {x}]
    BY <1>1, <1>2 DEF marked
  <2>2. /\ m \in Runs /\ m.start = r.start /\ m.c = r.c /\ m.since = r.since /\ m.pos = r.pos /\ m.tick = r.tick
        /\ m.left = r.left /\ m.high = tsConv[x] /\ m.edge = {x}
    <3>. HIDE DEF m
    <3>. QED BY <1>1, <2>1 DEF Runs
  <2>. QED BY <1>1, <2>2
<1>3. CASE tsConv[x] = r.high
  <2>1. m = [r EXCEPT !.edge = @ \union {x}]
    BY <1>1, <1>3 DEF marked
  <2>2. /\ m \in Runs /\ m.start = r.start /\ m.c = r.c /\ m.since = r.since /\ m.pos = r.pos /\ m.tick = r.tick
        /\ m.left = r.left /\ m.high = tsConv[x] /\ m.edge = r.edge \union {x}
    <3>. HIDE DEF m
    <3>. QED BY <1>1, <1>3, <2>1 DEF Runs
  <2>. QED BY <1>1, <1>3, <2>2
<1>4. CASE tsConv[x] < r.high
  <2>1. marked(r, x) = r
    BY <1>1, <1>4 DEF marked
  <2>. QED BY <2>1
<1>. QED BY <1>1, <1>2, <1>3, <1>4

\* A conversation is read, or passed over as one the cursor has seen: what was ahead
\* of it stays ahead.
LEMMA WalkKeeps ==
  ASSUME TsInv, TsWalk
  PROVE  TsInv'
<1>1. TsTyped /\ Sound(tsCk) /\ RunSound /\ CursorIsBehind /\ WalkIsBehind /\ FinishedRight
  BY DEF TsInv
<1>2. PICK x : x = next
  OBVIOUS
<1>3. /\ tsRun.on /\ walk # {} /\ UNCHANGED <<tsNow, tsConv, tsRule, tsThen, tsFresh, tsMisfiled>>
  BY DEF TsWalk, tsKeepsSource
<1>4. x \in walk /\ \A y \in walk : tsConv[x] < tsConv[y] \/ (tsConv[x] = tsConv[y] /\ x <= y)
  BY <1>1, <1>2, <1>3, NextIsOldest
<1>5. tsRun \in Runs /\ tsRun.c \in 1 .. TsConts
  BY <1>1, <1>3, RunTyped DEF Runs
<1>6. /\ x \in TsConvs /\ TsHome[x] = tsRun.c /\ tsConv[x] \in Nat /\ tsConv[x] >= tsRun.since /\ tsConv[x] <= tsNow
      /\ tsConv \in [TsConvs -> Nat] /\ tsNow \in Nat /\ x \in Nat
  BY <1>1, <1>4, TsConsts DEF walk, held, TsTyped
<1>. DEFINE on == [tsRun EXCEPT !.pos = <<tsConv[x], x>>]
<1>7. /\ on \in Runs /\ on.start = tsRun.start /\ on.c = tsRun.c /\ on.since = tsRun.since /\ on.tick = tsRun.tick
      /\ on.high = tsRun.high /\ on.edge = tsRun.edge /\ on.pos = <<tsConv[x], x>>
  <2>1. <<tsConv[x], x>> \in Nat \X Nat
    BY <1>6
  <2>. QED BY <1>5, <2>1 DEF Runs
<1>8. \/ /\ wanted(x, tsRun.start)
         /\ tsIdx' = [tsIdx EXCEPT ![x] = [at |-> tsConv[x], rule |-> access(x, tsRun.rules)]]
         /\ tsCk' \in {tsCk, resume(tsRun.start, tsRun.c, tsConv[x])}
         /\ tsRun' = marked(on, x) /\ tsRaced' = tsRaced \ {x}
      \/ /\ ~wanted(x, tsRun.start) /\ tsRun' = on /\ UNCHANGED <<tsIdx, tsCk, tsRaced>>
  BY <1>2 DEF TsWalk, saves
<1>. HIDE DEF on
<1>9. PICK s \in Points : s = tsRun.start
  BY <1>5, RunFields
<1>10. Sound(s) /\ s.since \in Nat /\ s.edge \subseteq TsConvs
  BY <1>1, <1>3, <1>9, PointFields DEF RunSound
<1>11. /\ tsRun.high <= tsNow /\ (tsRun.high > 0 => tsRun.edge # {}) /\ \A y \in tsRun.edge : tsConv[y] >= tsRun.high
  BY <1>1, <1>3 DEF RunSound
<1>12. /\ tsRun' \in Runs /\ tsRun'.on = TRUE /\ tsRun'.start = s /\ tsRun'.c = tsRun.c /\ tsRun'.since = tsRun.since
       /\ tsRun'.tick = tsRun.tick /\ tsRun'.pos = <<tsConv[x], x>>
       /\ tsRun'.high <= tsNow /\ (tsRun'.high > 0 => tsRun'.edge # {}) /\ \A y \in tsRun'.edge : tsConv[y] >= tsRun'.high
  <2>1. CASE tsRun' = on
    BY <1>7, <1>9, <1>11, <2>1, RunFields
  <2>2. CASE tsRun' = marked(on, x)
    <3>1. /\ on.high <= tsNow /\ (on.high > 0 => on.edge # {}) /\ \A y \in on.edge : tsConv[y] >= on.high
      BY <1>7, <1>11
    <3>2. LET m == marked(on, x)
         IN /\ m \in Runs /\ m.start = on.start /\ m.c = on.c /\ m.since = on.since /\ m.pos = on.pos /\ m.tick = on.tick
            /\ m.left = on.left
            /\ m.high <= tsNow /\ (m.high > 0 => m.edge # {}) /\ \A y \in m.edge : tsConv[y] >= m.high
      BY <1>1, <1>6, <1>7, <3>1, Marked
    <3>. QED BY <1>7, <1>9, <2>2, <3>2, RunFields
  <2>. QED BY <1>8, <2>1, <2>2
<1>13. /\ tsIdx' \in [TsConvs -> [at: Nat, rule: Int]]
       /\ \A y \in TsConvs : (tsIdx'[y] = tsIdx[y] /\ (tsRaced' = tsRaced \/ y # x)) \/ (y = x /\ tsIdx'[y].at = tsConv[y])
  <2>1. access(x, tsRun.rules) \in Int
    BY <1>5, <1>6, RunFields, AccessTyped
  <2>2. tsIdx \in [TsConvs -> [at: Nat, rule: Int]]
    BY <1>1 DEF TsTyped
  <2>3. CASE tsIdx' = [tsIdx EXCEPT ![x] = [at |-> tsConv[x], rule |-> access(x, tsRun.rules)]]
    <3>1. [at |-> tsConv[x], rule |-> access(x, tsRun.rules)] \in [at: Nat, rule: Int]
      BY <1>6, <2>1
    <3>2. tsIdx'[x].at = tsConv[x] /\ \A y \in TsConvs : y # x => tsIdx'[y] = tsIdx[y]
      BY <1>6, <2>2, <2>3
    <3>. QED BY <1>6, <2>2, <2>3, <3>1, <3>2
  <2>4. CASE tsIdx' = tsIdx /\ tsRaced' = tsRaced
    BY <2>2, <2>4
  <2>. QED BY <1>8, <2>3, <2>4
<1>. DEFINE q == resume(s, tsRun.c, tsConv[x])
<1>14. /\ q \in Points /\ q.since = s.since /\ q.edge = s.edge /\ q.perms = s.perms
       /\ q.cont = tsRun.c /\ q.at = tsConv[x]
  BY <1>5, <1>6, Resumed, SMTT(30)
<1>15. tsCk' = tsCk \/ tsCk' = q
  BY <1>8, <1>9
<1>16. tsRaced' \subseteq tsRaced /\ \A y \in tsRaced : y \in tsRaced' \/ y = x
  BY <1>8
<1>17. tsCk \in Points
  BY <1>1 DEF TsTyped
<1>. HIDE DEF q
<1>18. TsTyped'
  <2>1. \A y \in TsConvs : tsIdx'[y].at <= tsConv[y]
    BY <1>1, <1>6, <1>13 DEF TsTyped
  <2>. QED BY <1>1, <1>3, <1>12, <1>13, <1>14, <1>15, <1>16, <1>17, <2>1 DEF TsTyped
<1>19. Sound(tsCk)'
  <2>1. s.perms <= tsNow
    BY <1>10 DEF Sound
  <2>. QED BY <1>1, <1>3, <1>6, <1>10, <1>14, <1>15, <2>1 DEF Sound
<1>20. RunSound'
  <2>1. Sound(tsRun.start)'
    BY <1>3, <1>10, <1>12 DEF Sound
  <2>2. tsCk'.cont <= tsRun'.c /\ tsCk'.since = s.since /\ tsCk'.edge = s.edge
    BY <1>1, <1>3, <1>5, <1>9, <1>12, <1>14, <1>15, TsConsts DEF RunSound
  <2>3. /\ tsRun'.tick <= tsNow /\ s.cont <= tsRun'.c /\ tsRun'.pos[1] <= tsNow
        /\ tsRun'.since = (IF tsRun'.c = s.cont THEN From(s) ELSE s.since)
    BY <1>1, <1>3, <1>6, <1>9, <1>12 DEF RunSound
  <2>. QED BY <1>3, <1>12, <2>1, <2>2, <2>3 DEF RunSound, From
<1>21. ASSUME NEW y \in TsConvs, y # x, OnItsWay(y) PROVE OnItsWay(y)'
  <2>1. Ahead(y, s)'
    BY <1>3, <1>9, <1>21 DEF OnItsWay, Ahead
  <2>2. CASE TsHome[y] > tsRun.c
    BY <1>12, <2>1, <2>2 DEF OnItsWay, Ahead
  <2>3. CASE y \in walk
    <3>1. tsConv[x] < tsConv[y] \/ (tsConv[x] = tsConv[y] /\ x <= y)
      BY <1>4, <2>3
    <3>2. y \in Nat /\ tsConv[y] \in Nat
      BY <1>6, TsConsts
    <3>3. tsConv[y] > tsConv[x] \/ (tsConv[y] = tsConv[x] /\ y > x)
      BY <1>6, <1>21, <3>1, <3>2
    <3>4. y \in walk'
      BY <1>3, <1>12, <2>3, <3>3 DEF walk, held
    <3>. QED BY <1>12, <2>1, <3>4 DEF OnItsWay, Ahead
  <2>. QED BY <1>21, <2>2, <2>3 DEF OnItsWay
<1>22. ASSUME NEW y \in TsConvs, y \notin tsRaced', ~tsMisfiled PROVE Indexed(y)' \/ (y # x /\ OnItsWay(y))
  <2>1. CASE y = x /\ tsIdx'[y].at = tsConv[y]
    BY <1>3, <2>1 DEF Indexed
  <2>2. CASE tsIdx'[y] = tsIdx[y] /\ y # x
    <3>1. y \notin tsRaced
      BY <1>16, <1>22, <2>2
    <3>. QED BY <1>1, <1>3, <1>22, <2>2, <3>1 DEF WalkIsBehind, Indexed
  <2>3. CASE y = x /\ tsRaced' = tsRaced /\ tsIdx'[y] = tsIdx[y]
    <3>1. CASE ~wanted(x, s)
      <4>1. ~Ahead(x, s)
        BY <3>1 DEF wanted, Ahead
      <4>2. Indexed(x)
        BY <1>1, <1>3, <1>6, <1>9, <1>22, <2>3, <4>1 DEF WalkIsBehind, OnItsWay
      <4>. QED BY <1>3, <2>3, <4>2 DEF Indexed
    <3>2. CASE wanted(x, s)
      <4>1. tsIdx' = [tsIdx EXCEPT ![x] = [at |-> tsConv[x], rule |-> access(x, tsRun.rules)]]
        BY <1>8, <1>9, <3>2
      <4>2. tsIdx'[x].at = tsConv[x]
        BY <1>1, <1>6, <4>1 DEF TsTyped
      <4>. QED BY <1>3, <2>3, <4>2 DEF Indexed
    <3>. QED BY <3>1, <3>2
  <2>. QED BY <1>13, <2>1, <2>2, <2>3
<1>23. WalkIsBehind'
  BY <1>3, <1>21, <1>22 DEF WalkIsBehind
<1>24. CursorIsBehind'
  <2>. SUFFICES ASSUME ~tsMisfiled, NEW y \in TsConvs, y \notin tsRaced', ~Indexed(y)' PROVE ToCome(y, tsCk)'
    BY <1>3 DEF CursorIsBehind
  <2>1. y # x /\ OnItsWay(y)
    BY <1>22
  <2>2. CASE tsCk' = tsCk
    <3>1. tsIdx'[y] = tsIdx[y] /\ y \notin tsRaced
      BY <1>13, <1>16, <2>1
    <3>. QED BY <1>1, <1>3, <2>2, <3>1 DEF CursorIsBehind, Indexed, ToCome, Ahead, From
  <2>3. CASE tsCk' = q
    <3>1. Ahead(y, s)
      BY <1>9, <2>1 DEF OnItsWay, Ahead
    <3>2. tsCk'.cont = tsRun.c /\ tsConv' = tsConv /\ tsCk'.since = s.since /\ tsCk'.edge = s.edge /\ tsCk'.at = tsConv[x]
      BY <1>3, <1>14, <2>3
    <3>3. y \in walk => TsHome[y] = tsRun.c /\ tsConv[y] >= tsConv[x]
      BY <1>4, <1>6 DEF walk, held
    <3>4. TsHome[y] > tsRun.c \/ y \in walk
      BY <2>1 DEF OnItsWay
    <3>5. tsConv[y] >= s.since
      BY <3>1 DEF Ahead
    <3>6. Ahead(y, tsCk)'
      BY <3>1, <3>2 DEF Ahead
    <3>7. y \in walk => TsHome[y] = tsCk'.cont /\ tsConv'[y] >= From(tsCk)'
      BY <3>2, <3>3, <3>5 DEF From
    <3>. QED BY <3>2, <3>4, <3>6, <3>7 DEF ToCome
  <2>. QED BY <1>15, <2>2, <2>3
<1>25. FinishedRight'
  <2>1. CASE tsCk' = tsCk
    <3>1. \A y \in TsConvs : Indexed(y) => Indexed(y)'
      BY <1>3, <1>13 DEF Indexed
    <3>2. \A y \in TsConvs : y \notin tsRaced' => y \notin tsRaced \/ Indexed(y)'
      BY <1>3, <1>13, <1>16 DEF Indexed
    <3>. QED BY <1>1, <1>3, <2>1, <3>1, <3>2 DEF FinishedRight
  <2>2. CASE tsCk' = q
    <3>1. tsCk'.cont # 0
      BY <1>5, <1>14, <2>2, TsConsts
    <3>. QED BY <3>1 DEF FinishedRight
  <2>. QED BY <1>15, <2>1, <2>2
<1>. QED BY <1>18, <1>19, <1>20, <1>23, <1>24, <1>25 DEF TsInv

\* A container with nothing left is done with, and the next one is entered.
LEMMA NextContainerKeeps ==
  ASSUME TsInv, TsNextContainer
  PROVE  TsInv'
<1>1. TsTyped /\ Sound(tsCk) /\ RunSound /\ CursorIsBehind /\ WalkIsBehind /\ FinishedRight
  BY DEF TsInv
<1>2. /\ tsRun.on /\ walk = {} /\ tsRun.c < TsConts /\ tsRun' = enters(tsRun, tsRun.c + 1)
      /\ UNCHANGED <<tsNow, tsConv, tsRule, tsThen, tsFresh, tsIdx, tsCk, tsRaced, tsMisfiled>>
  BY DEF TsNextContainer, tsKeepsSource
<1>3. tsRun \in Runs
  BY <1>1, <1>2, RunTyped
<1>4. PICK c : c = tsRun.c + 1
  OBVIOUS
<1>5. c \in 1 .. TsConts /\ c > tsRun.c /\ tsRun.c \in Nat /\ c \in Nat
  <2>1. tsRun.c \in Nat \ {0} /\ TsConts \in Nat
    BY <1>3, RunFields, TsConsts
  <2>. QED BY <1>2, <1>4, <2>1
<1>6. PICK s \in Points : s = tsRun.start
  BY <1>3, RunFields
<1>7. Sound(s) /\ s.cont <= tsRun.c /\ s.cont \in Nat /\ s.since \in Nat
  BY <1>1, <1>2, <1>6, PointFields DEF RunSound
<1>8. /\ tsRun' \in Runs /\ tsRun'.on = TRUE /\ tsRun'.c = c /\ tsRun'.pos = <<0, 0>> /\ tsRun'.start = s
      /\ tsRun'.tick = tsRun.tick /\ tsRun'.high = tsRun.high /\ tsRun'.edge = tsRun.edge
      /\ tsRun'.since = s.since
  <2>1. /\ tsRun' \in Runs /\ tsRun'.c = c /\ tsRun'.pos = <<0, 0>> /\ tsRun'.start = s
        /\ tsRun'.tick = tsRun.tick /\ tsRun'.high = tsRun.high /\ tsRun'.edge = tsRun.edge
        /\ tsRun'.since = IF c = s.cont THEN From(s) ELSE s.since
    BY <1>2, <1>3, <1>4, <1>5, <1>6, Enters
  <2>2. c # s.cont
    BY <1>5, <1>7
  <2>. QED BY <2>1, <2>2, RunFields
<1>9. TsTyped'
  BY <1>1, <1>2, <1>8 DEF TsTyped
<1>10. Sound(tsCk)' /\ CursorIsBehind' /\ FinishedRight'
  BY <1>1, <1>2 DEF Sound, CursorIsBehind, FinishedRight, Indexed, ToCome, Ahead, From
<1>11. RunSound'
  <2>1. Sound(tsRun.start)'
    BY <1>2, <1>7, <1>8 DEF Sound
  <2>2. /\ tsRun'.tick <= tsNow /\ tsRun'.high <= tsNow /\ (tsRun'.high > 0 => tsRun'.edge # {})
        /\ \A x \in tsRun'.edge : tsConv[x] >= tsRun'.high
    BY <1>1, <1>2, <1>8 DEF RunSound
  <2>3. tsCk.cont <= c /\ tsCk.since = s.since /\ tsCk.edge = s.edge
    <3>1. tsCk.cont \in Nat
      BY <1>1, PointFields DEF TsTyped
    <3>. QED BY <1>1, <1>2, <1>5, <1>6, <3>1 DEF RunSound
  <2>4. s.cont <= c /\ s.cont # c
    BY <1>5, <1>7
  <2>5. tsRun'.pos[1] <= tsNow'
    BY <1>1, <1>2, <1>8 DEF TsTyped
  <2>. QED BY <1>2, <1>8, <2>1, <2>2, <2>3, <2>4, <2>5 DEF RunSound, From
<1>12. WalkIsBehind'
  <2>. SUFFICES ASSUME ~tsMisfiled, NEW x \in TsConvs \ tsRaced, ~Indexed(x) PROVE OnItsWay(x)'
    BY <1>2 DEF WalkIsBehind, Indexed
  <2>1. Ahead(x, s) /\ TsHome[x] > tsRun.c
    BY <1>1, <1>2, <1>6 DEF WalkIsBehind, OnItsWay
  <2>2. TsHome[x] \in Nat /\ x \in Nat \ {0} /\ tsConv[x] \in Nat /\ tsConv[x] > 0
    BY <1>1, TsConsts DEF TsTyped, Indexed
  <2>3. Ahead(x, tsRun.start)'
    BY <1>2, <1>8, <2>1 DEF Ahead
  <2>4. CASE TsHome[x] > c
    BY <1>8, <2>3, <2>4 DEF OnItsWay
  <2>5. CASE TsHome[x] = c
    <3>1. x \in walk'
      BY <1>2, <1>8, <2>1, <2>2, <2>5 DEF walk, held, Ahead
    <3>. QED BY <2>3, <3>1 DEF OnItsWay
  <2>. QED BY <1>4, <1>5, <2>1, <2>2, <2>4, <2>5
<1>. QED BY <1>9, <1>10, <1>11, <1>12 DEF TsInv

\* The last container is done with: everything is indexed, and the cursor is the mark
\* the run leaves.
LEMMA FinishKeeps ==
  ASSUME TsInv, TsFinish
  PROVE  TsInv'
<1>1. TsTyped /\ Sound(tsCk) /\ RunSound /\ CursorIsBehind /\ WalkIsBehind /\ FinishedRight
  BY DEF TsInv
<1>. DEFINE latest == IF tsRun.tick > tsRun.start.perms THEN tsRun.tick ELSE tsRun.start.perms
<1>2. /\ tsRun.on /\ walk = {} /\ tsRun.c = TsConts /\ tsRun' = tsNoRun /\ tsFresh' = {}
      /\ tsCk' \in {tsRun.start, syncPoint(tsRun.high, tsRun.edge, latest, 0, 0)}
      /\ UNCHANGED <<tsNow, tsConv, tsRule, tsThen, tsIdx, tsRaced, tsMisfiled>>
  BY DEF TsFinish
<1>3. tsRun \in Runs
  BY <1>1, <1>2, RunTyped
<1>4. PICK s \in Points : s = tsRun.start
  BY <1>3, RunFields
<1>5. Sound(s)
  BY <1>1, <1>2, <1>4 DEF RunSound
<1>6. latest \in Nat /\ latest <= tsNow /\ tsRun.high \in Nat /\ tsRun.edge \subseteq TsConvs
  <2>1. tsRun.tick \in Nat /\ s.perms \in Nat /\ s.perms <= tsNow /\ tsRun.tick <= tsNow
    BY <1>1, <1>2, <1>3, <1>5, RunFields, PointFields DEF RunSound, Sound
  <2>. QED BY <1>3, <1>4, <2>1, RunFields
<1>. HIDE DEF latest
<1>. DEFINE q == syncPoint(tsRun.high, tsRun.edge, latest, 0, 0)
<1>7. q \in Points /\ q.since = tsRun.high /\ q.edge = tsRun.edge /\ q.perms = latest /\ q.at = 0
  BY <1>6, TsConsts DEF syncPoint, Points
<1>8. tsCk' = s \/ tsCk' = q
  BY <1>2, <1>4
<1>. HIDE DEF q
<1>9. \A x \in TsConvs \ tsRaced : tsMisfiled \/ Indexed(x)
  <2>1. \A x \in TsConvs : ~(TsHome[x] > tsRun.c)
    BY <1>2, TsConsts
  <2>. QED BY <1>1, <1>2, <2>1 DEF WalkIsBehind, OnItsWay
<1>10. tsCk' \in Points
  BY <1>7, <1>8
<1>11. TsTyped'
  BY <1>1, <1>2, <1>10 DEF TsTyped
<1>12. Sound(tsCk)'
  <2>1. CASE tsCk' = s
    BY <1>2, <1>5, <2>1 DEF Sound
  <2>2. CASE tsCk' = q
    <3>1. /\ tsRun.high <= tsNow /\ (tsRun.high > 0 => tsRun.edge # {}) /\ \A x \in tsRun.edge : tsConv[x] >= tsRun.high
      BY <1>1, <1>2 DEF RunSound
    <3>2. 0 <= tsNow
      BY <1>1 DEF TsTyped
    <3>. QED BY <1>2, <1>6, <1>7, <2>2, <3>1, <3>2 DEF Sound
  <2>. QED BY <1>8, <2>1, <2>2
<1>13. ~tsRun'.on
  BY <1>2 DEF tsNoRun
<1>14. \A x \in TsConvs \ tsRaced' : tsMisfiled' \/ Indexed(x)'
  BY <1>2, <1>9 DEF Indexed
<1>. QED BY <1>11, <1>12, <1>13, <1>14 DEF TsInv, RunSound, CursorIsBehind, WalkIsBehind, FinishedRight

\* A run that fails leaves the cursor last saved, and the sweep only repairs.
LEMMA FailKeeps ==
  ASSUME TsInv, TsFail
  PROVE  TsInv'
<1>1. TsTyped /\ Sound(tsCk) /\ RunSound /\ CursorIsBehind /\ WalkIsBehind /\ FinishedRight
  BY DEF TsInv
<1>2. /\ tsRun' = tsNoRun
      /\ UNCHANGED <<tsNow, tsConv, tsRule, tsThen, tsFresh, tsIdx, tsCk, tsRaced, tsMisfiled>>
  BY DEF TsFail, tsKeepsSource
<1>3. ~tsRun'.on
  BY <1>2 DEF tsNoRun
<1>4. TsTyped'
  BY <1>1, <1>2 DEF TsTyped
<1>5. Sound(tsCk)' /\ CursorIsBehind' /\ FinishedRight'
  BY <1>1, <1>2 DEF Sound, CursorIsBehind, FinishedRight, Indexed, ToCome, Ahead, From
<1>. QED BY <1>3, <1>4, <1>5 DEF TsInv, RunSound, WalkIsBehind

LEMMA FetchKeeps ==
  ASSUME TsInv, NEW w \in TsConvs, TsFetch(w)
  PROVE  TsInv'
<1>1. TsTyped /\ Sound(tsCk) /\ RunSound /\ CursorIsBehind /\ WalkIsBehind /\ FinishedRight
  BY DEF TsInv
<1>2. /\ ~tsRun.on /\ tsIdx' = [tsIdx EXCEPT ![w] = [at |-> tsConv[w], rule |-> access(w, tsRule)]]
      /\ tsRaced' = tsRaced \ {w}
      /\ UNCHANGED <<tsNow, tsConv, tsRule, tsThen, tsFresh, tsCk, tsRun, tsMisfiled>>
  BY DEF TsFetch, tsKeepsSource
<1>3. /\ tsIdx' \in [TsConvs -> [at: Nat, rule: Int]]
      /\ tsIdx'[w].at = tsConv[w] /\ \A x \in TsConvs : x # w => tsIdx'[x] = tsIdx[x]
  <2>1. tsConv[w] \in Nat /\ tsRule \in Rules /\ tsIdx \in [TsConvs -> [at: Nat, rule: Int]]
    BY <1>1 DEF TsTyped
  <2>2. [at |-> tsConv[w], rule |-> access(w, tsRule)] \in [at: Nat, rule: Int]
    BY <2>1, AccessTyped
  <2>. QED BY <1>2, <2>1, <2>2
<1>4. TsTyped'
  <2>1. \A x \in TsConvs : tsIdx'[x].at <= tsConv[x]
    BY <1>1, <1>3 DEF TsTyped
  <2>. QED BY <1>1, <1>2, <1>3, <2>1 DEF TsTyped
<1>5. Sound(tsCk)' /\ RunSound' /\ WalkIsBehind'
  BY <1>1, <1>2 DEF Sound, RunSound, WalkIsBehind
<1>6. ASSUME NEW x \in TsConvs, x \notin tsRaced' PROVE Indexed(x)' \/ (x \notin tsRaced /\ (Indexed(x) => Indexed(x)'))
  <2>1. CASE x = w
    BY <1>2, <1>3, <2>1 DEF Indexed
  <2>2. CASE x # w
    BY <1>2, <1>3, <1>6, <2>2 DEF Indexed
  <2>. QED BY <2>1, <2>2
<1>7. CursorIsBehind'
  BY <1>1, <1>2, <1>6 DEF CursorIsBehind, ToCome, Ahead, From
<1>8. FinishedRight'
  BY <1>1, <1>2, <1>6 DEF FinishedRight
<1>. QED BY <1>4, <1>5, <1>7, <1>8 DEF TsInv

LEMMA TsStep == TsInv /\ [TsNext]_tsVars => TsInv'
<1>. SUFFICES ASSUME TsInv, [TsNext]_tsVars PROVE TsInv'
  OBVIOUS
<1>1. CASE \E x \in TsConvs : TsWrite(x) \/ TsRefresh(x) \/ TsFetch(x)
  BY <1>1, WriteKeeps, RefreshKeeps, FetchKeeps
<1>2. CASE (\E c \in 1 .. TsConts : TsRewrite(c)) \/ TsTick
  BY <1>2, TimeKeeps
<1>3. CASE TsSync \/ TsWalk \/ TsNextContainer \/ TsFinish \/ TsFail
  BY <1>3, SyncKeeps, WalkKeeps, NextContainerKeeps, FinishKeeps, FailKeeps
<1>4. CASE UNCHANGED tsVars
  <2>1. UNCHANGED <<tsNow, tsConv, tsRule, tsThen, tsFresh, tsIdx, tsCk, tsRun, tsRaced, tsMisfiled>>
    BY <1>4 DEF tsVars
  <2>2. TsTyped' /\ Sound(tsCk)' /\ RunSound'
    BY <2>1 DEF TsInv, TsTyped, Sound, RunSound, From
  <2>3. CursorIsBehind' /\ WalkIsBehind' /\ FinishedRight'
    BY <2>1 DEF TsInv, CursorIsBehind, WalkIsBehind, FinishedRight, Indexed, ToCome, OnItsWay, Ahead, From, walk, held
  <2>. QED BY <2>2, <2>3 DEF TsInv
<1>. QED BY <1>1, <1>2, <1>3, <1>4 DEF TsNext

LEMMA TsHolds == TsInv => TsTypeOK /\ NothingLost
<1>. SUFFICES ASSUME TsInv PROVE TsTypeOK /\ NothingLost
  OBVIOUS
<1>1. TsTyped /\ Sound(tsCk) /\ FinishedRight
  BY DEF TsInv
<1>2. tsCk.cont \in 0 .. TsConts /\ tsCk.edge \subseteq TsConvs
  BY <1>1 DEF TsTyped, Points
<1>3. TsTypeOK
  BY <1>1, <1>2 DEF TsTypeOK, Sound, TsTyped
<1>4. NothingLost
  BY <1>1 DEF NothingLost, tsSettled, FinishedRight, Indexed
<1>. QED BY <1>3, <1>4

-----------------------------------------------------------------------------
(* Objects: the invariant.                                                 *)

OsPoints == [since: Nat, perms: Nat, after: Nat]
OsEntries == [key: OsKeys, lm: Nat, tag: Nat]
OsRuns == [on: {TRUE}, start: OsPoints, pos: Nat, page: SUBSET OsEntries, more: BOOLEAN, acl: 0 .. OsMaxLists,
           high: Nat, latest: Nat, clock: Nat]

OsTyped ==
  /\ osNow \in Nat \ {0} /\ osAcl \in 0 .. OsMaxLists /\ osBound \in 0 .. OsMaxLists
  /\ osObj \in [OsKeys -> [tag: Nat, lm: Nat]] /\ osIdx \in [OsKeys -> [ver: Nat, tag: Nat, rule: Int]]
  /\ osCk \in OsPoints /\ osRun \in {osNoRun} \cup OsRuns
  /\ osPol \in [loaded: BOOLEAN, err: BOOLEAN, rule: Int, seen: Int, changed: Nat]
  /\ osSpent \in [writes: Nat, faults: Nat]

\* A cursor is a second behind the store's clock, and names a key or none.
Held(p) == p.since < osNow /\ p.perms <= osNow /\ p.after \in OsKeys \cup {0}

OsClocked ==
  /\ \A k \in OsKeys : osObj[k].lm <= osNow /\ osObj[k].tag <= osSpent.writes
  /\ Held(osCk) /\ osPol.changed <= osNow

Listing == osRun.on =>
  /\ Held(osRun.start) /\ osRun.high <= osNow /\ osRun.latest <= osNow /\ osRun.clock <= osNow
  /\ osRun.start.since = osCk.since /\ osRun.start.after <= osCk.after /\ osCk.after <= osRun.pos
  /\ osRun.clock > 0 \/ (osRun.more /\ osRun.page = {})

\* A page lies ahead of the cursor, and describes what the bucket held.
PageSound == osRun.on => \A o \in osRun.page :
  /\ osCk.after < o.key /\ o.key <= osRun.pos /\ o.lm <= osNow /\ o.tag <= osSpent.writes
  /\ osObj[o.key].tag # 0 => o.tag <= osObj[o.key].tag
  /\ \A q \in osRun.page : q.key = o.key => q = o

\* Nothing is filed under a tag newer than its content, nor is newer than the store.
Filed == \A k \in OsKeys :
  /\ osIdx[k].tag <= osIdx[k].ver /\ osIdx[k].ver <= osSpent.writes
  /\ osObj[k].tag # 0 => osIdx[k].ver <= osObj[k].tag

\* What the index does not have as it is lies ahead of the cursor and of the listing.
Stale(k) == k \notin osBehind \cup osSkipped /\ osObj[k].tag # 0 /\ osIdx[k].ver # osObj[k].tag
Listable(k) ==
  \/ osRun.more /\ k > osRun.pos
  \/ \E o \in osRun.page : o.key = k /\ o.lm > osRun.start.since
  \/ ~osRun.more /\ osObj[k].lm >= osRun.clock
StaleAhead == \A k \in OsWanted : Stale(k) =>
  /\ osObj[k].lm > osCk.since
  /\ IF osRun.on THEN Listable(k) ELSE k > osCk.after

OsInv == OsTyped /\ OsClocked /\ Listing /\ PageSound /\ Filed /\ StaleAhead

-----------------------------------------------------------------------------
(* Objects: the steps.                                                     *)

LEMMA OsConsts ==
  OsKeys \subseteq Nat \ {0} /\ OsWanted \subseteq OsKeys /\ OsPage \in Nat \ {0} /\ OsMaxLists \in Nat
BY OsAssumption DEF OsAssumption

LEMMA TheGreater ==
  ASSUME NEW a \in Nat, NEW b \in Nat
  PROVE  Max({a, b}) = IF a >= b THEN a ELSE b
<1>. DEFINE m == IF a >= b THEN a ELSE b
<1>1. m \in {a, b} /\ \A y \in {a, b} : m >= y
  OBVIOUS
<1>2. \A x \in {a, b} : (\A y \in {a, b} : x >= y) => x = m
  OBVIOUS
<1>. HIDE DEF m
<1>3. Max({a, b}) = m
  BY <1>1, <1>2, Zenon DEF Max
<1>. QED BY <1>3 DEF m

LEMMA TheLesser ==
  ASSUME NEW a \in Int, NEW b \in Int
  PROVE  Min({a, b}) = IF a <= b THEN a ELSE b
<1>. DEFINE m == IF a <= b THEN a ELSE b
<1>1. m \in {a, b} /\ \A y \in {a, b} : m =< y
  OBVIOUS
<1>2. \A x \in {a, b} : (\A y \in {a, b} : x =< y) => x = m
  OBVIOUS
<1>. HIDE DEF m
<1>3. Min({a, b}) = m
  BY <1>1, <1>2, Zenon DEF Min
<1>. QED BY <1>3 DEF m

LEMMA ObjectFields ==
  ASSUME OsTyped
  PROVE  /\ \A k \in OsKeys : /\ osObj[k].tag \in Nat /\ osObj[k].lm \in Nat
                              /\ osIdx[k].ver \in Nat /\ osIdx[k].tag \in Nat /\ osIdx[k].rule \in Int
         /\ osCk.since \in Nat /\ osCk.perms \in Nat /\ osCk.after \in Nat
         /\ osPol.loaded \in BOOLEAN /\ osPol.err \in BOOLEAN /\ osPol.rule \in Int /\ osPol.seen \in Int
         /\ osPol.changed \in Nat /\ osSpent.writes \in Nat /\ osSpent.faults \in Nat
BY DEF OsTyped, OsPoints

LEMMA ListingFields ==
  ASSUME NEW r \in OsRuns
  PROVE  /\ r.on = TRUE /\ r.start \in OsPoints /\ r.pos \in Nat /\ r.page \subseteq OsEntries /\ r.more \in BOOLEAN
         /\ r.acl \in 0 .. OsMaxLists /\ r.high \in Nat /\ r.latest \in Nat /\ r.clock \in Nat
         /\ r.start.since \in Nat /\ r.start.perms \in Nat /\ r.start.after \in Nat
         /\ \A o \in r.page : o.key \in OsKeys /\ o.key \in Nat \ {0} /\ o.lm \in Nat /\ o.tag \in Nat
<1>1. /\ r.on = TRUE /\ r.start \in OsPoints /\ r.pos \in Nat /\ r.page \subseteq OsEntries /\ r.more \in BOOLEAN
      /\ r.acl \in 0 .. OsMaxLists /\ r.high \in Nat /\ r.latest \in Nat /\ r.clock \in Nat
  BY DEF OsRuns
<1>2. r.start.since \in Nat /\ r.start.perms \in Nat /\ r.start.after \in Nat
  BY <1>1 DEF OsPoints
<1>3. \A o \in r.page : o.key \in OsKeys /\ o.lm \in Nat /\ o.tag \in Nat
  BY <1>1 DEF OsEntries
<1>. QED BY <1>1, <1>2, <1>3, OsConsts

LEMMA ListingTyped ==
  ASSUME OsTyped
  PROVE  osRun.on \in BOOLEAN /\ (osRun.on => osRun \in OsRuns) /\ (~osRun.on => osRun = osNoRun)
<1>1. osRun = osNoRun \/ osRun \in OsRuns
  BY DEF OsTyped
<1>2. osNoRun.on = FALSE
  BY DEF osNoRun
<1>3. \A r \in OsRuns : r.on = TRUE
  BY DEF OsRuns
<1>. QED BY <1>1, <1>2, <1>3

LEMMA OsInitInv == OsInit => OsInv
<1>. SUFFICES ASSUME OsInit PROVE OsInv
  OBVIOUS
<1>1. /\ osNow = 2 /\ osObj \in [OsKeys -> {[tag |-> 0, lm |-> 0], [tag |-> 1, lm |-> 1]}] /\ osAcl = 0
      /\ osIdx = [k \in OsKeys |-> [ver |-> 0, tag |-> 0, rule |-> -1]]
      /\ osCk = [since |-> 0, perms |-> 0, after |-> 0] /\ osRun = osNoRun
      /\ osPol = [loaded |-> FALSE, err |-> FALSE, rule |-> -1, seen |-> -1, changed |-> 0]
      /\ osSpent = [writes |-> 1, faults |-> 0] /\ osBound = 0
  BY DEF OsInit, osZero, osPoint, osNoPolicy, osAbsent, Unresolved, Unseen
<1>2. \A k \in OsKeys : osObj[k] = [tag |-> 0, lm |-> 0] \/ osObj[k] = [tag |-> 1, lm |-> 1]
  BY <1>1
<1>3. osObj \in [OsKeys -> [tag: Nat, lm: Nat]]
  BY <1>1
<1>4. \A k \in OsKeys : /\ osObj[k].tag \in {0, 1} /\ osObj[k].lm \in {0, 1} /\ (osObj[k].tag # 0 => osObj[k].lm = 1)
                        /\ osIdx[k].tag = 0 /\ osIdx[k].ver = 0
  BY <1>1, <1>2
<1>5. ~osRun.on
  BY <1>1 DEF osNoRun
<1>6. OsTyped
  BY <1>1, <1>3, OsConsts DEF OsTyped, OsPoints
<1>7. OsClocked
  BY <1>1, <1>4 DEF OsClocked, Held
<1>8. Filed
  BY <1>1, <1>4 DEF Filed
<1>9. StaleAhead
  BY <1>1, <1>4, <1>5, OsConsts DEF StaleAhead, Stale
<1>. QED BY <1>5, <1>6, <1>7, <1>8, <1>9 DEF OsInv, Listing, PageSound

\* The store: what is written is newer than anything filed, and either ahead of the
\* listing or known to be behind it.
LEMMA OsWriteKeeps ==
  ASSUME OsInv, NEW w \in OsKeys, NEW gone_ \in BOOLEAN, OsWrite(w, gone_)
  PROVE  OsInv'
<1>1. OsTyped /\ OsClocked /\ Listing /\ PageSound /\ Filed /\ StaleAhead
  BY DEF OsInv
<1>. DEFINE new == IF gone_ THEN [tag |-> 0, lm |-> 0] ELSE [tag |-> osSpent.writes + 1, lm |-> osNow]
<1>2. /\ osObj' = [osObj EXCEPT ![w] = new] /\ osSpent' = [osSpent EXCEPT !.writes = @ + 1]
      /\ osBehind' = IF w <= osReached /\ ~gone_ THEN osBehind \union {w} ELSE osBehind \ {w}
      /\ UNCHANGED <<osNow, osAcl, osIdx, osCk, osPol, osRun, osSkipped, osBound>>
  BY DEF OsWrite, osKeepsSource
<1>3. new \in [tag: Nat, lm: Nat] /\ new.lm <= osNow /\ new.tag \in {0, osSpent.writes + 1}
      /\ (new.tag # 0 => ~gone_ /\ new.lm = osNow) /\ osNow \in Nat \ {0} /\ osSpent.writes \in Nat
  BY <1>1, ObjectFields DEF OsTyped
<1>. HIDE DEF new
<1>4. /\ osObj' \in [OsKeys -> [tag: Nat, lm: Nat]] /\ osObj'[w] = new
      /\ \A k \in OsKeys : k # w => osObj'[k] = osObj[k]
  BY <1>1, <1>2, <1>3 DEF OsTyped
<1>5. osSpent' \in [writes: Nat, faults: Nat] /\ osSpent'.writes = osSpent.writes + 1
  BY <1>1, <1>2 DEF OsTyped
<1>6. OsTyped'
  BY <1>1, <1>2, <1>4, <1>5 DEF OsTyped
<1>7. OsClocked'
  <2>1. \A k \in OsKeys : osObj'[k].lm <= osNow /\ osObj'[k].tag <= osSpent'.writes
    <3>. SUFFICES ASSUME NEW k \in OsKeys PROVE osObj'[k].lm <= osNow /\ osObj'[k].tag <= osSpent'.writes
      OBVIOUS
    <3>1. CASE k = w
      BY <1>3, <1>4, <1>5, <3>1
    <3>2. CASE k # w
      <4>1. osObj[k].tag \in Nat /\ osObj[k].tag <= osSpent.writes /\ osObj[k].lm <= osNow
        BY <1>1, ObjectFields DEF OsClocked
      <4>. QED BY <1>3, <1>4, <1>5, <3>2, <4>1
    <3>. QED BY <3>1, <3>2
  <2>. QED BY <1>1, <1>2, <2>1 DEF OsClocked, Held
<1>8. Listing'
  BY <1>1, <1>2 DEF Listing, Held
<1>9. PageSound'
  <2>. SUFFICES ASSUME osRun.on, NEW o \in osRun.page
       PROVE  /\ osCk.after < o.key /\ o.key <= osRun.pos /\ o.lm <= osNow /\ o.tag <= osSpent'.writes
              /\ osObj'[o.key].tag # 0 => o.tag <= osObj'[o.key].tag
              /\ \A q \in osRun.page : q.key = o.key => q = o
    BY <1>2 DEF PageSound
  <2>1. osRun \in OsRuns
    BY <1>1, ListingTyped
  <2>2. o.key \in OsKeys /\ o.tag \in Nat
    BY <2>1, ListingFields
  <2>3. /\ osCk.after < o.key /\ o.key <= osRun.pos /\ o.lm <= osNow /\ o.tag <= osSpent.writes
        /\ osObj[o.key].tag # 0 => o.tag <= osObj[o.key].tag
        /\ \A q \in osRun.page : q.key = o.key => q = o
    BY <1>1 DEF PageSound
  <2>4. osObj'[o.key].tag # 0 => o.tag <= osObj'[o.key].tag
    <3>1. CASE o.key = w
      BY <1>3, <1>4, <2>2, <2>3, <3>1
    <3>2. CASE o.key # w
      BY <1>4, <2>2, <2>3, <3>2
    <3>. QED BY <3>1, <3>2
  <2>. QED BY <1>3, <1>5, <2>2, <2>3, <2>4
<1>10. Filed'
  <2>. SUFFICES ASSUME NEW k \in OsKeys
       PROVE  /\ osIdx[k].tag <= osIdx[k].ver /\ osIdx[k].ver <= osSpent'.writes
              /\ osObj'[k].tag # 0 => osIdx[k].ver <= osObj'[k].tag
    BY <1>2 DEF Filed
  <2>1. /\ osIdx[k].tag <= osIdx[k].ver /\ osIdx[k].ver <= osSpent.writes /\ osIdx[k].ver \in Nat
        /\ osObj[k].tag # 0 => osIdx[k].ver <= osObj[k].tag
    BY <1>1, ObjectFields DEF Filed
  <2>2. CASE k = w
    BY <1>3, <1>4, <1>5, <2>1, <2>2
  <2>3. CASE k # w
    BY <1>3, <1>4, <1>5, <2>1, <2>3
  <2>. QED BY <2>2, <2>3
<1>11. StaleAhead'
  <2>. SUFFICES ASSUME NEW k \in OsWanted, Stale(k)'
       PROVE  osObj'[k].lm > osCk.since /\ (IF osRun.on THEN Listable(k)' ELSE k > osCk.after)
    BY <1>2 DEF StaleAhead
  <2>1. k \in OsKeys /\ k \in Nat
    BY OsConsts
  <2>2. CASE k # w
    <3>1. Stale(k)
      BY <1>2, <1>4, <2>1, <2>2 DEF Stale
    <3>2. osObj[k].lm > osCk.since /\ (IF osRun.on THEN Listable(k) ELSE k > osCk.after)
      BY <1>1, <3>1 DEF StaleAhead
    <3>. QED BY <1>2, <1>4, <2>1, <2>2, <3>2 DEF Listable
  <2>3. CASE k = w
    <3>1. ~gone_ /\ osObj'[k].lm = osNow
      BY <1>3, <1>4, <2>3 DEF Stale
    <3>2. ~(k <= osReached)
      BY <1>2, <2>3, <3>1 DEF Stale
    <3>3. osNow > osCk.since /\ osCk.after \in Nat /\ osCk.since \in Nat
      BY <1>1, <1>3, ObjectFields DEF OsClocked, Held
    <3>4. CASE ~osRun.on
      BY <2>1, <3>1, <3>2, <3>3, <3>4 DEF osReached
    <3>5. CASE osRun.on /\ osRun.more
      <4>1. osRun.pos \in Nat
        BY <1>1, <3>5, ListingTyped, ListingFields
      <4>2. k > osRun.pos
        BY <2>1, <3>2, <3>5, <4>1 DEF osReached
      <4>. QED BY <1>2, <3>1, <3>3, <3>5, <4>2 DEF Listable
    <3>6. CASE osRun.on /\ ~osRun.more
      <4>1. osRun.clock <= osNow /\ osRun.clock \in Nat
        BY <1>1, <3>6, ListingTyped, ListingFields DEF Listing
      <4>. QED BY <1>2, <1>3, <3>1, <3>3, <3>6, <4>1 DEF Listable
    <3>. QED BY <3>4, <3>5, <3>6
  <2>. QED BY <2>2, <2>3
<1>. QED BY <1>6, <1>7, <1>8, <1>9, <1>10, <1>11 DEF OsInv

LEMMA OsTimeKeeps ==
  ASSUME OsInv, OsRewriteList \/ OsTick
  PROVE  OsInv'
<1>1. OsTyped /\ OsClocked /\ Listing /\ PageSound /\ Filed /\ StaleAhead
  BY DEF OsInv
<1>2. /\ UNCHANGED <<osObj, osIdx, osCk, osPol, osRun, osSkipped, osBound, osSpent, osBehind>>
      /\ osNow' \in {osNow, osNow + 1} /\ (osAcl' = osAcl \/ (osAcl < OsMaxLists /\ osAcl' = osAcl + 1))
  BY DEF OsRewriteList, OsTick, osKeepsSource
<1>3. osNow \in Nat \ {0} /\ osNow' \in Nat \ {0} /\ osNow <= osNow' /\ osAcl' \in 0 .. OsMaxLists
  BY <1>1, <1>2, OsConsts DEF OsTyped
<1>4. OsTyped'
  BY <1>1, <1>2, <1>3 DEF OsTyped
<1>5. ASSUME NEW p \in OsPoints, Held(p) PROVE Held(p)'
  <2>1. p.since \in Nat /\ p.perms \in Nat
    BY DEF OsPoints
  <2>. QED BY <1>3, <1>5, <2>1 DEF Held
<1>6. OsClocked'
  <2>1. PICK p \in OsPoints : p = osCk
    BY <1>1 DEF OsTyped
  <2>2. Held(p)'
    BY <1>1, <1>5, <2>1 DEF OsClocked
  <2>3. Held(osCk)'
    BY <1>2, <2>1, <2>2 DEF Held
  <2>4. \A k \in OsKeys : osObj[k].lm \in Nat /\ osObj[k].lm <= osNow /\ osObj[k].tag <= osSpent.writes
    BY <1>1, ObjectFields DEF OsClocked
  <2>5. osPol.changed \in Nat /\ osPol.changed <= osNow
    BY <1>1, ObjectFields DEF OsClocked
  <2>6. (\A k \in OsKeys : osObj[k].lm <= osNow') /\ osPol.changed <= osNow'
    BY <1>3, <2>4, <2>5
  <2>. QED BY <1>2, <2>3, <2>4, <2>6 DEF OsClocked
<1>7. Listing'
  <2>. SUFFICES ASSUME osRun.on PROVE Listing'
    BY <1>2 DEF Listing
  <2>1. osRun \in OsRuns
    BY <1>1, ListingTyped
  <2>2. PICK p \in OsPoints : p = osRun.start
    BY <2>1, ListingFields
  <2>3. Held(p)'
    BY <1>1, <1>5, <2>2 DEF Listing
  <2>4. Held(osRun.start)'
    BY <1>2, <2>2, <2>3 DEF Held
  <2>5. osRun.high <= osNow' /\ osRun.latest <= osNow' /\ osRun.clock <= osNow'
    <3>1. osRun.high \in Nat /\ osRun.latest \in Nat /\ osRun.clock \in Nat
      BY <2>1, ListingFields
    <3>2. osRun.high <= osNow /\ osRun.latest <= osNow /\ osRun.clock <= osNow
      BY <1>1 DEF Listing
    <3>. QED BY <1>3, <3>1, <3>2
  <2>. QED BY <1>1, <1>2, <2>4, <2>5 DEF Listing
<1>8. PageSound'
  <2>. SUFFICES ASSUME osRun.on, NEW o \in osRun.page PROVE o.lm <= osNow'
    BY <1>1, <1>2 DEF PageSound
  <2>1. o.lm \in Nat /\ o.lm <= osNow
    BY <1>1, ListingTyped, ListingFields DEF PageSound
  <2>. QED BY <1>3, <2>1
<1>9. Filed'
  BY <1>1, <1>2 DEF Filed
<1>10. StaleAhead'
  BY <1>1, <1>2 DEF StaleAhead, Stale, Listable
<1>. QED BY <1>4, <1>6, <1>7, <1>8, <1>9, <1>10 DEF OsInv

\* A run starts where the cursor says, and lists again what had been passed.
LEMMA OsSyncKeeps ==
  ASSUME OsInv, OsSync
  PROVE  OsInv'
<1>1. OsTyped /\ OsClocked /\ Listing /\ PageSound /\ Filed /\ StaleAhead
  BY DEF OsInv
<1>. DEFINE again(k) == osObj[k].lm > osCk.since /\ k > osCk.after
<1>2. /\ ~osRun.on
      /\ osRun' = [on |-> TRUE, start |-> osCk, pos |-> osCk.after, page |-> {}, more |-> TRUE, acl |-> osAcl,
                   high |-> osCk.since, latest |-> osCk.perms, clock |-> 0]
      /\ osPol' = [osPol EXCEPT !.loaded = FALSE]
      /\ osBehind' = {k \in osBehind : ~again(k)} /\ osSkipped' = {k \in osSkipped : ~again(k)}
      /\ UNCHANGED <<osNow, osObj, osAcl, osIdx, osCk, osSpent, osBound>>
  BY DEF OsSync, Reload, osKeepsStore
<1>3. /\ osRun'.on = TRUE /\ osRun'.start = osCk /\ osRun'.pos = osCk.after /\ osRun'.page = {} /\ osRun'.more = TRUE
      /\ osRun'.high = osCk.since /\ osRun'.latest = osCk.perms /\ osRun'.clock = 0
  BY <1>2
<1>4. osNow \in Nat \ {0} /\ osCk.since \in Nat /\ osCk.perms \in Nat /\ osCk.after \in Nat /\ osCk \in OsPoints
      /\ osAcl \in 0 .. OsMaxLists /\ Held(osCk)
  BY <1>1, ObjectFields DEF OsTyped, OsClocked
<1>5. osRun' \in OsRuns
  BY <1>2, <1>4 DEF OsRuns
<1>6. osPol' \in [loaded: BOOLEAN, err: BOOLEAN, rule: Int, seen: Int, changed: Nat] /\ osPol'.changed = osPol.changed
  BY <1>1, <1>2 DEF OsTyped
<1>7. OsTyped'
  BY <1>1, <1>2, <1>5, <1>6 DEF OsTyped
<1>8. OsClocked' /\ Filed'
  BY <1>1, <1>2, <1>6 DEF OsClocked, Held, Filed
<1>9. Listing'
  BY <1>2, <1>3, <1>4 DEF Listing, Held
<1>10. PageSound'
  BY <1>3 DEF PageSound
<1>11. StaleAhead'
  <2>. SUFFICES ASSUME NEW k \in OsWanted, Stale(k)' PROVE again(k)
    BY <1>2, <1>3 DEF StaleAhead, Listable
  <2>1. osObj[k].tag # 0 /\ osIdx[k].ver # osObj[k].tag /\ k \notin osBehind' /\ k \notin osSkipped'
    BY <1>2 DEF Stale
  <2>2. CASE k \in osBehind \cup osSkipped
    BY <1>2, <2>1, <2>2
  <2>3. CASE k \notin osBehind \cup osSkipped
    BY <1>1, <1>2, <2>1, <2>3 DEF StaleAhead, Stale
  <2>. QED BY <2>2, <2>3
<1>. QED BY <1>7, <1>8, <1>9, <1>10, <1>11 DEF OsInv

\* A page takes the next keys in order: what it does not describe is behind it or ahead.
LEMMA OsListKeeps ==
  ASSUME OsInv, OsList
  PROVE  OsInv'
<1>1. OsTyped /\ OsClocked /\ Listing /\ PageSound /\ Filed /\ StaleAhead
  BY DEF OsInv
<1>. DEFINE rest == {k \in OsKeys : k > osRun.pos /\ osObj[k].tag # 0}
<1>2. PICK keys \in SUBSET rest, last \in rest \union {osRun.pos} :
        /\ onePage(keys, rest)
        /\ last \in keys \/ (keys = {} /\ last = osRun.pos)
        /\ \A k \in keys : k <= last
        /\ osRun' = [osRun EXCEPT !.page = {listed(k) : k \in keys}, !.pos = last,
                                  !.more = keys # rest, !.clock = osNow]
  BY DEF OsList
<1>3. /\ osRun.on /\ osRun.page = {} /\ osRun.more
      /\ UNCHANGED <<osNow, osObj, osAcl, osIdx, osCk, osPol, osSpent, osBehind, osSkipped, osBound>>
  BY DEF OsList, osKeepsStore
<1>4. osRun \in OsRuns
  BY <1>1, <1>3, ListingTyped
<1>. DEFINE page == {listed(k) : k \in keys}
<1>5. /\ \A k \in keys : listed(k) = [key |-> k, lm |-> osObj[k].lm, tag |-> osObj[k].tag]
      /\ \A k \in rest : k \in OsKeys /\ k \in Nat /\ k > osRun.pos /\ osObj[k].tag # 0
      /\ osNow \in Nat \ {0} /\ last \in Nat /\ osRun.pos \in Nat /\ osRun.pos <= last
  <2>1. \A k : listed(k) = [key |-> k, lm |-> osObj[k].lm, tag |-> osObj[k].tag]
    BY DEF listed, version
  <2>2. osRun.pos \in Nat /\ osNow \in Nat \ {0}
    BY <1>1, <1>4, ListingFields DEF OsTyped
  <2>3. \A k \in rest : k \in OsKeys /\ k \in Nat /\ k > osRun.pos /\ osObj[k].tag # 0
    BY OsConsts
  <2>4. last \in Nat /\ osRun.pos <= last
    BY <1>2, <2>2, <2>3
  <2>. QED BY <2>1, <2>2, <2>3, <2>4
<1>6. page \subseteq OsEntries
  <2>. SUFFICES ASSUME NEW k \in keys PROVE listed(k) \in OsEntries
    OBVIOUS
  <2>1. k \in OsKeys /\ osObj[k].lm \in Nat /\ osObj[k].tag \in Nat
    BY <1>1, <1>2, <1>5, ObjectFields
  <2>. QED BY <1>5, <2>1 DEF OsEntries
<1>7. PICK more \in BOOLEAN : more = (keys # rest)
  OBVIOUS
<1>8. osRun' = [osRun EXCEPT !.page = page, !.pos = last, !.more = more, !.clock = osNow]
  BY <1>2, <1>7
<1>9. \A k \in rest : k \in keys \/ (k > last /\ more = TRUE)
  <2>. SUFFICES ASSUME NEW k \in rest, k \notin keys PROVE k > last /\ more
    OBVIOUS
  <2>1. more
    BY <1>7
  <2>2. \A l \in keys : l < k
    BY <1>2 DEF onePage
  <2>3. CASE last \in keys
    BY <2>1, <2>2, <1>5, <2>3
  <2>4. CASE last = osRun.pos
    BY <2>1, <1>5, <2>4
  <2>. QED BY <1>2, <2>3, <2>4
<1>10. \A o \in page : o.key \in keys /\ o = listed(o.key) /\ o.lm = osObj[o.key].lm /\ o.tag = osObj[o.key].tag
  BY <1>5
<1>11. \A k \in keys : listed(k) \in page /\ listed(k).key = k /\ listed(k).lm = osObj[k].lm
  BY <1>5
<1>. HIDE DEF rest, page
<1>12. /\ osRun' \in OsRuns /\ osRun'.on = TRUE /\ osRun'.start = osRun.start /\ osRun'.page = page /\ osRun'.pos = last
       /\ osRun'.more = more /\ osRun'.clock = osNow /\ osRun'.high = osRun.high /\ osRun'.latest = osRun.latest
  BY <1>4, <1>5, <1>6, <1>8 DEF OsRuns
<1>13. OsTyped'
  BY <1>1, <1>3, <1>12 DEF OsTyped
<1>14. OsClocked' /\ Filed'
  BY <1>1, <1>3 DEF OsClocked, Held, Filed
<1>15. Listing'
  <2>1. osCk.after \in Nat /\ osCk.after <= last
    <3>1. osCk.after \in Nat /\ osCk.after <= osRun.pos
      BY <1>1, <1>3, ObjectFields DEF Listing
    <3>. QED BY <1>5, <3>1
  <2>2. Held(osRun.start)'
    BY <1>1, <1>3, <1>12 DEF Listing, Held
  <2>. QED BY <1>1, <1>3, <1>5, <1>12, <2>1, <2>2 DEF Listing
<1>16. PageSound'
  <2>. SUFFICES ASSUME NEW o \in page
       PROVE  /\ osCk.after < o.key /\ o.key <= last /\ o.lm <= osNow /\ o.tag <= osSpent.writes
              /\ osObj[o.key].tag # 0 => o.tag <= osObj[o.key].tag
              /\ \A q \in page : q.key = o.key => q = o
    BY <1>3, <1>12 DEF PageSound
  <2>1. /\ o.key \in keys /\ o = listed(o.key) /\ o.lm = osObj[o.key].lm /\ o.tag = osObj[o.key].tag
        /\ \A q \in page : q = listed(q.key)
    BY <1>10
  <2>2. o.key \in OsKeys /\ o.key \in Nat /\ o.key > osRun.pos /\ o.key <= last
    BY <1>2, <1>5, <2>1
  <2>3. osObj[o.key].lm <= osNow /\ osObj[o.key].tag <= osSpent.writes /\ osObj[o.key].tag \in Nat
    BY <1>1, <2>2, ObjectFields DEF OsClocked
  <2>4. osCk.after <= osRun.pos /\ osCk.after \in Nat
    BY <1>1, <1>3, ObjectFields DEF Listing
  <2>5. osCk.after < o.key
    BY <1>5, <2>2, <2>4
  <2>6. \A q \in page : q.key = o.key => q = o
    BY <2>1
  <2>. QED BY <2>1, <2>2, <2>3, <2>5, <2>6
<1>17. StaleAhead'
  <2>. SUFFICES ASSUME NEW k \in OsWanted, Stale(k) PROVE osObj[k].lm > osCk.since /\ Listable(k)'
    BY <1>3, <1>12 DEF StaleAhead, Stale
  <2>1. k \in OsKeys /\ k \in Nat /\ osObj[k].tag # 0
    BY OsConsts DEF Stale
  <2>2. osObj[k].lm > osCk.since /\ Listable(k)
    BY <1>1, <1>3 DEF StaleAhead
  <2>3. k > osRun.pos
    BY <1>3, <2>2 DEF Listable
  <2>4. k \in rest
    BY <2>1, <2>3 DEF rest
  <2>5. CASE k \in keys
    <3>1. osObj[k].lm > osRun.start.since
      BY <1>1, <1>3, <2>2 DEF Listing
    <3>. QED BY <1>11, <1>12, <2>2, <2>5, <3>1 DEF Listable
  <2>6. CASE k > last /\ more
    BY <1>12, <2>2, <2>6 DEF Listable
  <2>. QED BY <1>9, <2>4, <2>5, <2>6
<1>. QED BY <1>13, <1>14, <1>15, <1>16, <1>17 DEF OsInv

\* The policy answers from the list it holds, or reads it.
LEMMA Loads ==
  ASSUME OsTyped, OsClocked, NEW fails \in BOOLEAN
  PROVE  LET p == load(osPol, fails)
         IN /\ p \in [loaded: BOOLEAN, err: BOOLEAN, rule: Int, seen: Int, changed: Nat]
            /\ p.changed <= osNow /\ p.changed \in Nat /\ p.rule \in Int
<1>1. /\ osPol \in [loaded: BOOLEAN, err: BOOLEAN, rule: Int, seen: Int, changed: Nat] /\ osPol.changed <= osNow
      /\ osAcl \in Int /\ osNow \in Nat
  BY OsConsts DEF OsTyped, OsClocked
<1>2. CASE osPol.loaded
  <2>1. load(osPol, fails) = osPol
    BY <1>2 DEF load
  <2>. QED BY <1>1, <2>1
<1>3. CASE ~osPol.loaded /\ fails
  <2>1. load(osPol, fails) = [osPol EXCEPT !.loaded = TRUE, !.err = TRUE, !.rule = -1]
    BY <1>3 DEF load, Unresolved
  <2>2. ASSUME NEW r \in Int
        PROVE  LET q == [osPol EXCEPT !.loaded = TRUE, !.err = TRUE, !.rule = r]
               IN /\ q \in [loaded: BOOLEAN, err: BOOLEAN, rule: Int, seen: Int, changed: Nat]
                  /\ q.changed = osPol.changed /\ q.rule = r
    BY <1>1
  <2>3. -1 \in Int
    OBVIOUS
  <2>. QED BY <1>1, <2>1, <2>2, <2>3
<1>4. CASE ~osPol.loaded /\ ~fails
  <2>. DEFINE rule == IF osAcl \in OsUnmapped THEN -1 ELSE osAcl
              changed == IF osPol.seen \notin {-1, osAcl} THEN osNow ELSE osPol.changed
  <2>1. PICK err \in BOOLEAN : err = (osAcl \in OsUnmapped)
    <3>1. (osAcl \in OsUnmapped) \in BOOLEAN
      OBVIOUS
    <3>. QED BY <3>1, Zenon
  <2>2. load(osPol, fails) = [loaded |-> TRUE, err |-> err, rule |-> rule, seen |-> osAcl, changed |-> changed]
    BY <1>4, <2>1 DEF load, Unresolved, Unseen
  <2>3. rule \in Int /\ changed \in Nat /\ changed <= osNow
    BY <1>1
  <2>. HIDE DEF rule, changed
  <2>. QED BY <1>1, <2>2, <2>3
<1>. QED BY <1>2, <1>3, <1>4

\* What one object of a page does: nothing, the rule again, a report, or the content
\* it has now under the tag it was listed with.
LEMMA ObjectDone ==
  ASSUME OsInv, NEW listFails \in BOOLEAN, NEW readFails \in BOOLEAN, OsObject(listFails, readFails)
  PROVE  \E o \in osRun.page :
           /\ \A later \in osRun.page : o.key <= later.key
           /\ osIdx' \in [OsKeys -> [ver: Nat, tag: Nat, rule: Int]]
           /\ \A k \in OsKeys \ {o.key} : osIdx'[k] = osIdx[k]
           /\ \/ osIdx'[o.key].ver = osIdx[o.key].ver /\ osIdx'[o.key].tag = osIdx[o.key].tag
              \/ osObj[o.key].tag # 0 /\ osIdx'[o.key].ver = osObj[o.key].tag /\ osIdx'[o.key].tag = o.tag
           /\ osCk' \in {osCk, osResume(osRun.start, o)}
           /\ osBehind' \in {osBehind, osBehind \ {o.key}}
           /\ osSkipped' \in {osSkipped, osSkipped \ {o.key}, osSkipped \union {o.key}}
           /\ o.key \in OsWanted => \/ o.key \in osSkipped' \/ osIdx'[o.key].ver = osObj[o.key].tag
                                    \/ /\ o.lm <= osRun.start.since /\ osBehind' = osBehind /\ osSkipped' = osSkipped
                                       /\ osIdx'[o.key].ver = osIdx[o.key].ver
           /\ osPol' \in [loaded: BOOLEAN, err: BOOLEAN, rule: Int, seen: Int, changed: Nat] /\ osPol'.changed <= osNow
           /\ osSpent' \in [writes: Nat, faults: Nat] /\ osSpent'.writes = osSpent.writes
           /\ \E high \in Nat, latest \in Nat :
                /\ (osRun.high <= osNow /\ o.lm <= osNow => high <= osNow) /\ (osRun.latest <= osNow => latest <= osNow)
                /\ osRun' = [osRun EXCEPT !.page = @ \ {o}, !.high = high, !.latest = latest]
<1>1. OsTyped /\ OsClocked
  BY DEF OsInv
<1>. DEFINE p == load(osPol, listFails)
            old(o) == osRun.start.since # 0 /\ o.lm <= osRun.start.since
            on(o) == [osRun EXCEPT !.page = @ \ {o}]
<1>2. osRun.on
  BY DEF OsObject
<1>3. PICK o \in osRun.page :
        /\ \A later \in osRun.page : o.key <= later.key
        /\ IF o.key \notin OsWanted
           THEN /\ ~listFails /\ ~readFails
                /\ osRun' = on(o) /\ UNCHANGED <<osIdx, osCk, osPol, osSpent, osBehind, osSkipped, osMissed>>
           ELSE /\ old(o) => ~readFails
                /\ IF old(o) THEN osRefreshes(o, p) ELSE osReads(o, p, readFails)
                /\ osPol' = p
                /\ osRun' = [on(o) EXCEPT !.high = Max({@, o.lm}), !.latest = IF p.err THEN @ ELSE Max({@, p.changed})]
                /\ LET n == (IF listFails THEN 1 ELSE 0) + (IF readFails THEN 1 ELSE 0)
                   IN osSpent.faults + n <= OsMaxFaults /\ osSpent' = [osSpent EXCEPT !.faults = @ + n]
  BY DEF OsObject
<1>4. osRun \in OsRuns
  BY <1>1, <1>2, ListingTyped
<1>5. o.key \in OsKeys /\ o.lm \in Nat /\ o.tag \in Nat /\ osRun.high \in Nat /\ osRun.latest \in Nat
  BY <1>4, ListingFields
<1>6. /\ osIdx \in [OsKeys -> [ver: Nat, tag: Nat, rule: Int]] /\ osSpent \in [writes: Nat, faults: Nat]
      /\ osPol \in [loaded: BOOLEAN, err: BOOLEAN, rule: Int, seen: Int, changed: Nat] /\ osPol.changed <= osNow
      /\ osObj[o.key].tag \in Nat
  BY <1>1, <1>5, ObjectFields DEF OsTyped, OsClocked
<1>7. /\ p \in [loaded: BOOLEAN, err: BOOLEAN, rule: Int, seen: Int, changed: Nat]
      /\ p.changed <= osNow /\ p.changed \in Nat /\ p.rule \in Int
  BY <1>1, Loads
<1>. HIDE DEF p
<1>8. CASE o.key \notin OsWanted
  <2>1. osRun' = [osRun EXCEPT !.page = @ \ {o}] /\ UNCHANGED <<osIdx, osCk, osPol, osSpent, osBehind, osSkipped>>
    BY <1>3, <1>8
  <2>2. osRun' = [osRun EXCEPT !.page = @ \ {o}, !.high = osRun.high, !.latest = osRun.latest]
    BY <1>4, <2>1 DEF OsRuns
  <2>3. \E high \in Nat, latest \in Nat :
          /\ (osRun.high <= osNow /\ o.lm <= osNow => high <= osNow) /\ (osRun.latest <= osNow => latest <= osNow)
          /\ osRun' = [osRun EXCEPT !.page = @ \ {o}, !.high = high, !.latest = latest]
    BY <1>5, <2>2
  <2>4. osIdx' \in [OsKeys -> [ver: Nat, tag: Nat, rule: Int]] /\ \A k \in OsKeys : osIdx'[k] = osIdx[k]
    BY <1>6, <2>1
  <2>. QED BY <1>3, <1>5, <1>6, <1>8, <2>1, <2>3, <2>4
<1>9. CASE o.key \in OsWanted
  <2>1. /\ IF old(o) THEN osRefreshes(o, p) ELSE osReads(o, p, readFails)
        /\ osPol' = p
        /\ osRun' = [on(o) EXCEPT !.high = Max({@, o.lm}), !.latest = IF p.err THEN @ ELSE Max({@, p.changed})]
        /\ \E n \in 0 .. 2 : osSpent' = [osSpent EXCEPT !.faults = @ + n]
    BY <1>3, <1>9
  <2>2. osSpent' \in [writes: Nat, faults: Nat] /\ osSpent'.writes = osSpent.writes
    BY <1>6, <2>1
  <2>3. \E high \in Nat, latest \in Nat :
          /\ (osRun.high <= osNow /\ o.lm <= osNow => high <= osNow) /\ (osRun.latest <= osNow => latest <= osNow)
          /\ osRun' = [osRun EXCEPT !.page = @ \ {o}, !.high = high, !.latest = latest]
    <3>. DEFINE high == Max({osRun.high, o.lm})
                latest == IF p.err THEN osRun.latest ELSE Max({osRun.latest, p.changed})
    <3>1. high \in Nat /\ (osRun.high <= osNow /\ o.lm <= osNow => high <= osNow)
      BY <1>5, TheGreater
    <3>2. latest \in Nat /\ (osRun.latest <= osNow => latest <= osNow)
      BY <1>5, <1>7, TheGreater
    <3>3. osRun' = [osRun EXCEPT !.page = @ \ {o}, !.high = high, !.latest = latest]
      BY <1>4, <2>1 DEF OsRuns
    <3>. HIDE DEF high, latest
    <3>. QED BY <3>1, <3>2, <3>3
  <2>4. CASE old(o)
    <3>1. /\ osBehind' = osBehind /\ osSkipped' = osSkipped
          /\ osIdx' = osIdx \/ osIdx' = [osIdx EXCEPT ![o.key].rule = p.rule]
          /\ osCk' \in {osCk, osResume(osRun.start, o)}
      BY <2>1, <2>4 DEF osRefreshes, osSaves
    <3>2. /\ osIdx' \in [OsKeys -> [ver: Nat, tag: Nat, rule: Int]] /\ \A k \in OsKeys \ {o.key} : osIdx'[k] = osIdx[k]
          /\ osIdx'[o.key].ver = osIdx[o.key].ver /\ osIdx'[o.key].tag = osIdx[o.key].tag
      BY <1>5, <1>6, <1>7, <3>1
    <3>. QED BY <1>3, <1>7, <2>1, <2>2, <2>3, <2>4, <3>1, <3>2
  <2>5. CASE ~old(o) /\ (readFails \/ osObj[o.key].tag = 0)
    <3>1. osSkipped' = osSkipped \union {o.key} /\ UNCHANGED <<osIdx, osCk, osBehind>>
      BY <2>1, <2>5 DEF osReads
    <3>. QED BY <1>3, <1>6, <1>7, <2>1, <2>2, <2>3, <3>1
  <2>6. CASE ~old(o) /\ ~(readFails \/ osObj[o.key].tag = 0)
    <3>1. /\ osIdx' = [osIdx EXCEPT ![o.key] = [ver |-> osObj[o.key].tag, tag |-> o.tag, rule |-> p.rule]]
          /\ osCk' \in {osCk, osResume(osRun.start, o)}
          /\ osBehind' = osBehind \ {o.key} /\ osSkipped' = osSkipped \ {o.key}
      BY <2>1, <2>6 DEF osReads, osSaves, version
    <3>2. /\ osIdx' \in [OsKeys -> [ver: Nat, tag: Nat, rule: Int]] /\ \A k \in OsKeys \ {o.key} : osIdx'[k] = osIdx[k]
          /\ osIdx'[o.key].ver = osObj[o.key].tag /\ osIdx'[o.key].tag = o.tag
      BY <1>5, <1>6, <1>7, <3>1
    <3>. QED BY <1>3, <1>7, <2>1, <2>2, <2>3, <2>6, <3>1, <3>2
  <2>. QED BY <2>4, <2>5, <2>6
<1>. QED BY <1>8, <1>9

LEMMA OsObjectKeeps ==
  ASSUME OsInv, NEW listFails \in BOOLEAN, NEW readFails \in BOOLEAN, OsObject(listFails, readFails)
  PROVE  OsInv'
<1>1. OsTyped /\ OsClocked /\ Listing /\ PageSound /\ Filed /\ StaleAhead
  BY DEF OsInv
<1>2. PICK o \in osRun.page :
        /\ \A later \in osRun.page : o.key <= later.key
        /\ osIdx' \in [OsKeys -> [ver: Nat, tag: Nat, rule: Int]]
        /\ \A k \in OsKeys \ {o.key} : osIdx'[k] = osIdx[k]
        /\ \/ osIdx'[o.key].ver = osIdx[o.key].ver /\ osIdx'[o.key].tag = osIdx[o.key].tag
           \/ osObj[o.key].tag # 0 /\ osIdx'[o.key].ver = osObj[o.key].tag /\ osIdx'[o.key].tag = o.tag
        /\ osCk' \in {osCk, osResume(osRun.start, o)}
        /\ osBehind' \in {osBehind, osBehind \ {o.key}}
        /\ osSkipped' \in {osSkipped, osSkipped \ {o.key}, osSkipped \union {o.key}}
        /\ o.key \in OsWanted => \/ o.key \in osSkipped' \/ osIdx'[o.key].ver = osObj[o.key].tag
                                 \/ /\ o.lm <= osRun.start.since /\ osBehind' = osBehind /\ osSkipped' = osSkipped
                                    /\ osIdx'[o.key].ver = osIdx[o.key].ver
        /\ osPol' \in [loaded: BOOLEAN, err: BOOLEAN, rule: Int, seen: Int, changed: Nat] /\ osPol'.changed <= osNow
        /\ osSpent' \in [writes: Nat, faults: Nat] /\ osSpent'.writes = osSpent.writes
        /\ \E high \in Nat, latest \in Nat :
             /\ (osRun.high <= osNow /\ o.lm <= osNow => high <= osNow) /\ (osRun.latest <= osNow => latest <= osNow)
             /\ osRun' = [osRun EXCEPT !.page = @ \ {o}, !.high = high, !.latest = latest]
  BY ObjectDone
<1>3. osRun.on /\ UNCHANGED <<osNow, osObj, osAcl, osBound>>
  BY DEF OsObject, osKeepsStore
<1>4. osRun \in OsRuns
  BY <1>1, <1>3, ListingTyped
<1>5. /\ o.key \in OsKeys /\ o.key \in Nat /\ o.lm \in Nat /\ o.tag \in Nat
      /\ osRun.pos \in Nat /\ osRun.clock \in Nat /\ osCk.after \in Nat /\ osCk.since \in Nat
      /\ \A q \in osRun.page : q.key \in OsKeys /\ q.key \in Nat /\ q.lm \in Nat
  BY <1>1, <1>4, ListingFields, ObjectFields
<1>6. /\ osCk.after < o.key /\ o.key <= osRun.pos /\ o.lm <= osNow /\ o.tag <= osSpent.writes
      /\ osObj[o.key].tag # 0 => o.tag <= osObj[o.key].tag
      /\ \A q \in osRun.page : q.key = o.key => q = o
  BY <1>1, <1>3 DEF PageSound
<1>7. PICK high \in Nat, latest \in Nat :
        high <= osNow /\ latest <= osNow /\ osRun' = [osRun EXCEPT !.page = @ \ {o}, !.high = high, !.latest = latest]
  BY <1>1, <1>2, <1>3, <1>6 DEF Listing
<1>8. /\ osRun' \in OsRuns /\ osRun'.on = TRUE /\ osRun'.start = osRun.start /\ osRun'.page = osRun.page \ {o}
      /\ osRun'.pos = osRun.pos /\ osRun'.more = osRun.more /\ osRun'.clock = osRun.clock
      /\ osRun'.high = high /\ osRun'.latest = latest
  BY <1>4, <1>7 DEF OsRuns
<1>9. PICK s \in OsPoints : s = osRun.start
  BY <1>4, ListingFields
<1>10. Held(s) /\ s.since = osCk.since /\ s.after <= osCk.after /\ s.after \in Nat /\ s.since \in Nat /\ s.perms \in Nat
  BY <1>1, <1>3, <1>9 DEF Listing, OsPoints
<1>11. osResume(s, o) = [since |-> s.since, perms |-> s.perms, after |-> o.key]
  BY DEF osResume, osPoint
<1>12. /\ osCk' \in OsPoints /\ osCk'.since = osCk.since /\ osCk'.after \in {osCk.after, o.key}
       /\ Held(osCk)'
  <2>1. CASE osCk' = osCk
    BY <1>1, <1>3, <2>1 DEF OsTyped, OsClocked, Held
  <2>2. CASE osCk' = osResume(s, o)
    BY <1>3, <1>5, <1>10, <1>11, <2>2 DEF OsPoints, Held
  <2>. QED BY <1>2, <1>9, <2>1, <2>2
<1>13. OsTyped'
  BY <1>1, <1>2, <1>3, <1>8, <1>12 DEF OsTyped
<1>14. OsClocked'
  BY <1>1, <1>2, <1>3, <1>12 DEF OsClocked
<1>15. Listing'
  <2>1. osCk'.after <= osRun.pos /\ s.after <= osCk'.after
    BY <1>1, <1>3, <1>5, <1>6, <1>10, <1>12 DEF Listing
  <2>2. Held(osRun.start)'
    BY <1>3, <1>8, <1>9, <1>10 DEF Held
  <2>3. osRun.clock > 0 /\ osRun.clock <= osNow
    BY <1>1, <1>3 DEF Listing
  <2>. QED BY <1>3, <1>7, <1>8, <1>9, <1>10, <1>12, <2>1, <2>2, <2>3 DEF Listing
<1>16. PageSound'
  <2>. SUFFICES ASSUME NEW q \in osRun.page, q # o PROVE osCk'.after < q.key
    BY <1>1, <1>2, <1>3, <1>8 DEF PageSound
  <2>1. osCk.after < q.key /\ o.key <= q.key /\ q.key # o.key
    BY <1>1, <1>2, <1>3, <1>6 DEF PageSound
  <2>2. q.key \in Nat
    BY <1>5
  <2>. QED BY <1>5, <1>12, <2>1, <2>2
<1>17. Filed'
  <2>. SUFFICES ASSUME NEW k \in OsKeys
       PROVE  /\ osIdx'[k].tag <= osIdx'[k].ver /\ osIdx'[k].ver <= osSpent.writes
              /\ osObj[k].tag # 0 => osIdx'[k].ver <= osObj[k].tag
    BY <1>2, <1>3 DEF Filed
  <2>1. /\ osIdx[k].tag <= osIdx[k].ver /\ osIdx[k].ver <= osSpent.writes
        /\ osObj[k].tag # 0 => osIdx[k].ver <= osObj[k].tag
        /\ osObj[k].tag \in Nat /\ osObj[k].tag <= osSpent.writes
    BY <1>1, ObjectFields DEF Filed, OsClocked
  <2>2. CASE k # o.key
    BY <1>2, <2>1, <2>2
  <2>3. CASE k = o.key
    BY <1>2, <1>6, <2>1, <2>3
  <2>. QED BY <2>2, <2>3
<1>18. StaleAhead'
  <2>. SUFFICES ASSUME NEW k \in OsWanted, Stale(k)' PROVE osObj[k].lm > osCk.since /\ Listable(k)'
    BY <1>3, <1>8, <1>12 DEF StaleAhead
  <2>1. k \in OsKeys
    BY OsConsts
  <2>2. CASE k # o.key
    <3>1. Stale(k)
      BY <1>2, <1>3, <2>1, <2>2 DEF Stale
    <3>2. osObj[k].lm > osCk.since /\ Listable(k)
      BY <1>1, <1>3, <3>1 DEF StaleAhead
    <3>. QED BY <1>3, <1>8, <2>2, <3>2 DEF Listable
  <2>3. CASE k = o.key
    <3>1. /\ o.lm <= osRun.start.since /\ osBehind' = osBehind /\ osSkipped' = osSkipped
          /\ osIdx'[k].ver = osIdx[k].ver
      BY <1>2, <1>3, <2>3 DEF Stale
    <3>2. Stale(k)
      BY <1>3, <3>1 DEF Stale
    <3>3. osObj[k].lm > osCk.since /\ Listable(k)
      BY <1>1, <1>3, <3>2 DEF StaleAhead
    <3>4. ~\E q \in osRun.page : q.key = k /\ q.lm > osRun.start.since
      <4>1. ~(o.lm > osRun.start.since)
        BY <1>5, <1>9, <1>10, <3>1
      <4>. QED BY <1>6, <2>3, <4>1
    <3>. QED BY <1>3, <1>8, <3>3, <3>4 DEF Listable
  <2>. QED BY <2>2, <2>3
<1>. QED BY <1>13, <1>14, <1>15, <1>16, <1>17, <1>18 DEF OsInv

\* The run ends with a cursor a second behind the last page, or fails and leaves the
\* one last saved.
LEMMA OsFinishKeeps ==
  ASSUME OsInv, OsFinish
  PROVE  OsInv'
<1>1. OsTyped /\ OsClocked /\ Listing /\ PageSound /\ Filed /\ StaleAhead
  BY DEF OsInv
<1>. DEFINE since == heldBack(osRun)
<1>2. /\ osRun.on /\ osRun.page = {} /\ ~osRun.more /\ osRun' = osNoRun
      /\ osBehind' = osBehind \union osLeft(osCk'.after)
      /\ osBound' \in {osRun.acl, osBound}
      /\ osCk' = IF since = 0 /\ osRun.latest = 0 THEN osRun.start ELSE osPoint(since, osRun.latest, 0)
      /\ UNCHANGED <<osNow, osObj, osAcl, osIdx, osPol, osSpent, osSkipped>>
  BY DEF OsFinish, osKeepsStore
<1>3. osRun \in OsRuns /\ ~osRun'.on
  BY <1>1, <1>2, ListingTyped DEF osNoRun
<1>4. PICK s \in OsPoints : s = osRun.start
  BY <1>3, ListingFields
<1>5. /\ Held(s) /\ s.since = osCk.since /\ s.after \in Nat /\ s.since \in Nat /\ osCk.after \in Nat
      /\ osRun.clock > 0 /\ osRun.clock <= osNow /\ osRun.latest <= osNow
      /\ osRun.clock \in Nat /\ osRun.latest \in Nat /\ osRun.high \in Nat /\ osRun.acl \in 0 .. OsMaxLists
  BY <1>1, <1>2, <1>3, <1>4, ListingFields, ObjectFields DEF Listing, OsPoints
<1>6. since \in Nat /\ since < osRun.clock
  BY <1>5, TheLesser DEF heldBack
<1>. HIDE DEF since
<1>7. (osCk' = s /\ since = 0) \/ osCk' = [since |-> since, perms |-> osRun.latest, after |-> 0]
  BY <1>2, <1>4 DEF osPoint
<1>8. osCk' \in OsPoints /\ Held(osCk)' /\ osCk'.since \in Nat /\ osCk'.after \in Nat
  <2>1. CASE osCk' = s
    BY <1>2, <1>5, <2>1 DEF Held
  <2>2. CASE osCk' = [since |-> since, perms |-> osRun.latest, after |-> 0]
    BY <1>1, <1>2, <1>5, <1>6, <2>2 DEF Held, OsPoints, OsTyped
  <2>. QED BY <1>7, <2>1, <2>2
<1>9. OsTyped'
  BY <1>1, <1>2, <1>5, <1>8 DEF OsTyped
<1>10. OsClocked' /\ Filed'
  BY <1>1, <1>2, <1>8 DEF OsClocked, Filed
<1>11. StaleAhead'
  <2>. SUFFICES ASSUME NEW k \in OsWanted, Stale(k)' PROVE osObj[k].lm > osCk'.since /\ k > osCk'.after
    BY <1>2, <1>3 DEF StaleAhead
  <2>1. k \in OsKeys /\ k \in Nat \ {0} /\ osObj[k].lm \in Nat
    BY <1>1, OsConsts, ObjectFields
  <2>2. Stale(k)
    BY <1>2 DEF Stale
  <2>3. osObj[k].lm > osCk.since /\ osObj[k].lm >= osRun.clock
    BY <1>1, <1>2, <2>2 DEF StaleAhead, Listable
  <2>4. k \notin osLeft(osCk'.after)
    BY <1>2 DEF Stale
  <2>5. ~(k <= osCk'.after)
    BY <1>2, <2>2, <2>3, <2>4 DEF osLeft, Stale
  <2>6. k > osCk'.after
    BY <1>8, <2>1, <2>5
  <2>7. CASE osCk' = s
    BY <1>5, <2>3, <2>6, <2>7
  <2>8. CASE osCk' = [since |-> since, perms |-> osRun.latest, after |-> 0]
    BY <1>5, <1>6, <2>1, <2>3, <2>6, <2>8
  <2>. QED BY <1>7, <2>7, <2>8
<1>. QED BY <1>3, <1>9, <1>10, <1>11 DEF OsInv, Listing, PageSound

LEMMA OsFailKeeps ==
  ASSUME OsInv, OsFail \/ OsRestart
  PROVE  OsInv'
<1>1. OsTyped /\ OsClocked /\ Listing /\ PageSound /\ Filed /\ StaleAhead
  BY DEF OsInv
<1>2. /\ osRun' = osNoRun /\ osSpent' = [osSpent EXCEPT !.faults = @ + 1]
      /\ osBehind' = osBehind \union osLeft(osCk.after)
      /\ osPol' \in {osPol, osNoPolicy}
      /\ UNCHANGED <<osNow, osObj, osAcl, osIdx, osCk, osSkipped, osBound>>
  BY DEF OsFail, OsRestart, osKeepsStore
<1>3. ~osRun'.on
  BY <1>2 DEF osNoRun
<1>4. osSpent' \in [writes: Nat, faults: Nat] /\ osSpent'.writes = osSpent.writes
  BY <1>1, <1>2 DEF OsTyped
<1>5. /\ osPol' \in [loaded: BOOLEAN, err: BOOLEAN, rule: Int, seen: Int, changed: Nat]
      /\ osPol'.changed <= osNow
  <2>1. CASE osPol' = osPol
    BY <1>1, <2>1 DEF OsTyped, OsClocked
  <2>2. CASE osPol' = [loaded |-> FALSE, err |-> FALSE, rule |-> -1, seen |-> -1, changed |-> 0]
    BY <1>1, <2>2 DEF OsTyped
  <2>. QED BY <1>2, <2>1, <2>2 DEF osNoPolicy, Unresolved, Unseen
<1>6. OsTyped'
  BY <1>1, <1>2, <1>4, <1>5 DEF OsTyped
<1>7. OsClocked' /\ Filed'
  BY <1>1, <1>2, <1>4, <1>5 DEF OsClocked, Held, Filed
<1>8. StaleAhead'
  <2>. SUFFICES ASSUME NEW k \in OsWanted, Stale(k)' PROVE osObj[k].lm > osCk.since /\ k > osCk.after
    BY <1>2, <1>3 DEF StaleAhead
  <2>1. k \in OsKeys /\ k \in Nat \ {0} /\ osCk.after \in Nat
    BY <1>1, OsConsts, ObjectFields
  <2>2. Stale(k) /\ k \notin osLeft(osCk.after)
    BY <1>2 DEF Stale
  <2>3. osObj[k].lm > osCk.since /\ (IF osRun.on THEN Listable(k) ELSE k > osCk.after)
    BY <1>1, <2>2 DEF StaleAhead
  <2>4. CASE ~osRun.on
    BY <2>3, <2>4
  <2>5. CASE osRun.on /\ osRun.more /\ k > osRun.pos
    <3>1. osCk.after <= osRun.pos /\ osRun.pos \in Nat
      BY <1>1, <2>5, ListingTyped, ListingFields DEF Listing
    <3>. QED BY <2>1, <2>3, <2>5, <3>1
  <2>6. CASE osRun.on /\ \E o \in osRun.page : o.key = k
    BY <1>1, <2>1, <2>3, <2>6 DEF PageSound
  <2>7. CASE osRun.on /\ ~osRun.more /\ osObj[k].lm >= osRun.clock
    <3>1. ~(k <= osCk.after)
      BY <2>2, <2>7 DEF osLeft, Stale
    <3>. QED BY <2>1, <2>3, <3>1
  <2>. QED BY <2>3, <2>4, <2>5, <2>6, <2>7 DEF Listable
<1>. QED BY <1>3, <1>6, <1>7, <1>8 DEF OsInv, Listing, PageSound

\* The sweep files what is there now, or drops what is gone.
LEMMA FetchDone ==
  ASSUME OsTyped, OsClocked, NEW w \in OsKeys, NEW answer \in {"ok", "NoSuchKey", "NoSuchBucket"}, OsFetch(w, answer)
  PROVE  /\ osIdx' \in [OsKeys -> [ver: Nat, tag: Nat, rule: Int]]
         /\ \A k \in OsKeys \ {w} : osIdx'[k] = osIdx[k]
         /\ osPol' \in [loaded: BOOLEAN, err: BOOLEAN, rule: Int, seen: Int, changed: Nat] /\ osPol'.changed <= osNow
         /\ \/ osObj[w].tag # 0 /\ osIdx'[w].ver = osObj[w].tag /\ osIdx'[w].tag = osObj[w].tag
               /\ osBehind' = osBehind \ {w} /\ osSkipped' = osSkipped \ {w}
            \/ osObj[w].tag = 0 /\ osIdx'[w].ver = 0 /\ osIdx'[w].tag = 0 /\ osBehind' = osBehind /\ osSkipped' = osSkipped
            \/ UNCHANGED <<osIdx, osBehind, osSkipped>>
<1>1. /\ osIdx \in [OsKeys -> [ver: Nat, tag: Nat, rule: Int]] /\ osObj[w].tag \in Nat
      /\ osPol \in [loaded: BOOLEAN, err: BOOLEAN, rule: Int, seen: Int, changed: Nat] /\ osPol.changed <= osNow
  BY ObjectFields DEF OsTyped, OsClocked
<1>2. CASE answer = "ok"
  <2>. DEFINE p == load(osPol, FALSE)
  <2>1. /\ osObj[w].tag # 0 /\ osPol' = p /\ osBehind' = osBehind \ {w} /\ osSkipped' = osSkipped \ {w}
        /\ osIdx' = [osIdx EXCEPT ![w] = [ver |-> osObj[w].tag, tag |-> osObj[w].tag, rule |-> p.rule]]
    BY <1>2 DEF OsFetch, version, gone
  <2>2. /\ p \in [loaded: BOOLEAN, err: BOOLEAN, rule: Int, seen: Int, changed: Nat]
        /\ p.changed <= osNow /\ p.rule \in Int
    BY Loads
  <2>. HIDE DEF p
  <2>3. /\ osIdx' \in [OsKeys -> [ver: Nat, tag: Nat, rule: Int]] /\ \A k \in OsKeys \ {w} : osIdx'[k] = osIdx[k]
        /\ osIdx'[w].ver = osObj[w].tag /\ osIdx'[w].tag = osObj[w].tag
    BY <1>1, <2>1, <2>2
  <2>. QED BY <2>1, <2>2, <2>3
<1>3. CASE answer = "NoSuchKey"
  <2>1. /\ osObj[w].tag = 0 /\ UNCHANGED <<osPol, osBehind, osSkipped>>
        /\ osIdx' = [osIdx EXCEPT ![w] = [ver |-> 0, tag |-> 0, rule |-> -1]]
    BY <1>3 DEF OsFetch, gone, osAbsent, Unresolved
  <2>2. /\ osIdx' \in [OsKeys -> [ver: Nat, tag: Nat, rule: Int]] /\ \A k \in OsKeys \ {w} : osIdx'[k] = osIdx[k]
        /\ osIdx'[w].ver = 0 /\ osIdx'[w].tag = 0
    BY <1>1, <2>1
  <2>. QED BY <1>1, <2>1, <2>2
<1>4. CASE answer = "NoSuchBucket"
  <2>1. UNCHANGED <<osIdx, osPol, osBehind, osSkipped>>
    BY <1>4 DEF OsFetch, gone
  <2>. QED BY <1>1, <2>1
<1>. QED BY <1>2, <1>3, <1>4

LEMMA OsFetchKeeps ==
  ASSUME OsInv, NEW w \in OsKeys, NEW answer \in {"ok", "NoSuchKey", "NoSuchBucket"}, OsFetch(w, answer)
  PROVE  OsInv'
<1>1. OsTyped /\ OsClocked /\ Listing /\ PageSound /\ Filed /\ StaleAhead
  BY DEF OsInv
<1>2. /\ ~osRun.on /\ UNCHANGED <<osNow, osObj, osAcl, osCk, osRun, osBound>>
      /\ \E n \in {0, 1} : osSpent' = [osSpent EXCEPT !.faults = @ + n]
  BY DEF OsFetch, osKeepsStore
<1>3. osSpent' \in [writes: Nat, faults: Nat] /\ osSpent'.writes = osSpent.writes
  BY <1>1, <1>2 DEF OsTyped
<1>4. /\ osIdx' \in [OsKeys -> [ver: Nat, tag: Nat, rule: Int]]
      /\ \A k \in OsKeys \ {w} : osIdx'[k] = osIdx[k]
      /\ osPol' \in [loaded: BOOLEAN, err: BOOLEAN, rule: Int, seen: Int, changed: Nat] /\ osPol'.changed <= osNow
      /\ \/ osObj[w].tag # 0 /\ osIdx'[w].ver = osObj[w].tag /\ osIdx'[w].tag = osObj[w].tag
            /\ osBehind' = osBehind \ {w} /\ osSkipped' = osSkipped \ {w}
         \/ osObj[w].tag = 0 /\ osIdx'[w].ver = 0 /\ osIdx'[w].tag = 0 /\ osBehind' = osBehind /\ osSkipped' = osSkipped
         \/ UNCHANGED <<osIdx, osBehind, osSkipped>>
  BY <1>1, FetchDone
<1>5. OsTyped' /\ OsClocked'
  BY <1>1, <1>2, <1>3, <1>4 DEF OsTyped, OsClocked, Held
<1>6. Filed'
  <2>. SUFFICES ASSUME NEW k \in OsKeys
       PROVE  /\ osIdx'[k].tag <= osIdx'[k].ver /\ osIdx'[k].ver <= osSpent.writes
              /\ osObj[k].tag # 0 => osIdx'[k].ver <= osObj[k].tag
    BY <1>2, <1>3 DEF Filed
  <2>1. /\ osIdx[k].tag <= osIdx[k].ver /\ osIdx[k].ver <= osSpent.writes
        /\ osObj[k].tag # 0 => osIdx[k].ver <= osObj[k].tag
        /\ osObj[k].tag \in Nat /\ osObj[k].tag <= osSpent.writes /\ osSpent.writes \in Nat
    BY <1>1, ObjectFields DEF Filed, OsClocked
  <2>2. CASE k # w
    BY <1>4, <2>1, <2>2
  <2>3. CASE k = w
    BY <1>4, <2>1, <2>3
  <2>. QED BY <2>2, <2>3
<1>7. StaleAhead'
  <2>. SUFFICES ASSUME NEW k \in OsWanted, Stale(k)' PROVE osObj[k].lm > osCk.since /\ k > osCk.after
    BY <1>2 DEF StaleAhead
  <2>1. k \in OsKeys
    BY OsConsts
  <2>2. Stale(k)
    BY <1>2, <1>4, <2>1 DEF Stale
  <2>. QED BY <1>1, <1>2, <2>2 DEF StaleAhead
<1>. QED BY <1>1, <1>2, <1>5, <1>6, <1>7 DEF OsInv, Listing, PageSound

LEMMA OsStep == OsInv /\ [OsNext]_osVars => OsInv'
<1>. SUFFICES ASSUME OsInv, [OsNext]_osVars PROVE OsInv'
  OBVIOUS
<1>1. CASE \E k \in OsKeys, b \in BOOLEAN : OsWrite(k, b)
  BY <1>1, OsWriteKeeps
<1>2. CASE \E k \in OsKeys, a \in {"ok", "NoSuchKey", "NoSuchBucket"} : OsFetch(k, a)
  BY <1>2, OsFetchKeeps
<1>3. CASE \E b, c \in BOOLEAN : OsObject(b, c)
  BY <1>3, OsObjectKeeps
<1>4. CASE OsRewriteList \/ OsTick
  BY <1>4, OsTimeKeeps
<1>5. CASE OsSync \/ OsList \/ OsFinish \/ OsFail \/ OsRestart
  BY <1>5, OsSyncKeeps, OsListKeeps, OsFinishKeeps, OsFailKeeps
<1>6. CASE UNCHANGED osVars
  <2>1. UNCHANGED <<osNow, osObj, osAcl, osIdx, osCk, osPol, osRun, osSpent, osBehind, osSkipped, osBound>>
    BY <1>6 DEF osVars
  <2>2. OsTyped' /\ OsClocked' /\ Listing' /\ PageSound' /\ Filed'
    BY <2>1 DEF OsInv, OsTyped, OsClocked, Held, Listing, PageSound, Filed
  <2>3. StaleAhead'
    BY <2>1 DEF OsInv, StaleAhead, Stale, Listable
  <2>. QED BY <2>2, <2>3 DEF OsInv
<1>. QED BY <1>1, <1>2, <1>3, <1>4, <1>5, <1>6 DEF OsNext

LEMMA OsHolds == OsInv => OsTypeOK /\ AheadOfCursor /\ TagNeverAhead
<1>. SUFFICES ASSUME OsInv PROVE OsTypeOK /\ AheadOfCursor /\ TagNeverAhead
  OBVIOUS
<1>1. OsTyped /\ OsClocked /\ Filed /\ StaleAhead
  BY DEF OsInv
<1>2. OsTypeOK
  BY <1>1 DEF OsTypeOK, OsTyped, OsClocked, Held
<1>3. AheadOfCursor
  BY <1>1 DEF AheadOfCursor, osSettled, StaleAhead, Stale
<1>4. TagNeverAhead
  <2>. SUFFICES ASSUME NEW k \in OsWanted, osObj[k].tag # 0, osIdx[k].tag = osObj[k].tag PROVE osIdx[k].ver = osObj[k].tag
    BY DEF TagNeverAhead, version
  <2>1. k \in OsKeys /\ osIdx[k].ver \in Nat /\ osIdx[k].tag \in Nat
    BY <1>1, OsConsts, ObjectFields
  <2>. QED BY <1>1, <2>1 DEF Filed
<1>. QED BY <1>2, <1>3, <1>4

-----------------------------------------------------------------------------
(* Checkpoint files: the invariant.                                        *)

Contents == {noFile} \cup {content(s, v) : s \in CkSources, v \in Nat}

CkTyped ==
  /\ ckFiles \in [Paths -> Contents] /\ ckOld \in [Paths -> SUBSET Contents]
  /\ ckNext \in [CkSources -> Nat] /\ ckDone \in [CkSources -> Nat]
  /\ ckSave = ckIdle \/ \E s \in CkSources, v \in Nat : ckSave.file = content(s, v)

\* A file is where its own source's path says, now and after a power cut.
InPlace(p, f) == f = noFile \/ path(f.src) = p
AllInPlace == \A p \in Paths : InPlace(p, ckFiles[p]) /\ \A f \in ckOld[p] : InPlace(p, f)

\* A source finds the newest save that returned, or what another wrote over it.
NewestOrTaken ==
  \A s \in CkSources : /\ ckFiles[path(s)].src = s => ckFiles[path(s)].value >= ckDone[s]
                       /\ ckFiles[path(s)] = noFile => ckDone[s] = 0

CkInv == CkTyped /\ AllInPlace /\ NewestOrTaken

-----------------------------------------------------------------------------
(* Checkpoint files: the steps.                                            *)

LEMMA CkConsts ==
  /\ "-" \in CkPlain
  /\ \A s \in CkSources : s = <<s[1], s[2]>> /\ s[1] \in Seq(CkChars) /\ s[2] \in Seq(CkChars) /\ s # <<>>
<1>1. \A s \in CkSources : s = <<s[1], s[2]>>
  BY CkAssumption DEF CkAssumption
<1>2. \A a, b : <<a, b>> # <<>>
  OBVIOUS
<1>. QED BY <1>1, <1>2, CkAssumption DEF CkAssumption

\* What a file holds.
LEMMA ContentFields ==
  ASSUME NEW f \in Contents
  PROVE  /\ f.whole = TRUE /\ f.value \in Nat /\ (f = noFile \/ f.src \in CkSources)
         /\ (f.src = noFile.src => f = noFile) /\ (f = noFile => f.value = 0 /\ f.src = <<>>)
<1>1. noFile = [whole |-> TRUE, src |-> <<>>, value |-> 0]
  BY DEF noFile, content
<1>2. CASE f = noFile
  BY <1>1, <1>2
<1>3. ASSUME NEW s \in CkSources, NEW v \in Nat, f = content(s, v)
      PROVE  f.whole = TRUE /\ f.value \in Nat /\ f.src \in CkSources /\ f.src # noFile.src /\ f # noFile
  <2>1. f = [whole |-> TRUE, src |-> s, value |-> v]
    BY <1>3 DEF content
  <2>2. s # <<>>
    BY CkConsts
  <2>3. f.whole = TRUE /\ f.value = v /\ f.src = s /\ noFile.src = <<>>
    BY <1>1, <2>1
  <2>. QED BY <2>2, <2>3
<1>4. CASE f # noFile
  <2>1. PICK s \in CkSources, v \in Nat : f = content(s, v)
    BY <1>4 DEF Contents
  <2>. QED BY <1>3, <2>1
<1>. QED BY <1>2, <1>4

LEMMA PathIn == \A s \in CkSources : path(s) \in Paths
BY DEF Paths

LEMMA CkInitInv == CkInit => CkInv
<1>. SUFFICES ASSUME CkInit PROVE CkInv
  OBVIOUS
<1>1. /\ ckFiles = [p \in Paths |-> noFile] /\ ckOld = [p \in Paths |-> {noFile}] /\ ckSave = ckIdle
      /\ ckNext = [s \in CkSources |-> 1] /\ ckDone = [s \in CkSources |-> 0]
  BY DEF CkInit
<1>2. noFile \in Contents
  BY DEF Contents
<1>3. CkTyped
  BY <1>1, <1>2 DEF CkTyped
<1>4. AllInPlace
  BY <1>1 DEF AllInPlace, InPlace
<1>5. NewestOrTaken
  <2>. SUFFICES ASSUME NEW s \in CkSources PROVE ckFiles[path(s)].value >= ckDone[s] /\ ckDone[s] = 0
    BY DEF NewestOrTaken
  <2>1. ckFiles[path(s)] = noFile /\ ckDone[s] = 0
    BY <1>1, PathIn
  <2>2. noFile.value = 0
    BY DEF noFile, content
  <2>. QED BY <2>1, <2>2
<1>. QED BY <1>3, <1>4, <1>5 DEF CkInv

\* A save that has not renamed its file is read by nobody.
LEMMA CkQuietKeeps ==
  ASSUME CkInv, (\E s \in CkSources : CkSaveBegins(s)) \/ CkSaveStep \/ CkKill \/ UNCHANGED ckVars
  PROVE  CkInv'
<1>1. CkTyped /\ AllInPlace /\ NewestOrTaken
  BY DEF CkInv
<1>2. ckFiles' = ckFiles /\ ckOld' = ckOld /\ ckDone' = ckDone
  BY DEF CkSaveBegins, CkSaveStep, CkKill, ckVars
<1>3. ckNext' \in [CkSources -> Nat] /\ (ckSave' = ckIdle \/ \E s \in CkSources, v \in Nat : ckSave'.file = content(s, v))
  <2>1. CASE \E s \in CkSources : CkSaveBegins(s)
    <3>1. PICK s \in CkSources : CkSaveBegins(s)
      BY <2>1
    <3>2. ckNext' = [ckNext EXCEPT ![s] = @ + 1] /\ ckSave'.file = content(s, ckNext[s]) /\ ckNext[s] \in Nat
      BY <1>1, <3>1 DEF CkSaveBegins, CkTyped
    <3>. QED BY <1>1, <3>2 DEF CkTyped
  <2>2. CASE CkSaveStep
    <3>1. ckNext' = ckNext
      BY <2>2 DEF CkSaveStep
    <3>2. CASE ckSave' = ckIdle
      BY <1>1, <3>1, <3>2 DEF CkTyped
    <3>3. CASE ckSave' = [ckSave EXCEPT !.at = ckSteps[ckSave.at]]
      <4>1. ckSave.at # "idle"
        BY <2>2 DEF CkSaveStep, ckSteps
      <4>2. PICK s \in CkSources, v \in Nat : ckSave.file = content(s, v)
        BY <1>1, <4>1 DEF CkTyped, ckIdle
      <4>3. ckSave'.file = ckSave.file
        BY <3>3
      <4>. QED BY <1>1, <3>1, <4>2, <4>3 DEF CkTyped
    <3>. QED BY <2>2, <3>2, <3>3 DEF CkSaveStep
  <2>3. CASE CkKill \/ UNCHANGED ckVars
    BY <1>1, <2>3 DEF CkKill, ckVars, CkTyped
  <2>. QED BY <2>1, <2>2, <2>3
<1>4. CkTyped'
  BY <1>1, <1>2, <1>3 DEF CkTyped
<1>5. AllInPlace' /\ NewestOrTaken'
  BY <1>1, <1>2 DEF AllInPlace, InPlace, NewestOrTaken
<1>. QED BY <1>4, <1>5 DEF CkInv

\* The rename puts the newest value of its source in place.
LEMMA CkRenameKeeps ==
  ASSUME CkInv, CkRename
  PROVE  CkInv'
<1>1. CkTyped /\ AllInPlace /\ NewestOrTaken
  BY DEF CkInv
<1>2. ckSave.at = "closed"
  BY DEF CkRename
<1>3. PICK o \in CkSources, v \in Nat : ckSave.file = content(o, v)
  <2>1. ckSave # ckIdle
    BY <1>2 DEF ckIdle
  <2>. QED BY <1>1, <2>1 DEF CkTyped
<1>4. PICK f \in Contents : f = ckSave.file
  BY <1>3 DEF Contents
<1>5. f.src = o /\ f.value = v /\ f # noFile
  <2>1. f = [whole |-> TRUE, src |-> o, value |-> v]
    BY <1>3, <1>4 DEF content
  <2>2. f.src = o /\ f.value = v /\ o # <<>>
    BY <2>1, CkConsts
  <2>. QED BY <2>2, ContentFields
<1>6. PICK p \in Paths : p = path(o)
  BY PathIn
<1>7. /\ ckFiles' = [ckFiles EXCEPT ![p] = f] /\ ckOld' = [ckOld EXCEPT ![p] = @ \union {f}]
      /\ ckDone' = [ckDone EXCEPT ![o] = v] /\ ckSave' = ckIdle /\ ckNext' = ckNext
  BY <1>4, <1>5, <1>6 DEF CkRename
<1>8. CkTyped'
  BY <1>1, <1>7 DEF CkTyped
<1>9. /\ ckFiles'[p] = f /\ ckOld'[p] = ckOld[p] \union {f}
      /\ \A q \in Paths : q # p => ckFiles'[q] = ckFiles[q] /\ ckOld'[q] = ckOld[q]
      /\ ckDone'[o] = v /\ \A s \in CkSources : s # o => ckDone'[s] = ckDone[s]
  BY <1>1, <1>7 DEF CkTyped
<1>10. AllInPlace'
  <2>1. InPlace(p, f)
    BY <1>5, <1>6 DEF InPlace
  <2>. SUFFICES ASSUME NEW q \in Paths PROVE InPlace(q, ckFiles'[q]) /\ \A g \in ckOld'[q] : InPlace(q, g)
    BY DEF AllInPlace
  <2>2. InPlace(q, ckFiles[q]) /\ \A g \in ckOld[q] : InPlace(q, g)
    BY <1>1 DEF AllInPlace
  <2>. QED BY <1>9, <2>1, <2>2
<1>11. NewestOrTaken'
  <2>. SUFFICES ASSUME NEW s \in CkSources
       PROVE  /\ ckFiles'[path(s)].src = s => ckFiles'[path(s)].value >= ckDone'[s]
              /\ ckFiles'[path(s)] = noFile => ckDone'[s] = 0
    BY DEF NewestOrTaken
  <2>1. PICK q \in Paths : q = path(s)
    BY PathIn
  <2>2. CASE q = p
    BY <1>5, <1>9, <2>1, <2>2
  <2>3. CASE q # p
    <3>1. s # o
      BY <1>6, <2>1, <2>3
    <3>2. ckFiles'[q] = ckFiles[q] /\ ckDone'[s] = ckDone[s]
      BY <1>9, <2>3, <3>1
    <3>. QED BY <1>1, <2>1, <3>2 DEF NewestOrTaken
  <2>. QED BY <2>2, <2>3
<1>. QED BY <1>8, <1>10, <1>11 DEF CkInv

\* The power cut leaves one of the files renamed over a path, and takes what was saved since.
LEMMA CkPowerCutKeeps ==
  ASSUME CkInv, CkPowerCut
  PROVE  CkInv'
<1>1. CkTyped /\ AllInPlace /\ NewestOrTaken
  BY DEF CkInv
<1>2. PICK f \in [Paths -> UNION {ckOld[p] : p \in Paths}] :
        /\ \A p \in Paths : f[p] \in ckOld[p]
        /\ ckFiles' = f
        /\ ckOld' = [p \in Paths |-> {f[p]}]
        /\ ckDone' = [s \in CkSources |-> IF f[path(s)].value < ckDone[s] THEN f[path(s)].value ELSE ckDone[s]]
  BY DEF CkPowerCut
<1>3. ckSave' = ckIdle /\ ckNext' = ckNext
  BY DEF CkPowerCut
<1>4. \A p \in Paths : f[p] \in Contents /\ f[p].value \in Nat /\ InPlace(p, f[p])
  <2>. SUFFICES ASSUME NEW p \in Paths PROVE f[p] \in Contents /\ InPlace(p, f[p])
    BY ContentFields
  <2>. QED BY <1>1, <1>2 DEF CkTyped, AllInPlace
<1>5. f \in [Paths -> Contents] /\ ckOld' \in [Paths -> SUBSET Contents]
  BY <1>2, <1>4
<1>6. \A s \in CkSources : f[path(s)].value \in Nat /\ ckDone[s] \in Nat
  BY <1>1, <1>4, PathIn DEF CkTyped
<1>7. /\ ckDone' \in [CkSources -> Nat]
      /\ \A s \in CkSources : ckDone'[s] = IF f[path(s)].value < ckDone[s] THEN f[path(s)].value ELSE ckDone[s]
  BY <1>2, <1>6
<1>8. CkTyped'
  BY <1>1, <1>2, <1>3, <1>5, <1>7 DEF CkTyped
<1>9. AllInPlace'
  BY <1>2, <1>4 DEF AllInPlace
<1>10. NewestOrTaken'
  <2>. SUFFICES ASSUME NEW s \in CkSources
       PROVE  f[path(s)].value >= ckDone'[s] /\ (f[path(s)] = noFile => ckDone'[s] = 0)
    BY <1>2 DEF NewestOrTaken
  <2>1. f[path(s)] = noFile => f[path(s)].value = 0
    BY <1>4, PathIn, ContentFields
  <2>. QED BY <1>6, <1>7, <2>1
<1>. QED BY <1>8, <1>9, <1>10 DEF CkInv

LEMMA CkStep == CkInv /\ [CkNext]_ckVars => CkInv'
BY CkQuietKeeps, CkRenameKeeps, CkPowerCutKeeps DEF CkNext

\* Names filed under one name are alike.
LEMMA FiledAlike ==
  ASSUME NEW m \in Seq(CkChars), NEW n \in Seq(CkChars), escape(m) = escape(n)
  PROVE  alike(spelled(m), spelled(n))
<1>. DEFINE a == spelled(m)
            b == spelled(n)
            filed(s) == [i \in DOMAIN s |-> IF s[i] \in CkPlain THEN s[i] ELSE "-"]
<1>1. ASSUME NEW s \in Seq(CkChars)
      PROVE  /\ escape(s) = filed(spelled(s)) /\ DOMAIN spelled(s) = 1 .. Len(spelled(s)) /\ Len(spelled(s)) \in Nat
  <2>1. CASE s = <<>>
    <3>1. spelled(s) = <<"-">> /\ escape(s) = <<"-">>
      BY <2>1 DEF spelled, escape
    <3>2. DOMAIN <<"-">> = 1 .. 1 /\ Len(<<"-">>) = 1 /\ <<"-">>[1] = "-"
      OBVIOUS
    <3>3. filed(<<"-">>) = <<"-">>
      BY <3>2
    <3>. QED BY <3>1, <3>2, <3>3
  <2>2. CASE s # <<>>
    <3>1. spelled(s) = s /\ escape(s) = filed(s)
      BY <2>2 DEF spelled, escape
    <3>. QED BY <3>1
  <2>. QED BY <2>1, <2>2
<1>2. filed(a) = filed(b) /\ DOMAIN a = 1 .. Len(a) /\ DOMAIN b = 1 .. Len(b) /\ Len(a) \in Nat /\ Len(b) \in Nat
  BY <1>1
<1>. HIDE DEF a, b
<1>3. DOMAIN a = DOMAIN b
  <2>1. DOMAIN filed(a) = DOMAIN a /\ DOMAIN filed(b) = DOMAIN b
    OBVIOUS
  <2>. QED BY <1>2, <2>1
<1>4. Len(a) = Len(b)
  <2>1. ASSUME NEW j \in Nat, NEW k \in Nat, 1 .. j = 1 .. k PROVE j <= k
    <3>1. CASE j = 0
      BY <3>1
    <3>2. CASE j # 0
      <4>1. j \in 1 .. j
        BY <3>2
      <4>. QED BY <2>1, <4>1
    <3>. QED BY <3>1, <3>2
  <2>2. Len(a) <= Len(b) /\ Len(b) <= Len(a)
    BY <1>2, <1>3, <2>1
  <2>3. \A j, k \in Nat : j <= k /\ k <= j => j = k
    OBVIOUS
  <2>. QED BY <1>2, <2>2, <2>3, Zenon
<1>5. ASSUME NEW i \in DOMAIN a PROVE a[i] = b[i] \/ {a[i], b[i]} \cap (CkPlain \ {"-"}) = {}
  <2>1. filed(a)[i] = filed(b)[i]
    BY <1>2
  <2>2. (IF a[i] \in CkPlain THEN a[i] ELSE "-") = (IF b[i] \in CkPlain THEN b[i] ELSE "-")
    BY <1>3, <2>1
  <2>. QED BY <2>2
<1>. QED BY <1>4, <1>5 DEF alike, a, b

LEMMA CkHolds == CkInv => LeavesOldOrNew /\ ResumesOwn
<1>. SUFFICES ASSUME CkInv, NEW s \in CkSources
     PROVE  /\ Load(s).whole /\ (Load(s).src \in {s, noFile.src} => Load(s).value >= ckDone[s])
            /\ Load(s) # noFile => \A h \in 1..2 : alike(spelled(Load(s).src[h]), spelled(s[h]))
  BY DEF LeavesOldOrNew, ResumesOwn
<1>1. PICK f \in Contents : f = Load(s)
  BY PathIn DEF Load, CkInv, CkTyped
<1>2. f = ckFiles[path(s)] /\ ckDone[s] \in Nat
  BY <1>1 DEF Load, CkInv, CkTyped
<1>3. f.whole = TRUE /\ f.value \in Nat /\ (f.src = noFile.src => f = noFile)
  BY ContentFields
<1>4. f.src = s \/ f = noFile => f.value >= ckDone[s]
  BY <1>2, <1>3, ContentFields DEF CkInv, NewestOrTaken
<1>5. ASSUME f # noFile, NEW h \in 1 .. 2 PROVE alike(spelled(f.src[h]), spelled(s[h]))
  <2>1. f.src \in CkSources
    BY <1>5, ContentFields
  <2>2. path(f.src) = path(s)
    BY <1>2, <1>5, PathIn DEF CkInv, AllInPlace, InPlace
  <2>3. escape(f.src[1]) = escape(s[1]) /\ escape(f.src[2]) = escape(s[2])
    BY <2>2 DEF path
  <2>4. h = 1 \/ h = 2
    BY <1>5
  <2>. QED BY <2>1, <2>3, <2>4, CkConsts, FiledAlike
<1>. QED BY <1>1, <1>3, <1>4, <1>5

-----------------------------------------------------------------------------
\* A crawl goes on where it stopped, however often it was interrupted: what is not
\* indexed as it is lies ahead of the cursor, and the checkpoint read is the one
\* saved (threadsource, objectsource, checkpoint.go).
THEOREM CrawlsGoOn == CrawlSpec => []CrawlsResume
<1>1. TsInv /\ OsInv /\ CkInv => CrawlsResume
  BY TsHolds, OsHolds, CkHolds DEF CrawlsResume
<1>2. TsSpec => []TsInv
  BY TsInitInv, TsStep, PTL DEF TsSpec
<1>3. OsSpec => []OsInv
  BY OsInitInv, OsStep, PTL DEF OsSpec
<1>4. CkSpec => []CkInv
  BY CkInitInv, CkStep, PTL DEF CkSpec
<1>. QED BY <1>1, <1>2, <1>3, <1>4, PTL DEF CrawlSpec

\* A document is dropped only when its object is gone, whatever the store answers
\* (apiError.gone), and only the sweep drops one.
THEOREM OnlyTheGoneAreDropped == OsSpec => DropsOnlyGone
<1>1. OsInv /\ [OsNext]_osVars =>
        [\A k \in OsKeys : osIdx[k].ver # 0 /\ osIdx'[k].ver = 0 => osObj[k].tag = 0]_osVars
  <2>. SUFFICES ASSUME OsInv, OsNext, NEW k \in OsKeys, osIdx[k].ver # 0, osIdx'[k].ver = 0
       PROVE  osObj[k].tag = 0
    OBVIOUS
  <2>1. OsTyped /\ OsClocked
    BY DEF OsInv
  <2>2. CASE osIdx' = osIdx
    BY <2>2
  <2>3. CASE \E w \in OsKeys, a \in {"ok", "NoSuchKey", "NoSuchBucket"} : OsFetch(w, a)
    BY <2>1, <2>3, FetchDone
  <2>4. CASE \E b, c \in BOOLEAN : OsObject(b, c)
    BY <2>4, ObjectDone
  <2>5. CASE \/ \E w \in OsKeys, b \in BOOLEAN : OsWrite(w, b)
             \/ OsRewriteList \/ OsTick \/ OsSync \/ OsList \/ OsFinish \/ OsFail \/ OsRestart
    <3>1. osIdx' = osIdx
      BY <2>5 DEF OsWrite, OsRewriteList, OsTick, OsSync, OsList, OsFinish, OsFail, OsRestart, osKeepsSource
    <3>. QED BY <2>2, <3>1
  <2>. QED BY <2>3, <2>4, <2>5 DEF OsNext
<1>. QED BY <1>1, OsInitInv, OsStep, PTL DEF OsSpec, DropsOnlyGone

-----------------------------------------------------------------------------
(* Permissions: the descriptor says what the statements folded into it     *)
(* said, whatever order they came in.                                      *)

\* The statements about reading, one effect and one kind of subject at a time.
Told(effect, subject) == {g \in amReading : g.effect = effect /\ g.subject = subject}
Named(effect, subject) == {ref(g) : g \in Told(effect, subject)}
OpensTo(g) == (g.subject = "domain" /\ g.id \in AmDomains) \/ (g.subject = "anyone" /\ (~g.link \/ AmLink))
Mappable(g) ==
  /\ ~malformed(g)
  /\ g \in amReading /\ g.subject = "domain" => g.effect = "allow" /\ g.id \in AmDomains
  /\ g \in amReading /\ g.subject = "anyone" => g.effect = "allow"

AmBuilds ==
  /\ amPerm.mode \in {"acl", "public"}
  /\ amPerm.mode = "public" <=> \E g \in amReading : g.effect = "allow" /\ OpensTo(g)
  /\ amPerm.denyUsers = Named("deny", "user") /\ amPerm.denyGroups = Named("deny", "group")
  /\ amPerm.allowGroups = Named("allow", "group")
  /\ amPerm.allowUsers \union ({amPerm.owner} \ {Nobody}) = Named("allow", "user")

AmInv ==
  /\ amPerm \in AmPerms /\ amGiven \in Seq(AmGrants) /\ amDone \in {"no", "mapped", "quarantined"}
  /\ amDone = "no" => AmBuilds /\ \A g \in amSaid : Mappable(g)
  /\ amDone # "no" => MapsFaithfully /\ QuarantinesUnmappable

LEMMA About ==
  ASSUME AmAssumption, NEW g \in AmGrants, NEW p
  PROVE /\ g.subject = "user" => (amAbout(g, p) <=> UserKey(ref(g)) \in UserKeys(p))
        /\ g.subject = "group" => (amAbout(g, p) <=> GroupKey(ref(g)) \in GroupKeys(p))
        /\ g.subject = "domain" => (amAbout(g, p) <=> g.id \in AmDomains)
        /\ g.subject = "anyone" => (amAbout(g, p) <=> ~g.link \/ AmLink)
<1> USE DEF amAbout
<1>1. CASE g.subject = "user" BY <1>1 DEF matchesUser
<1>2. CASE g.subject = "group" BY <1>2 DEF matchesGroup
<1>3. CASE g.subject = "domain" BY <1>3
<1>4. CASE g.subject = "anyone" BY <1>4
<1> QED BY <1>1, <1>2, <1>3, <1>4, AmAssumption DEF AmAssumption

\* A refusal is in the descriptor when one was made about the reader.
LEMMA Refuses ==
  ASSUME AmAssumption, AmBuilds, amSaid \subseteq AmGrants, \A g \in amSaid : Mappable(g), NEW p
  PROVE matchesUser(p, amPerm.denyUsers) \/ matchesGroup(p, amPerm.denyGroups)
          <=> \E g \in amReading : g.effect = "deny" /\ amAbout(g, p)
<1>1. ASSUME NEW g \in amReading, g.effect = "deny", amAbout(g, p)
      PROVE matchesUser(p, amPerm.denyUsers) \/ matchesGroup(p, amPerm.denyGroups)
  <2>1. g \in AmGrants /\ Mappable(g) BY <1>1 DEF amReading
  <2>2. g.subject \in {"user", "group"} BY <2>1, <1>1, AmAssumption DEF Mappable, AmAssumption
  <2>3. CASE g.subject = "user"
    <3>1. ref(g) \in amPerm.denyUsers BY <1>1, <2>3 DEF AmBuilds, Named, Told
    <3> QED BY <3>1, <2>3, <2>1, <1>1, About DEF matchesUser
  <2>4. CASE g.subject = "group"
    <3>1. ref(g) \in amPerm.denyGroups BY <1>1, <2>4 DEF AmBuilds, Named, Told
    <3> QED BY <3>1, <2>4, <2>1, <1>1, About DEF matchesGroup
  <2> QED BY <2>2, <2>3, <2>4
<1>2. ASSUME NEW r \in amPerm.denyUsers, UserKey(r) \in UserKeys(p)
      PROVE \E g \in amReading : g.effect = "deny" /\ amAbout(g, p)
  <2>1. PICK g \in amReading : g.effect = "deny" /\ g.subject = "user" /\ r = ref(g)
    BY <1>2 DEF AmBuilds, Named, Told
  <2> QED BY <2>1, <1>2, About DEF amReading
<1>3. ASSUME NEW r \in amPerm.denyGroups, GroupKey(r) \in GroupKeys(p)
      PROVE \E g \in amReading : g.effect = "deny" /\ amAbout(g, p)
  <2>1. PICK g \in amReading : g.effect = "deny" /\ g.subject = "group" /\ r = ref(g)
    BY <1>3 DEF AmBuilds, Named, Told
  <2> QED BY <2>1, <1>3, About DEF amReading
<1> QED BY <1>1, <1>2, <1>3 DEF matchesUser, matchesGroup

\* A reader is let in when a grant was made about them.
LEMMA Grants ==
  ASSUME AmAssumption, AmBuilds, amSaid \subseteq AmGrants, \A g \in amSaid : Mappable(g), NEW p
  PROVE isOwner(amPerm, p) \/ amPerm.mode = "public" \/ matchesUser(p, amPerm.allowUsers) \/ matchesGroup(p, amPerm.allowGroups)
          <=> \E g \in amReading : g.effect = "allow" /\ amAbout(g, p)
<1>1. ASSUME NEW g \in amReading, g.effect = "allow", amAbout(g, p)
      PROVE isOwner(amPerm, p) \/ amPerm.mode = "public" \/ matchesUser(p, amPerm.allowUsers) \/ matchesGroup(p, amPerm.allowGroups)
  <2>1. g \in AmGrants /\ Mappable(g) BY <1>1 DEF amReading
  <2>2. CASE g.subject = "user"
    <3>1. ref(g) \in amPerm.allowUsers \/ ref(g) = amPerm.owner BY <1>1, <2>2 DEF AmBuilds, Named, Told
    <3>2. ref(g).value # "" BY <2>1, <2>2 DEF Mappable, malformed, ref
    <3>3. UserKey(ref(g)) \in UserKeys(p) BY <2>2, <2>1, <1>1, About
    <3> QED BY <3>1, <3>2, <3>3 DEF matchesUser, isOwner
  <2>3. CASE g.subject = "group"
    <3>1. ref(g) \in amPerm.allowGroups BY <1>1, <2>3 DEF AmBuilds, Named, Told
    <3> QED BY <3>1, <2>3, <2>1, <1>1, About DEF matchesGroup
  <2>4. CASE g.subject \in {"domain", "anyone"}
    <3>1. OpensTo(g) BY <2>4, <2>1, <1>1, About DEF OpensTo
    <3> QED BY <3>1, <1>1 DEF AmBuilds
  <2> QED BY <2>1, <2>2, <2>3, <2>4, AmAssumption DEF AmAssumption
<1>2. ASSUME NEW r \in amPerm.allowUsers \union ({amPerm.owner} \ {Nobody}), UserKey(r) \in UserKeys(p)
      PROVE \E g \in amReading : g.effect = "allow" /\ amAbout(g, p)
  <2>1. PICK g \in amReading : g.effect = "allow" /\ g.subject = "user" /\ r = ref(g)
    BY <1>2 DEF AmBuilds, Named, Told
  <2> QED BY <2>1, <1>2, About DEF amReading
<1>3. ASSUME NEW r \in amPerm.allowGroups, GroupKey(r) \in GroupKeys(p)
      PROVE \E g \in amReading : g.effect = "allow" /\ amAbout(g, p)
  <2>1. PICK g \in amReading : g.effect = "allow" /\ g.subject = "group" /\ r = ref(g)
    BY <1>3 DEF AmBuilds, Named, Told
  <2> QED BY <2>1, <1>3, About DEF amReading
<1>4. ASSUME amPerm.mode = "public" PROVE \E g \in amReading : g.effect = "allow" /\ amAbout(g, p)
  <2>1. PICK g \in amReading : g.effect = "allow" /\ OpensTo(g) BY <1>4 DEF AmBuilds
  <2>2. g \in AmGrants BY <2>1 DEF amReading
  <2> QED BY <2>1, <2>2, About DEF OpensTo
<1>5. isOwner(amPerm, p) => amPerm.owner # Nobody /\ UserKey(amPerm.owner) \in UserKeys(p)
  <2>1. Nobody.value = "" BY DEF Nobody
  <2> QED BY <2>1 DEF isOwner, matchesUser
<1> QED BY <1>1, <1>2, <1>3, <1>4, <1>5 DEF matchesUser, matchesGroup

LEMMA BuildsRight ==
  ASSUME AmAssumption, AmBuilds, amSaid \subseteq AmGrants, \A g \in amSaid : Mappable(g), NEW p \in AmReaders
  PROVE Allows(amPerm, p) <=> amMayRead(p)
<1>1. amPerm.mode \in {"acl", "public"} BY DEF AmBuilds
<1>2. p # None BY AmAssumption DEF AmAssumption
<1> HIDE DEF AmBuilds
<1> QED BY <1>1, <1>2, Refuses, Grants DEF Allows, Decide, amMayRead

\* An owner alone is the owner's only, and nobody else was let in before.
LEMMA OwnersRight ==
  ASSUME amPerm \in AmPerms, amPerm.allowUsers = {}, amPerm.allowGroups = {}, amPerm.mode = "acl",
         NEW p, p # None
  PROVE Allows([amPerm EXCEPT !.mode = "owner"], p) <=> Allows(amPerm, p)
BY DEF Allows, Decide, isOwner, matchesUser, matchesGroup, AmPerms
LEMMA AmConsts == AmAssumption /\ AmNone
BY AmAssumption, AmNone

LEMMA Says ==
  ASSUME NEW g \in AmGrants, amGiven \in Seq(AmGrants), amGiven' = Append(amGiven, g)
  PROVE /\ amGiven' \in Seq(AmGrants) /\ amSaid' = amSaid \union {g} /\ amSaid \subseteq AmGrants
        /\ amReading' = IF confers(g.role) THEN amReading \union {g} ELSE amReading
<1>1. amGiven' \in Seq(AmGrants) /\ DOMAIN amGiven' = 1 .. (Len(amGiven) + 1) /\ DOMAIN amGiven = 1 .. Len(amGiven)
      /\ Len(amGiven) \in Nat
  OBVIOUS
<1>2. \A i \in 1 .. Len(amGiven) : amGiven'[i] = amGiven[i] OBVIOUS
<1>3. amGiven'[Len(amGiven) + 1] = g OBVIOUS
<1>4. \A i \in 1 .. Len(amGiven) : amGiven[i] \in AmGrants OBVIOUS
<1>5. amSaid' = amSaid \union {g}
  <2>1. ASSUME NEW h \in amSaid' PROVE h \in amSaid \union {g} BY <2>1, <1>1, <1>2, <1>3 DEF amSaid
  <2>2. ASSUME NEW h \in amSaid PROVE h \in amSaid' BY <2>2, <1>1, <1>2 DEF amSaid
  <2>3. g \in amSaid' BY <1>1, <1>3 DEF amSaid
  <2> QED BY <2>1, <2>2, <2>3
<1>6. amSaid \subseteq AmGrants BY <1>1, <1>4 DEF amSaid
<1>7. amReading' = {h \in amSaid' : confers(h.role)} /\ amReading = {h \in amSaid : confers(h.role)}
  BY DEF amReading, confers
<1>8. amReading' = IF confers(g.role) THEN amReading \union {g} ELSE amReading BY <1>5, <1>7
<1> QED BY <1>1, <1>5, <1>6, <1>8

LEMMA NamedOne ==
  ASSUME NEW g \in AmGrants, NEW e, NEW s,
         amReading' = IF confers(g.role) THEN amReading \union {g} ELSE amReading
  PROVE Named(e, s)' = IF confers(g.role) /\ g.effect = e /\ g.subject = s
                       THEN Named(e, s) \union {ref(g)} ELSE Named(e, s)
<1>1. Named(e, s)' = {ref(h) : h \in {x \in amReading' : x.effect = e /\ x.subject = s}} BY DEF Named, Told, ref
<1>2. Named(e, s) = {ref(h) : h \in {x \in amReading : x.effect = e /\ x.subject = s}} BY DEF Named, Told, ref
<1>3. CASE confers(g.role) /\ g.effect = e /\ g.subject = s
  <2>1. {x \in amReading' : x.effect = e /\ x.subject = s} = {x \in amReading : x.effect = e /\ x.subject = s} \union {g}
    BY <1>3
  <2> QED BY <2>1, <1>1, <1>2, <1>3
<1>4. CASE ~(confers(g.role) /\ g.effect = e /\ g.subject = s)
  <2>1. {x \in amReading' : x.effect = e /\ x.subject = s} = {x \in amReading : x.effect = e /\ x.subject = s}
    BY <1>4
  <2> QED BY <2>1, <1>1, <1>2, <1>4
<1> QED BY <1>3, <1>4

\* What apply makes of a descriptor, kind by kind.
LEMMA Applies ==
  ASSUME AmAssumption, AmNone, NEW g \in AmGrants, NEW p \in AmPerms
  PROVE LET q == apply(p, g) IN
        \/ /\ q = None
           /\ \/ malformed(g)
              \/ confers(g.role) /\ g.effect = "deny" /\ g.subject \in {"domain", "anyone"}
              \/ confers(g.role) /\ g.effect = "allow" /\ g.subject = "domain" /\ g.id \notin AmDomains
        \/ /\ q = p /\ ~malformed(g)
           /\ \/ ~confers(g.role)
              \/ g.effect = "allow" /\ g.subject = "anyone" /\ ~OpensTo(g)
        \/ /\ q = [p EXCEPT !.denyUsers = @ \union {ref(g)}]
           /\ ~malformed(g) /\ confers(g.role) /\ g.effect = "deny" /\ g.subject = "user"
        \/ /\ q = [p EXCEPT !.denyGroups = @ \union {ref(g)}]
           /\ ~malformed(g) /\ confers(g.role) /\ g.effect = "deny" /\ g.subject = "group"
        \/ /\ q = [p EXCEPT !.owner = ref(g)] /\ p.owner = Nobody
           /\ ~malformed(g) /\ confers(g.role) /\ g.effect = "allow" /\ g.subject = "user"
        \/ /\ q = [p EXCEPT !.allowUsers = @ \union {ref(g)}]
           /\ ~malformed(g) /\ confers(g.role) /\ g.effect = "allow" /\ g.subject = "user"
        \/ /\ q = [p EXCEPT !.allowGroups = @ \union {ref(g)}]
           /\ ~malformed(g) /\ confers(g.role) /\ g.effect = "allow" /\ g.subject = "group"
        \/ /\ q = [p EXCEPT !.mode = "public"]
           /\ ~malformed(g) /\ confers(g.role) /\ g.effect = "allow" /\ OpensTo(g)
<1>1. /\ g.subject \in {"user", "group", "domain", "anyone"} /\ g.effect \in {"allow", "deny"}
  BY DEF AmAssumption
<1>2. CASE malformed(g) BY <1>2 DEF apply
<1>3. CASE ~malformed(g) /\ ~confers(g.role) BY <1>3 DEF apply
<1>4. CASE ~malformed(g) /\ confers(g.role) /\ g.effect = "deny"
  <2>1. apply(p, g) = deny(p, g) BY <1>4 DEF apply
  <2>2. CASE g.subject = "user" BY <2>1, <2>2, <1>4 DEF deny
  <2>3. CASE g.subject = "group" BY <2>1, <2>3, <1>4 DEF deny
  <2>4. CASE g.subject \in {"domain", "anyone"} BY <2>1, <2>4, <1>4 DEF deny
  <2> QED BY <2>2, <2>3, <2>4, <1>1
<1>5. CASE ~malformed(g) /\ confers(g.role) /\ g.effect = "allow"
  <2>1. apply(p, g) = allow(p, g) BY <1>5 DEF apply
  <2>2. CASE g.subject = "user" BY <2>1, <2>2, <1>5 DEF allow
  <2>3. CASE g.subject = "group" BY <2>1, <2>3, <1>5 DEF allow
  <2>4. CASE g.subject = "domain" BY <2>1, <2>4, <1>5 DEF allow, widen, OpensTo
  <2>5. CASE g.subject = "anyone" BY <2>1, <2>5, <1>5 DEF allow, anyone, widen, OpensTo
  <2> QED BY <2>2, <2>3, <2>4, <2>5, <1>1
<1> QED BY <1>1, <1>2, <1>3, <1>4, <1>5
LEMMA MappableStill ==
  ASSUME NEW g \in AmGrants, amSaid' = amSaid \union {g},
         amReading' = IF confers(g.role) THEN amReading \union {g} ELSE amReading,
         \A h \in amSaid : Mappable(h),
         ~malformed(g),
         confers(g.role) /\ g.subject = "domain" => g.effect = "allow" /\ g.id \in AmDomains,
         confers(g.role) /\ g.subject = "anyone" => g.effect = "allow"
  PROVE (\A h \in amSaid : Mappable(h))'
<1>1. ASSUME NEW h \in amSaid' PROVE Mappable(h)'
  <2>1. (h \in amReading)' => confers(h.role) BY DEF amReading, confers
  <2>2. CASE h = g BY <2>1, <2>2 DEF Mappable, malformed
  <2>3. CASE h # g
    <3>1. h \in amSaid /\ Mappable(h) BY <2>3
    <3>2. (h \in amReading)' => h \in amReading BY <2>3
    <3> QED BY <3>1, <3>2 DEF Mappable, malformed
  <2> QED BY <2>2, <2>3
<1> QED BY <1>1

LEMMA BuildsStill ==
  ASSUME AmAssumption, AmNone, NEW g \in AmGrants, amPerm \in AmPerms, AmBuilds,
         amReading' = IF confers(g.role) THEN amReading \union {g} ELSE amReading,
         amPerm' = apply(amPerm, g), amPerm' # None
  PROVE AmBuilds' /\ amPerm' \in AmPerms
<1> DEFINE r == ref(g)
<1>0. r \in Refs /\ r # Nobody BY DEF ref, Refs, Nobody
<1>1. \A e, s : Named(e, s)' = IF confers(g.role) /\ g.effect = e /\ g.subject = s
                               THEN Named(e, s) \union {r} ELSE Named(e, s)
  BY NamedOne
<1>2. (\E h \in amReading : h.effect = "allow" /\ OpensTo(h))'
        <=> (\E h \in amReading : h.effect = "allow" /\ OpensTo(h)) \/ (confers(g.role) /\ g.effect = "allow" /\ OpensTo(g))
  BY DEF OpensTo
<1>3. OpensTo(g) => g.subject \in {"domain", "anyone"} BY DEF OpensTo
<1>4. amPerm \in [mode: Modes, owner: Refs, allowUsers: SUBSET Refs, allowGroups: SUBSET Refs,
                  denyUsers: SUBSET Refs, denyGroups: SUBSET Refs]
  BY DEF AmPerms
<1> DEFINE DU == Named("deny", "user")  DG == Named("deny", "group")
           AU == Named("allow", "user")  AG == Named("allow", "group")
           Opened == \E h \in amReading : h.effect = "allow" /\ OpensTo(h)
<1>5. /\ amPerm.mode \in {"acl", "public"} /\ (amPerm.mode = "public" <=> Opened)
      /\ amPerm.denyUsers = DU /\ amPerm.denyGroups = DG /\ amPerm.allowGroups = AG
      /\ amPerm.allowUsers \union ({amPerm.owner} \ {Nobody}) = AU
  BY DEF AmBuilds
<1>6. AmBuilds' <=>
        /\ amPerm'.mode \in {"acl", "public"} /\ (amPerm'.mode = "public" <=> Opened')
        /\ amPerm'.denyUsers = DU' /\ amPerm'.denyGroups = DG' /\ amPerm'.allowGroups = AG'
        /\ amPerm'.allowUsers \union ({amPerm'.owner} \ {Nobody}) = AU'
  BY DEF AmBuilds
<1>7. /\ DU' = (IF confers(g.role) /\ g.effect = "deny" /\ g.subject = "user" THEN DU \union {r} ELSE DU)
      /\ DG' = (IF confers(g.role) /\ g.effect = "deny" /\ g.subject = "group" THEN DG \union {r} ELSE DG)
      /\ AU' = (IF confers(g.role) /\ g.effect = "allow" /\ g.subject = "user" THEN AU \union {r} ELSE AU)
      /\ AG' = (IF confers(g.role) /\ g.effect = "allow" /\ g.subject = "group" THEN AG \union {r} ELSE AG)
  BY <1>1
<1>8. Opened' <=> Opened \/ (confers(g.role) /\ g.effect = "allow" /\ OpensTo(g)) BY <1>2
<1>9. "public" \in Modes BY DEF Modes
<1> HIDE DEF DU, DG, AU, AG, Opened, r
<1>a. CASE /\ amPerm' = amPerm /\ (~confers(g.role) \/ (g.effect = "allow" /\ g.subject = "anyone" /\ ~OpensTo(g)))
  BY <1>a, <1>5, <1>6, <1>7, <1>8
<1>b. CASE /\ amPerm' = [amPerm EXCEPT !.denyUsers = @ \union {r}]
           /\ confers(g.role) /\ g.effect = "deny" /\ g.subject = "user"
  BY <1>b, <1>0, <1>3, <1>4, <1>5, <1>6, <1>7, <1>8 DEF AmPerms
<1>c. CASE /\ amPerm' = [amPerm EXCEPT !.denyGroups = @ \union {r}]
           /\ confers(g.role) /\ g.effect = "deny" /\ g.subject = "group"
  BY <1>c, <1>0, <1>3, <1>4, <1>5, <1>6, <1>7, <1>8 DEF AmPerms
<1>d. CASE /\ amPerm' = [amPerm EXCEPT !.owner = r] /\ amPerm.owner = Nobody
           /\ confers(g.role) /\ g.effect = "allow" /\ g.subject = "user"
  BY <1>d, <1>0, <1>3, <1>4, <1>5, <1>6, <1>7, <1>8 DEF AmPerms
<1>e. CASE /\ amPerm' = [amPerm EXCEPT !.allowUsers = @ \union {r}]
           /\ confers(g.role) /\ g.effect = "allow" /\ g.subject = "user"
  BY <1>e, <1>0, <1>3, <1>4, <1>5, <1>6, <1>7, <1>8 DEF AmPerms
<1>f. CASE /\ amPerm' = [amPerm EXCEPT !.allowGroups = @ \union {r}]
           /\ confers(g.role) /\ g.effect = "allow" /\ g.subject = "group"
  BY <1>f, <1>0, <1>3, <1>4, <1>5, <1>6, <1>7, <1>8 DEF AmPerms
<1>g. CASE /\ amPerm' = [amPerm EXCEPT !.mode = "public"]
           /\ confers(g.role) /\ g.effect = "allow" /\ OpensTo(g)
  BY <1>g, <1>0, <1>3, <1>4, <1>5, <1>6, <1>7, <1>8, <1>9 DEF AmPerms
<1> QED BY <1>a, <1>b, <1>c, <1>d, <1>e, <1>f, <1>g, Applies DEF r

LEMMA AmApplyKeeps ==
  ASSUME AmInv, NEW g \in AmGrants, AmApply(g)
  PROVE AmInv'
<1>0. AmAssumption /\ AmNone BY AmConsts
<1>1. /\ amPerm \in AmPerms /\ amGiven \in Seq(AmGrants) /\ amDone = "no" /\ AmBuilds
      /\ (\A h \in amSaid : Mappable(h)) /\ amGiven' = Append(amGiven, g)
  BY DEF AmInv, AmApply
<1>2. /\ amGiven' \in Seq(AmGrants) /\ amSaid' = amSaid \union {g} /\ amSaid \subseteq AmGrants
      /\ amReading' = IF confers(g.role) THEN amReading \union {g} ELSE amReading
  BY <1>1, Says
<1>3. CASE apply(amPerm, g) = None
  <2>1. amDone' = "quarantined" /\ amPerm' = [amNothing EXCEPT !.mode = "unknown"] BY <1>3 DEF AmApply
  <2>2. amPerm' \in AmPerms BY <2>1 DEF AmPerms, amNothing, Modes, Refs
  <2>3. amPerm'.mode = "unknown" BY <2>1 DEF amNothing
  <2>4. (\A p \in AmReaders : ~Allows(amPerm, p))' BY <2>3 DEF Allows, Decide
  <2>5. MapsFaithfully' /\ QuarantinesUnmappable' BY <2>1, <2>4 DEF MapsFaithfully, QuarantinesUnmappable
  <2> QED BY <1>2, <2>1, <2>2, <2>5 DEF AmInv
<1>4. CASE apply(amPerm, g) # None
  <2>1. amDone' = "no" /\ amPerm' = apply(amPerm, g) BY <1>4 DEF AmApply
  <2>2. AmBuilds' /\ amPerm' \in AmPerms BY <1>0, <1>1, <1>2, <1>4, <2>1, BuildsStill
  <2>3. /\ ~malformed(g)
        /\ confers(g.role) /\ g.subject = "domain" => g.effect = "allow" /\ g.id \in AmDomains
        /\ confers(g.role) /\ g.subject = "anyone" => g.effect = "allow"
    BY <1>0, <1>1, <1>4, Applies DEF OpensTo
  <2>4. (\A h \in amSaid : Mappable(h))' BY <1>1, <1>2, <2>3, MappableStill
  <2> QED BY <1>2, <2>1, <2>2, <2>4 DEF AmInv
<1> QED BY <1>3, <1>4

LEMMA AmNormalizeKeeps ==
  ASSUME AmInv, AmNormalize
  PROVE AmInv'
<1>0. AmAssumption /\ AmNone BY AmConsts
<1>1. /\ amPerm \in AmPerms /\ amGiven \in Seq(AmGrants) /\ AmBuilds /\ (\A h \in amSaid : Mappable(h))
      /\ amGiven' = amGiven /\ amDone' = "mapped"
  BY DEF AmInv, AmNormalize
<1>2. amSaid \subseteq AmGrants /\ amSaid' = amSaid /\ amReading' = amReading BY <1>1 DEF amSaid, amReading
<1>3. \A p \in AmReaders : Allows(amPerm', p) <=> Allows(amPerm, p)
  BY <1>0, <1>1, OwnersRight DEF AmNormalize, AmAssumption
<1>4. amPerm' \in AmPerms BY <1>1 DEF AmNormalize, AmPerms, Modes
<1>5. \A p \in AmReaders : Allows(amPerm, p) <=> amMayRead(p) BY <1>0, <1>1, <1>2, BuildsRight
<1>6. \A p \in AmReaders : amMayRead(p)' <=> amMayRead(p) BY <1>2 DEF amMayRead, amAbout
<1>7. MapsFaithfully' BY <1>3, <1>5, <1>6 DEF MapsFaithfully, Allows, Decide
<1>8. (\A h \in amSaid : Mappable(h))' BY <1>1, <1>2 DEF Mappable
<1>9. QuarantinesUnmappable' BY <1>1, <1>8 DEF QuarantinesUnmappable, Mappable
<1> QED BY <1>1, <1>4, <1>7, <1>9 DEF AmInv

LEMMA AmInitInv == AmInit => AmInv
<1> SUFFICES ASSUME AmInit PROVE AmInv
  OBVIOUS
<1>1. amSaid = {} /\ amReading = {} BY DEF AmInit, amSaid, amReading
<1>2. \A e, s : Named(e, s) = {} BY <1>1 DEF Named, Told
<1>3. amPerm \in AmPerms BY DEF AmInit, amNothing, AmPerms, Modes, Refs
<1>4. AmBuilds
  <2> HIDE DEF Named
  <2> QED BY <1>1, <1>2 DEF AmBuilds, AmInit, amNothing
<1> QED BY <1>1, <1>3, <1>4 DEF AmInv, AmInit

LEMMA AmStep == AmInv /\ [AmNext]_amVars => AmInv'
<1> SUFFICES ASSUME AmInv, [AmNext]_amVars PROVE AmInv'
  OBVIOUS
<1>1. CASE UNCHANGED amVars
  <2>1. amPerm' = amPerm /\ amGiven' = amGiven /\ amDone' = amDone /\ amSaid' = amSaid /\ amReading' = amReading
    BY <1>1 DEF amVars, amSaid, amReading
  <2>2. AmBuilds' <=> AmBuilds BY <2>1 DEF AmBuilds, Named, Told
  <2>3. (\A h \in amSaid : Mappable(h))' <=> (\A h \in amSaid : Mappable(h)) BY <2>1 DEF Mappable
  <2>4. MapsFaithfully' <=> MapsFaithfully BY <2>1 DEF MapsFaithfully, amMayRead, amAbout
  <2>5. QuarantinesUnmappable' <=> QuarantinesUnmappable BY <2>1 DEF QuarantinesUnmappable
  <2> QED BY <2>1, <2>2, <2>3, <2>4, <2>5 DEF AmInv
<1> QED BY <1>1, AmApplyKeeps, AmNormalizeKeeps DEF AmNext

LEMMA AmHolds == AmInv => MapsFaithfully /\ QuarantinesUnmappable
BY DEF AmInv, MapsFaithfully, QuarantinesUnmappable
-----------------------------------------------------------------------------
(* Jira: a level is served to a membership it had, or to nobody.           *)

\* The rules a level may resolve to: a membership it had and that names people
\* alone, or a quarantine.
Resolved ==
  {Quarantine} \union {{h.who : h \in m} : m \in {x \in jrPast : x # {} /\ \A h \in x : h.type # "role"}}
JrInv ==
  /\ jrLevel \in jrPast
  /\ jrCache # <<>> => jrCache[1] \in Resolved
  /\ \A k \in DOMAIN jrIdx : jrIdx[k].secured => jrIdx[k].rule \in Resolved
  /\ RuleNeverWider

LEMMA ResolvesRight ==
  ASSUME JrInv, NEW fails
  PROVE level(fails) \in Resolved
<1>1. resolve(fails) \in Resolved BY DEF resolve, Resolved, JrInv
<1> QED BY <1>1 DEF level, JrInv

LEMMA BuildsSecured ==
  ASSUME JrInv, NEW is, NEW end, NEW cap, NEW fails, jrBuild(is, end, cap, fails).secured
  PROVE jrBuild(is, end, cap, fails).rule \in Resolved
<1>1. is.secured BY DEF jrBuild
<1> QED BY <1>1, ResolvesRight DEF jrBuild

\* A step that only adds memberships, and leaves what is resolved and filed alone.
LEMMA JrQuiet ==
  ASSUME JrInv, jrPast \subseteq jrPast', jrLevel' \in jrPast', UNCHANGED <<jrCache, jrIdx, jrRule>>
  PROVE JrInv'
<1>1. Resolved \subseteq Resolved' BY DEF Resolved
<1>2. RuleNeverWider' BY DEF JrInv, RuleNeverWider
<1> QED BY <1>1, <1>2 DEF JrInv

\* A step that builds some issues and files them.
LEMMA JrFiles ==
  ASSUME JrInv, UNCHANGED <<jrPast, jrLevel, jrRule>>, NEW S, NEW fails, jrAsks(S, fails),
         \A k \in DOMAIN jrIdx' : jrIdx'[k].secured => jrIdx'[k].rule \in Resolved
  PROVE JrInv'
<1>1. Resolved' = Resolved BY DEF Resolved
<1>2. RuleNeverWider' BY DEF JrInv, RuleNeverWider
<1>3. jrCache' # <<>> => jrCache'[1] \in Resolved
  BY ResolvesRight DEF jrAsks, JrInv
<1>4. jrLevel' \in jrPast' BY DEF JrInv
<1> QED BY <1>1, <1>2, <1>3, <1>4 DEF JrInv

LEMMA JrPageKeeps ==
  ASSUME JrInv, NEW fails, JrPageOf(fails)
  PROVE JrInv'
<1>1. UNCHANGED <<jrPast, jrLevel, jrRule>> BY DEF JrPageOf, jrSite
<1>2. PICK fresh :
        /\ jrIdx' = IF jrWalk.kind = "list" THEN jrIdx
                    ELSE [k \in DOMAIN jrIdx \union fresh |->
                            IF k \in fresh THEN jrBuild(jrIssue[k], jrWalk.end, jrWalk.cap, fails) ELSE jrIdx[k]]
        /\ jrAsks(fresh, fails)
  BY DEF JrPageOf
<1>3. \A k \in DOMAIN jrIdx' : jrIdx'[k].secured => jrIdx'[k].rule \in Resolved
  BY <1>2, BuildsSecured DEF JrInv
<1> QED BY <1>1, <1>2, <1>3, JrFiles

LEMMA JrDoneKeeps ==
  ASSUME JrInv, NEW fails, JrDone(fails)
  PROVE JrInv'
<1>1. UNCHANGED <<jrPast, jrLevel, jrRule>> BY DEF JrDone, jrSite
<1>2. CASE jrWalk.kind = "list"
  <2>1. PICK stale, kept :
          /\ kept \subseteq DOMAIN jrIdx
          /\ jrIdx' = [k \in kept \union stale |->
                         IF k \in stale THEN jrBuild(jrIssue[k], jrWalk.end, jrWalk.cap, fails) ELSE jrIdx[k]]
          /\ jrAsks(stale, fails)
    <3> DEFINE stale == {k \in DOMAIN jrWalk.out \intersect DOMAIN jrIssue : k \notin DOMAIN jrIdx \/ jrIdx[k].updated # jrWalk.out[k]}
               kept == (DOMAIN jrIdx \intersect DOMAIN jrWalk.out) \ stale
    <3>1. kept \subseteq DOMAIN jrIdx OBVIOUS
    <3>2. /\ jrIdx' = [k \in kept \union stale |->
                         IF k \in stale THEN jrBuild(jrIssue[k], jrWalk.end, jrWalk.cap, fails) ELSE jrIdx[k]]
          /\ jrAsks(stale, fails)
      BY <1>2 DEF JrDone
    <3> HIDE DEF stale, kept
    <3> QED BY <3>1, <3>2
  <2>2. \A k \in DOMAIN jrIdx' : jrIdx'[k].secured => jrIdx'[k].rule \in Resolved
    BY <2>1, BuildsSecured DEF JrInv
  <2> QED BY <1>1, <2>1, <2>2, JrFiles
<1>3. CASE jrWalk.kind # "list"
  BY <1>1, <1>3, JrQuiet DEF JrDone, JrInv
<1> QED BY <1>2, <1>3

LEMMA JrContainersKeeps ==
  ASSUME JrNames, jrScheme \in JrSchemes, JrInv, NEW refused, NEW roleFails, JrContainers(refused, roleFails)
  PROVE JrInv'
<1>1. UNCHANGED <<jrPast, jrLevel, jrCache, jrIdx>> BY DEF JrContainers, jrSite
<1> DEFINE browse == {g \in jrScheme : g.permit = "browse"}
           roles == IF \E g \in browse : g.type = "projectRole" THEN JrRole ELSE {}
           people == {g.who : g \in browse} \union roles
           who == UNION {IF g.type = "projectRole" THEN (IF roleFails THEN {} ELSE JrRole) ELSE {g.who} : g \in browse}
           rule == jrAccess(refused, roleFails)
<1>2. who \subseteq people
  <2>1. ASSUME NEW x \in who PROVE x \in people
    <3>1. PICK g \in browse : x \in (IF g.type = "projectRole" THEN (IF roleFails THEN {} ELSE JrRole) ELSE {g.who})
      BY <2>1
    <3> QED BY <3>1
  <2> QED BY <2>1
<1>3. "everybody" \notin people BY DEF JrNames
<1>4. rule = Quarantine \/ (\E g \in browse : g.type = "anyone") \/ rule = who
  BY DEF jrAccess
<1>5. rule = Quarantine \/ (\E g \in browse : g.type = "anyone") \/ (rule # Everybody /\ rule \subseteq people)
  BY <1>2, <1>3, <1>4 DEF Everybody
<1>6. jrRule' = <<[scheme |-> jrScheme, rule |-> rule]>> BY DEF JrContainers
<1>7. jrRule'[1].scheme = jrScheme /\ jrRule'[1].rule = rule BY <1>6
<1> HIDE DEF rule
<1>8. RuleNeverWider' BY <1>5, <1>7 DEF RuleNeverWider
<1>9. Resolved' = Resolved BY <1>1 DEF Resolved
<1> QED BY <1>1, <1>8, <1>9 DEF JrInv

LEMMA JrStep == JrInv /\ jrScheme \in JrSchemes /\ [JrNext]_jrVars => JrInv' /\ jrScheme' \in JrSchemes
<1> SUFFICES ASSUME JrInv, jrScheme \in JrSchemes, [JrNext]_jrVars PROVE JrInv' /\ jrScheme' \in JrSchemes
  OBVIOUS
<1>1. CASE UNCHANGED jrVars BY <1>1, JrQuiet DEF jrVars, jrSite, JrInv
<1>2. CASE (\E b \in BOOLEAN : JrFile(b)) \/ (\E k \in DOMAIN jrIssue : JrComment(k) \/ JrDelete(k))
  BY <1>2, JrQuiet DEF JrFile, JrComment, JrDelete, jrChanges, JrInv
<1>3. CASE \E kind \in {"threads", "list"}, since \in 0 .. jrNow, end \in {"total", "flag", "short"}, cap \in JrCaps :
             JrSearch(kind, since, end, cap)
  BY <1>3, JrQuiet DEF JrSearch, jrSite, JrInv
<1>4. CASE JrRegroup \/ JrRescheme
  BY <1>4, JrQuiet DEF JrRegroup, JrRescheme, JrInv
<1>5. CASE \E b \in BOOLEAN : JrPageOf(b) \/ JrDone(b)
  BY <1>5, JrPageKeeps, JrDoneKeeps DEF JrPageOf, JrDone, jrSite
<1>6. CASE \E b, c \in BOOLEAN : JrContainers(b, c)
  BY <1>6, JrNames, JrContainersKeeps DEF JrContainers, jrSite
<1> QED BY <1>1, <1>2, <1>3, <1>4, <1>5, <1>6 DEF JrNext

LEMMA JrInitInv == JrInit => JrInv /\ jrScheme \in JrSchemes
BY DEF JrInit, JrInv, RuleNeverWider

LEMMA JrHolds == JrInv => LevelNeverGuessed /\ RuleNeverWider
BY DEF JrInv, LevelNeverGuessed, Resolved
-----------------------------------------------------------------------------
(* Confluence: a page's rule is made of restrictions its chain really had. *)

Written(p) == cfSite[p].edited # 0
Gone(p) == cfSite[p].edited < 0
Chain(p) == {p} \union ancestors(p)

\* What is known of one page is what it had since the crawl began, or nothing
\* when it was gone.
Had(a, v) == v \in cfHad[a] \/ (Gone(a) /\ v = 0)
\* The rule of a page, and what a crawl may take it for.
Traced(p, rule) ==
  \E f \in [Chain(p) -> (UNION {cfHad[a] : a \in CfPages}) \union {0}] :
    (\A a \in Chain(p) : Had(a, f[a])) /\ rule = combined(p, f)
Seen(p, rule) == (rule = cfUnresolved /\ cfSpent.faults > 0) \/ Traced(p, rule)

CfTyped ==
  /\ cfNow \in Nat /\ cfSite \in [CfPages -> [edited: Int, comments: SUBSET Nat]]
  /\ cfOwn \in [CfPages -> Nat] /\ cfHad \in [CfPages -> SUBSET Nat]
  /\ cfSpent \in [crawls: Nat, restricts: Nat, faults: Nat]
\* A page is written under one that is.
TreeStands == \A p \in CfPages : Written(p) /\ CfParent[p] # 0 => Written(CfParent[p])
OwnIsHad == \A p \in CfPages : cfOwn[p] \in cfHad[p]
HitsSound == \A h \in cfCrawl.page : h.page \in CfPages /\ Written(h.page) /\ h.own \in cfHad[h.page]
KnownSound == \A a \in DOMAIN cfCache :
  a \in CfPages /\ (Had(a, cfCache[a]) \/ (cfCache[a] = cfUnresolved /\ cfSpent.faults > 0))
GivenSound(made) == \A p \in DOMAIN made : p \in CfPages /\ Seen(p, made[p].rule)

Searching == {"page", "built", "out"} \subseteq DOMAIN cfCrawl

CfInv ==
  /\ CfTyped /\ TreeStands /\ OwnIsHad /\ cfCrawl.at \in {"none", "listed", "search"}
  /\ cfCrawl.at = "listed" => cfCache = <<>>
  /\ cfCrawl.at = "search" => Searching /\ HitsSound /\ KnownSound /\ GivenSound(cfCrawl.built) /\ GivenSound(cfCrawl.out)

LEMMA CfConsts == CfAssumption
BY CfAssumption

LEMMA Above ==
  ASSUME CfAssumption, TreeStands, NEW p \in CfPages, Written(p)
  PROVE ancestors(p) \subseteq CfPages /\ \A a \in ancestors(p) : Written(a)
<1> DEFINE S == {q \in CfPages : Written(q)}
<1>1. S \in SUBSET CfPages /\ holdsAbove(S, p) /\ \A q \in S : holdsAbove(S, q)
  BY DEF holdsAbove, TreeStands, CfAssumption
<1>2. ASSUME NEW a \in ancestors(p) PROVE a \in S
  <2> HIDE DEF S
  <2> QED BY <1>1, <1>2 DEF ancestors
<1> QED BY <1>2 DEF ancestors

\* What was seen stays seen while the crawl goes on.
LEMMA SeenStill ==
  ASSUME NEW p, NEW rule, Seen(p, rule), Chain(p) \subseteq CfPages,
         \A a \in CfPages : cfHad[a] \subseteq cfHad'[a], \A a \in CfPages : Gone(a) => Gone(a)',
         cfSpent.faults > 0 => cfSpent'.faults > 0
  PROVE Seen(p, rule)'
<1>1. CASE rule = cfUnresolved /\ cfSpent.faults > 0 BY <1>1 DEF Seen
<1>2. CASE \E f \in [Chain(p) -> (UNION {cfHad[a] : a \in CfPages}) \union {0}] :
             (\A a \in Chain(p) : Had(a, f[a])) /\ rule = combined(p, f)
  <2>1. PICK f \in [Chain(p) -> (UNION {cfHad[a] : a \in CfPages}) \union {0}] :
          (\A a \in Chain(p) : Had(a, f[a])) /\ rule = combined(p, f)
    BY <1>2
  <2>2. UNION {cfHad[a] : a \in CfPages} \subseteq UNION {cfHad'[a] : a \in CfPages}
    OBVIOUS
  <2>3. f \in [Chain(p) -> (UNION {cfHad'[a] : a \in CfPages}) \union {0}] BY <2>1, <2>2
  <2>4. \A a \in Chain(p) : Had(a, f[a])' BY <2>1 DEF Had
  <2>5. Chain(p)' = Chain(p) BY DEF Chain, ancestors, holdsAbove
  <2>6. combined(p, f)' = combined(p, f) BY DEF combined, ancestors, holdsAbove
  <2> QED BY <2>1, <2>3, <2>4, <2>5, <2>6 DEF Seen, Traced
<1> QED BY <1>1, <1>2 DEF Seen, Traced

\* What is made of what is known was seen.
LEMMA KnownMakesSeen ==
  ASSUME NEW p, NEW c, NEW faulty \in BOOLEAN, Chain(p) \subseteq CfPages,
         \A a \in Chain(p) : Had(a, c[a]) \/ (c[a] = cfUnresolved /\ faulty)
  PROVE (combined(p, c) = cfUnresolved /\ faulty) \/ Traced(p, combined(p, c))
<1> DEFINE found == {a \in Chain(p) : c[a] # 0}
<1>0. combined(p, c) = CASE found = {} -> cfNone [] Cardinality(found) = 1 -> c[CHOOSE a \in found : TRUE] [] OTHER -> cfUnresolved
  BY DEF combined, Chain
<1>1. CASE \E a \in Chain(p) : c[a] = cfUnresolved /\ faulty
  <2>1. PICK a \in Chain(p) : c[a] = cfUnresolved /\ faulty BY <1>1
  <2>2. a \in found BY <2>1 DEF cfUnresolved
  <2>3. Cardinality(found) = 1 => found = {a}
    <3>1. Cardinality(found) = 1 => \E x : found = {x}
      <4> SUFFICES ASSUME Cardinality(found) = 1 PROVE \E x : found = {x}
        OBVIOUS
      <4>1. IsFiniteSet(Chain(p)) BY <2>2, CfConsts, FS_Subset DEF CfAssumption
      <4>2. IsFiniteSet(found) BY <4>1, FS_Subset
      <4> HIDE DEF found
      <4>3. IsFiniteSet(found \ {a}) /\ Cardinality(found \ {a}) = Cardinality(found) - 1
        BY <4>2, <2>2, FS_RemoveElement
      <4>5. Cardinality(found \ {a}) = 0
        BY <4>3
      <4>4. found \ {a} = {} BY <4>3, <4>5, FS_EmptySet
      <4> QED BY <4>4, <2>2
    <3> QED BY <3>1, <2>2
  <2>4. combined(p, c) = cfUnresolved
    <3> HIDE DEF found
    <3>1. CASE Cardinality(found) = 1
      <4>1. (CHOOSE x \in found : TRUE) = a BY <2>3, <3>1
      <4> QED BY <1>0, <2>2, <4>1, <3>1, <2>1
    <3>2. CASE Cardinality(found) # 1 BY <1>0, <2>2, <3>2
    <3> QED BY <3>1, <3>2
  <2> QED BY <2>1, <2>4
<1>2. CASE \A a \in Chain(p) : Had(a, c[a])
  <2> DEFINE f == [a \in Chain(p) |-> c[a]]
  <2>1. f \in [Chain(p) -> (UNION {cfHad[a] : a \in CfPages}) \union {0}]
    <3>1. ASSUME NEW a \in Chain(p) PROVE c[a] \in (UNION {cfHad[x] : x \in CfPages}) \union {0}
      <4>1. a \in CfPages BY <3>1
      <4>2. c[a] \in cfHad[a] \/ c[a] = 0 BY <1>2, <3>1 DEF Had
      <4> QED BY <4>1, <4>2
    <3> QED BY <3>1
  <2>2. {a \in Chain(p) : f[a] # 0} = found OBVIOUS
  <2>3. combined(p, f) = CASE found = {} -> cfNone [] Cardinality(found) = 1 -> f[CHOOSE a \in found : TRUE] [] OTHER -> cfUnresolved
    BY <2>2 DEF combined, Chain
  <2>4. found # {} => f[CHOOSE a \in found : TRUE] = c[CHOOSE a \in found : TRUE]
    <3>1. found # {} => (CHOOSE a \in found : TRUE) \in found OBVIOUS
    <3> QED BY <3>1
  <2>5. combined(p, f) = combined(p, c)
    <3> HIDE DEF found, f
    <3> QED BY <1>0, <2>3, <2>4
  <2>6. \A a \in Chain(p) : Had(a, f[a]) BY <1>2
  <2> HIDE DEF f
  <2> QED BY <2>1, <2>5, <2>6 DEF Traced
<1> QED BY <1>1, <1>2
LEMMA ChainIn ==
  ASSUME NEW p \in CfPages
  PROVE Chain(p) \subseteq CfPages
BY DEF Chain, ancestors

\* A step of the site: what is known stays known.
LEMMA CfQuiet ==
  ASSUME CfInv, CfTyped', TreeStands', OwnIsHad', UNCHANGED <<cfCrawl, cfCache>>,
         \A a \in CfPages : cfHad[a] \subseteq cfHad'[a], \A a \in CfPages : Gone(a) => Gone(a)',
         \A a \in CfPages : Written(a) => Written(a)',
         cfSpent.faults > 0 => cfSpent'.faults > 0
  PROVE CfInv'
<1>1. CASE cfCrawl.at # "search" BY <1>1 DEF CfInv
<1>2. CASE cfCrawl.at = "search"
  <2>1. HitsSound /\ KnownSound /\ GivenSound(cfCrawl.built) /\ GivenSound(cfCrawl.out) BY <1>2 DEF CfInv
  <2>2. HitsSound' BY <2>1 DEF HitsSound
  <2>3. KnownSound' BY <2>1 DEF KnownSound, Had
  <2>4. \A p \in CfPages : \A rule : Seen(p, rule) => Seen(p, rule)' BY SeenStill, ChainIn
  <2>5. GivenSound(cfCrawl.built)' /\ GivenSound(cfCrawl.out)' BY <2>1, <2>4 DEF GivenSound
  <2> QED BY <2>2, <2>3, <2>5, <1>2 DEF CfInv, Searching
<1> QED BY <1>1, <1>2

LEMMA CfSiteKeeps ==
  ASSUME CfInv, NEW p \in CfPages, CfEdit(p) \/ CfComment(p) \/ CfArchive(p)
  PROVE CfInv'
<1>0. CfAssumption /\ CfTyped /\ TreeStands /\ OwnIsHad BY CfConsts DEF CfInv
<1>1. UNCHANGED <<cfOwn, cfHad, cfSpent, cfCache, cfCrawl>> /\ cfNow' = cfNow + 1
  BY DEF CfEdit, CfComment, CfArchive, cfChanges
<1>2. CfTyped'
  <2>1. CASE CfEdit(p)
    <3>1. cfSite' = [cfSite EXCEPT ![p].edited = cfNow + 1] BY <2>1 DEF CfEdit
    <3> QED BY <3>1, <1>0, <1>1 DEF CfTyped
  <2>2. CASE CfComment(p)
    <3>1. cfSite' = [cfSite EXCEPT ![p].comments = @ \union {cfNow + 1}] BY <2>2 DEF CfComment
    <3> QED BY <3>1, <1>0, <1>1 DEF CfTyped
  <2>3. CASE CfArchive(p)
    <3>1. cfSite' = [cfSite EXCEPT ![p] = [edited |-> -1, comments |-> {}]] BY <2>3 DEF CfArchive
    <3> QED BY <3>1, <1>0, <1>1 DEF CfTyped
  <2> QED BY <2>1, <2>2, <2>3
<1>3. /\ \A a \in CfPages \ {p} : cfSite'[a] = cfSite[a]
      /\ \/ cfSite[p].edited >= 0 /\ cfSite'[p].edited = cfNow + 1 /\ (CfParent[p] # 0 => live(CfParent[p]))
         \/ cfSite'[p].edited = cfSite[p].edited
         \/ cfSite'[p].edited = -1 /\ live(p)
  BY <1>0 DEF CfEdit, CfComment, CfArchive, CfTyped
<1>4. \A a \in CfPages : (Gone(a) => Gone(a)') /\ (Written(a) => Written(a)')
  BY <1>0, <1>3 DEF Gone, Written, CfTyped, live
<1>5. TreeStands'
  <2>1. ASSUME NEW q \in CfPages, Written(q)', CfParent[q] # 0 PROVE Written(CfParent[q])'
    <3>1. CfParent[q] \in CfPages BY <1>0, <2>1 DEF CfAssumption
    <3>2. Written(CfParent[q])
      <4>1. CASE q # p
        <5>1. Written(q) BY <4>1, <1>3, <2>1 DEF Written
        <5> QED BY <5>1, <1>0, <2>1 DEF TreeStands
      <4>2. CASE q = p /\ cfSite[p].edited >= 0 /\ live(CfParent[p])
        BY <4>2, <1>0, <3>1 DEF live, Written
      <4>3. CASE q = p /\ (cfSite'[p].edited = cfSite[p].edited \/ live(p))
        <5>1. Written(q) BY <4>3, <2>1 DEF Written, live
        <5> QED BY <5>1, <1>0, <2>1 DEF TreeStands
      <4> QED BY <4>1, <4>2, <4>3, <1>3, <2>1
    <3> QED BY <3>1, <3>2, <1>4
  <2> QED BY <2>1 DEF TreeStands
<1>6. OwnIsHad' BY <1>0, <1>1 DEF OwnIsHad
<1> QED BY <1>1, <1>2, <1>4, <1>5, <1>6, CfQuiet

LEMMA CfRestrictKeeps ==
  ASSUME CfInv, NEW p \in CfPages, NEW lift \in BOOLEAN, CfRestrict(p, lift)
  PROVE CfInv'
<1>0. CfTyped /\ TreeStands /\ OwnIsHad BY DEF CfInv
<1>1. /\ UNCHANGED <<cfNow, cfSite, cfCache, cfCrawl>> /\ cfSpent' = [cfSpent EXCEPT !.restricts = @ + 1]
      /\ cfOwn' = [cfOwn EXCEPT ![p] = IF lift THEN 0 ELSE cfSpent.restricts + 1]
      /\ cfHad' = [cfHad EXCEPT ![p] = @ \union {cfOwn'[p]}]
  BY DEF CfRestrict
<1>2. cfOwn' \in [CfPages -> Nat] BY <1>0, <1>1 DEF CfTyped
<1>3. cfSpent' \in [crawls: Nat, restricts: Nat, faults: Nat] /\ cfSpent'.faults = cfSpent.faults BY <1>0, <1>1 DEF CfTyped
<1>4. cfHad' \in [CfPages -> SUBSET Nat] BY <1>0, <1>1, <1>2 DEF CfTyped
<1>5. CfTyped' BY <1>0, <1>1, <1>2, <1>3, <1>4 DEF CfTyped
<1>6. \A a \in CfPages : cfHad[a] \subseteq cfHad'[a] BY <1>0, <1>1 DEF CfTyped
<1>7. OwnIsHad' BY <1>0, <1>1 DEF CfTyped, OwnIsHad
<1>8. TreeStands' /\ \A a \in CfPages : (Gone(a) => Gone(a)') /\ (Written(a) => Written(a)')
  BY <1>0, <1>1 DEF TreeStands, Gone, Written
<1> QED BY <1>1, <1>3, <1>5, <1>6, <1>7, <1>8, CfQuiet

LEMMA CfBeginsKeeps ==
  ASSUME CfInv, CfContainers \/ (\E kind \in {"threads", "list"}, since \in 0 .. cfNow : CfSearch(kind, since)) \/ CfDone
  PROVE CfInv'
<1>0. CfTyped /\ TreeStands /\ OwnIsHad BY DEF CfInv
<1>1. CASE CfContainers
  <2>1. cfSpent' = [cfSpent EXCEPT !.crawls = @ + 1] /\ cfHad' = [p \in CfPages |-> {cfOwn[p]}]
        /\ UNCHANGED <<cfNow, cfSite, cfOwn>> /\ cfCrawl' = [at |-> "listed"] /\ cfCache' = <<>>
    BY <1>1 DEF CfContainers, forget
  <2>a. cfHad' \in [CfPages -> SUBSET Nat] BY <1>0, <2>1 DEF CfTyped
  <2>b. cfSpent' \in [crawls: Nat, restricts: Nat, faults: Nat]
    <3>1. cfSpent \in [crawls: Nat, restricts: Nat, faults: Nat] BY <1>0 DEF CfTyped
    <3>2. cfSpent' = [cfSpent EXCEPT !.crawls = @ + 1] BY <2>1
    <3> QED BY <3>1, <3>2
  <2>2. CfTyped' BY <1>0, <2>1, <2>a, <2>b DEF CfTyped
  <2>3. TreeStands' /\ OwnIsHad' BY <1>0, <2>1 DEF TreeStands, OwnIsHad, Written, CfTyped
  <2> QED BY <2>1, <2>2, <2>3 DEF CfInv
<1>2. CASE \E kind \in {"threads", "list"}, since \in 0 .. cfNow : CfSearch(kind, since)
  <2>1. /\ UNCHANGED <<cfNow, cfSite, cfOwn, cfCache, cfHad, cfSpent>> /\ cfCache = <<>>
        /\ cfCrawl'.at = "search" /\ Searching' /\ cfCrawl'.page = {} /\ cfCrawl'.built = <<>> /\ cfCrawl'.out = <<>>
    BY <1>2 DEF CfSearch, CfInv, Searching
  <2>2. CfTyped' /\ TreeStands' /\ OwnIsHad' BY <1>0, <2>1 DEF TreeStands, OwnIsHad, Written, CfTyped
  <2>3. DOMAIN cfCache' = {} /\ DOMAIN cfCrawl'.built = {} /\ DOMAIN cfCrawl'.out = {} BY <2>1
  <2> QED BY <2>1, <2>2, <2>3 DEF CfInv, HitsSound, KnownSound, GivenSound
<1>3. CASE CfDone
  <2>1. UNCHANGED <<cfNow, cfSite, cfOwn, cfCache, cfHad, cfSpent>> /\ cfCrawl'.at = "none"
    BY <1>3 DEF CfDone, cfNoCrawl
  <2>2. CfTyped' /\ TreeStands' /\ OwnIsHad' BY <1>0, <2>1 DEF TreeStands, OwnIsHad, Written, CfTyped
  <2> QED BY <2>1, <2>2 DEF CfInv
<1> QED BY <1>1, <1>2, <1>3

LEMMA CfResultsKeeps ==
  ASSUME CfInv, CfResults
  PROVE CfInv'
<1>0. CfTyped /\ TreeStands /\ OwnIsHad BY DEF CfInv
<1>1. UNCHANGED <<cfNow, cfSite, cfOwn, cfCache, cfHad, cfSpent>> /\ cfCrawl.at = "search" BY DEF CfResults
<1>2. KnownSound /\ GivenSound(cfCrawl.built) /\ GivenSound(cfCrawl.out) BY <1>1 DEF CfInv
<1> DEFINE all == IF cfCrawl.kind = "list" THEN listHits ELSE {h \in threadHits : h.at >= cqlTime(cfCrawl.since)}
<1>3. \A h \in all : h.page \in CfPages /\ live(h.page) BY DEF listHits, threadHits
<1>4. PICK page, more, pos :
        page \subseteq all /\ cfCrawl' = [cfCrawl EXCEPT !.page = {full(h) : h \in page}, !.more = more, !.pos = pos]
  <2>1. \E page \in SUBSET {h \in all : h.at > cfCrawl.pos} :
          cfCrawl' = [cfCrawl EXCEPT !.page = {full(h) : h \in page}, !.more = page # {h \in all : h.at > cfCrawl.pos},
                                     !.pos = IF page = {} THEN @ ELSE Max({h.at : h \in page})]
    BY DEF CfResults
  <2>2. PICK page \in SUBSET {h \in all : h.at > cfCrawl.pos} :
          cfCrawl' = [cfCrawl EXCEPT !.page = {full(h) : h \in page}, !.more = page # {h \in all : h.at > cfCrawl.pos},
                                     !.pos = IF page = {} THEN @ ELSE Max({h.at : h \in page})]
    BY <2>1
  <2>3. page \subseteq all BY <2>2
  <2> DEFINE more == page # {h \in all : h.at > cfCrawl.pos}
             pos == IF page = {} THEN cfCrawl.pos ELSE Max({h.at : h \in page})
  <2>4. cfCrawl' = [cfCrawl EXCEPT !.page = {full(h) : h \in page}, !.more = more, !.pos = pos]
    BY <2>2
  <2> HIDE DEF more, pos, all
  <2> QED BY <2>3, <2>4
<1>5. PICK keys : cfCrawl' = [cfCrawl EXCEPT !.page = keys, !.more = more, !.pos = pos] /\ keys = {full(h) : h \in page}
  BY <1>4
<1>6. /\ cfCrawl'.page = keys /\ Searching'
      /\ cfCrawl'.at = "search" /\ cfCrawl'.built = cfCrawl.built /\ cfCrawl'.out = cfCrawl.out
  BY <1>5, <1>1 DEF CfInv, Searching
<1>7. HitsSound'
  <2>1. ASSUME NEW k \in keys PROVE k.page \in CfPages /\ Written(k.page) /\ k.own \in cfHad[k.page]
    <3>1. PICK h \in page : k = full(h) BY <1>5, <2>1
    <3>2. h.page \in CfPages /\ live(h.page) BY <1>3, <1>4, <3>1
    <3>3. k.page = h.page /\ k.own = cfOwn[h.page] BY <3>1 DEF full
    <3> QED BY <3>2, <3>3, <1>0 DEF OwnIsHad, live, Written
  <2> QED BY <2>1, <1>6, <1>1 DEF HitsSound, Written
<1>8. CfTyped' /\ TreeStands' /\ OwnIsHad' BY <1>0, <1>1 DEF TreeStands, OwnIsHad, Written, CfTyped
<1>9. KnownSound' BY <1>1, <1>2 DEF KnownSound, Had, Gone
<1>10. \A p \in CfPages : \A rule : Seen(p, rule) => Seen(p, rule)'
  BY <1>1, SeenStill, ChainIn DEF Gone
<1>11. GivenSound(cfCrawl.built)' /\ GivenSound(cfCrawl.out)' BY <1>2, <1>6, <1>10 DEF GivenSound
<1> QED BY <1>6, <1>7, <1>8, <1>9, <1>11 DEF CfInv

\* What is known after a hit: the page's own, and what the site says of those above.
LEMMA KnowsMore ==
  ASSUME CfAssumption, CfTyped, TreeStands, OwnIsHad, KnownSound,
         NEW p \in CfPages, Written(p), NEW own \in cfHad[p], NEW fails \in BOOLEAN,
         UNCHANGED <<cfSite, cfOwn, cfHad>>, NEW cache, cache = cacheAfter(p, own, fails), cfCache' = cache,
         cfSpent.faults > 0 \/ fails => cfSpent'.faults > 0
  PROVE KnownSound' /\ \A a \in Chain(p) : a \in DOMAIN cache
<1> DEFINE asked == ancestors(p) \ DOMAIN cfCache
           known == cfPut(cfCache, p, own)
<1>1. cache = [a \in DOMAIN known \union asked |-> IF a \in DOMAIN known THEN known[a] ELSE ofSite(a, fails)]
  BY DEF cacheAfter
<1>2. known = [x \in DOMAIN cfCache \union {p} |-> IF x = p THEN own ELSE cfCache[x]] BY DEF cfPut
<1>3. DOMAIN known = DOMAIN cfCache \union {p} BY <1>2
<1>4. asked \subseteq CfPages /\ \A a \in asked : Written(a) BY Above
<1>5. DOMAIN cache = DOMAIN cfCache \union {p} \union asked BY <1>1, <1>3
<1>6. \A a \in CfPages : \A v : Had(a, v)' <=> Had(a, v) BY DEF Had, Gone
<1>7. ASSUME NEW a \in DOMAIN cache
      PROVE a \in CfPages /\ (Had(a, cache[a]) \/ (cache[a] = cfUnresolved /\ cfSpent'.faults > 0))
  <2>1. CASE a = p
    <3>1. cache[a] = own BY <1>1, <1>2, <1>3, <2>1
    <3> QED BY <2>1, <3>1 DEF Had
  <2>2. CASE a # p /\ a \in DOMAIN cfCache
    <3>1. cache[a] = cfCache[a] BY <1>1, <1>2, <1>3, <2>2
    <3> QED BY <3>1, <2>2 DEF KnownSound
  <2>3. CASE a # p /\ a \notin DOMAIN cfCache
    <3>1. a \in asked /\ cache[a] = ofSite(a, fails) BY <1>1, <1>3, <1>5, <2>3
    <3>2. a \in CfPages /\ Written(a) BY <1>4, <3>1
    <3>3. CASE fails BY <3>1, <3>2, <3>3 DEF ofSite
    <3>4. CASE ~fails /\ live(a)
      <4>1. cache[a] = cfOwn[a] BY <3>1, <3>4 DEF ofSite
      <4> QED BY <4>1, <3>2 DEF OwnIsHad, Had
    <3>5. CASE ~fails /\ ~live(a)
      <4>1. cache[a] = 0 BY <3>1, <3>5 DEF ofSite
      <4>2. cfSite[a].edited \in Int BY <3>2 DEF CfTyped
      <4>3. Gone(a) BY <3>2, <3>5, <4>2 DEF Gone, live, Written
      <4> QED BY <4>1, <4>3, <3>2 DEF Had
    <3> QED BY <3>3, <3>4, <3>5
  <2> QED BY <2>1, <2>2, <2>3
<1> HIDE DEF known
<1>8. KnownSound' BY <1>6, <1>7 DEF KnownSound
<1>9. \A a \in Chain(p) : a \in DOMAIN cache BY <1>5 DEF Chain
<1> QED BY <1>8, <1>9

LEMMA Gives ==
  ASSUME NEW made, GivenSound(made), NEW p \in CfPages, NEW th, Seen(p, th.rule)
  PROVE GivenSound(cfPut(made, p, th))
BY DEF GivenSound, cfPut

LEMMA CfHitKeeps ==
  ASSUME CfInv, NEW fails \in BOOLEAN, CfHit(fails)
  PROVE CfInv'
<1>0. CfAssumption /\ CfTyped /\ TreeStands /\ OwnIsHad BY CfConsts DEF CfInv
<1>1. /\ UNCHANGED <<cfNow, cfSite, cfOwn, cfSpace, cfHad>> /\ cfCrawl.at = "search"
      /\ Searching /\ HitsSound /\ KnownSound /\ GivenSound(cfCrawl.built) /\ GivenSound(cfCrawl.out)
  BY DEF CfInv, CfHit
<1> DEFINE On(hit) == [cfCrawl EXCEPT !.page = @ \ {hit}]
           Asked(hit) == IF hit.type = "page" THEN hit
                         ELSE [hit EXCEPT !.edited = cfSite[hit.page].edited, !.comments = cfSite[hit.page].comments, !.own = cfOwn[hit.page]]
           Cache(hit) == cacheAfter(hit.page, Asked(hit).own, fails)
           Made(hit) == cfBuild(Asked(hit), combined(hit.page, Cache(hit)))
<1>2. PICK hit \in cfCrawl.page :
        \/ cfCrawl' = On(hit) /\ UNCHANGED <<cfCache, cfSpent>>
        \/ /\ hit.page \in DOMAIN cfCrawl.built
           /\ cfCrawl' = [On(hit) EXCEPT !.out = cfPut(@, hit.page, cfCrawl.built[hit.page])]
           /\ UNCHANGED <<cfCache, cfSpent>>
        \/ /\ cfSpent' = [cfSpent EXCEPT !.faults = @ + (IF fails THEN 1 ELSE 0)]
           /\ cfCache' = Cache(hit)
           /\ cfCrawl' = [On(hit) EXCEPT !.out = cfPut(@, hit.page, Made(hit)), !.built = cfPut(@, hit.page, Made(hit))]
  BY DEF CfHit
<1> DEFINE p == hit.page
<1>3. p \in CfPages /\ Written(p) /\ hit.own \in cfHad[p] BY <1>1 DEF HitsSound
<1>4. On(hit).page = cfCrawl.page \ {hit} /\ On(hit).at = "search" /\ On(hit).built = cfCrawl.built /\ On(hit).out = cfCrawl.out
      /\ {"page", "built", "out"} \subseteq DOMAIN On(hit)
  BY <1>1 DEF Searching
<1>5. ASSUME cfSpent.faults > 0 => cfSpent'.faults > 0
      PROVE \A q \in CfPages : \A rule : Seen(q, rule) => Seen(q, rule)'
  BY <1>1, <1>5, SeenStill, ChainIn DEF Gone
<1>6. TreeStands' /\ OwnIsHad' BY <1>0, <1>1 DEF TreeStands, OwnIsHad, Written
<1>7. ASSUME cfCrawl'.page = cfCrawl.page \ {hit} PROVE HitsSound' BY <1>1, <1>7 DEF HitsSound, Written
<1>8. CASE cfCrawl' = On(hit) /\ UNCHANGED <<cfCache, cfSpent>>
  <2>1. cfCrawl'.page = cfCrawl.page \ {hit} /\ cfCrawl'.at = "search" /\ Searching'
        /\ cfCrawl'.built = cfCrawl.built /\ cfCrawl'.out = cfCrawl.out
    BY <1>4, <1>8 DEF Searching
  <2>2. CfTyped' /\ KnownSound' BY <1>0, <1>1, <1>8 DEF CfTyped, KnownSound, Had, Gone
  <2>3. GivenSound(cfCrawl.built)' /\ GivenSound(cfCrawl.out)' BY <1>1, <1>5, <1>8, <2>1 DEF GivenSound
  <2> QED BY <1>6, <1>7, <2>1, <2>2, <2>3 DEF CfInv
<1>9. CASE /\ p \in DOMAIN cfCrawl.built
           /\ cfCrawl' = [On(hit) EXCEPT !.out = cfPut(@, p, cfCrawl.built[p])]
           /\ UNCHANGED <<cfCache, cfSpent>>
  <2> DEFINE th == cfCrawl.built[p]
  <2>1. cfCrawl'.page = cfCrawl.page \ {hit} /\ cfCrawl'.at = "search" /\ Searching'
        /\ cfCrawl'.built = cfCrawl.built /\ cfCrawl'.out = cfPut(cfCrawl.out, p, th)
    <3> HIDE DEF On, th
    <3> QED BY <1>4, <1>9 DEF Searching, th
  <2>2. CfTyped' /\ KnownSound' BY <1>0, <1>1, <1>9 DEF CfTyped, KnownSound, Had, Gone
  <2>3. Seen(p, th.rule) BY <1>1, <1>9 DEF GivenSound
  <2>4. GivenSound(cfPut(cfCrawl.out, p, th)) BY <1>1, <1>3, <2>3, Gives
  <2>5. GivenSound(cfCrawl.built)' /\ GivenSound(cfCrawl.out)' BY <1>1, <1>5, <1>9, <2>1, <2>4 DEF GivenSound
  <2> QED BY <1>6, <1>7, <2>1, <2>2, <2>5 DEF CfInv
<1>10. CASE /\ cfSpent' = [cfSpent EXCEPT !.faults = @ + (IF fails THEN 1 ELSE 0)]
            /\ cfCache' = Cache(hit)
            /\ cfCrawl' = [On(hit) EXCEPT !.out = cfPut(@, p, Made(hit)), !.built = cfPut(@, p, Made(hit))]
  <2> DEFINE own == Asked(hit).own  n == IF fails THEN 1 ELSE 0
  <2>a. PICK c, th : c = Cache(hit) /\ th = Made(hit) OBVIOUS
  <2>1. cfCrawl'.page = cfCrawl.page \ {hit} /\ cfCrawl'.at = "search" /\ Searching'
        /\ cfCrawl'.built = cfPut(cfCrawl.built, p, th) /\ cfCrawl'.out = cfPut(cfCrawl.out, p, th)
    <3>1. cfCrawl' = [On(hit) EXCEPT !.out = cfPut(On(hit).out, p, th), !.built = cfPut(On(hit).built, p, th)]
      BY <1>10, <2>a
    <3> HIDE DEF On
    <3> QED BY <1>4, <3>1 DEF Searching
  <2>2. own \in cfHad[p]
    <3>1. CASE hit.type = "page" BY <3>1, <1>3
    <3>2. CASE hit.type # "page"
      <4>1. cfOwn[p] \in cfHad[p] BY <1>0, <1>3 DEF OwnIsHad
      <4>2. own = cfOwn[p] BY <3>2
      <4> QED BY <4>1, <4>2
    <3> QED BY <3>1, <3>2
  <2>3. cfSpent' \in [crawls: Nat, restricts: Nat, faults: Nat] /\ cfSpent'.faults = cfSpent.faults + n
    <3>1. cfSpent \in [crawls: Nat, restricts: Nat, faults: Nat] /\ n \in Nat BY <1>0 DEF CfTyped
    <3>2. cfSpent' = [cfSpent EXCEPT !.faults = @ + n] BY <1>10
    <3> HIDE DEF n
    <3> QED BY <3>1, <3>2
  <2>4. cfSpent.faults > 0 \/ fails => cfSpent'.faults > 0
    <3>1. cfSpent.faults \in Nat BY <1>0 DEF CfTyped
    <3> QED BY <3>1, <2>3
  <2>5. CfTyped' BY <1>0, <1>1, <2>3 DEF CfTyped
  <2>b. c = cacheAfter(p, own, fails) /\ th.rule = combined(p, c) /\ cfCache' = c BY <1>10, <2>a DEF cfBuild
  <2> HIDE DEF own
  <2>6. KnownSound' /\ \A a \in Chain(p) : a \in DOMAIN c
    BY <1>0, <1>1, <1>3, <2>2, <2>4, <2>b, KnowsMore
  <2>7. Seen(p, th.rule)'
    <3> DEFINE faulty == cfSpent'.faults > 0
    <3>2. Chain(p) \subseteq CfPages BY <1>3, ChainIn
    <3>4. \A a, v : Had(a, v)' <=> Had(a, v) BY <1>1 DEF Had, Gone
    <3>6. \A a \in Chain(p) : Had(a, c[a]) \/ (c[a] = cfUnresolved /\ faulty)
      BY <2>6, <2>b, <3>4 DEF KnownSound
    <3>5. faulty \in BOOLEAN OBVIOUS
    <3> HIDE DEF faulty
    <3>7. (combined(p, c) = cfUnresolved /\ faulty) \/ Traced(p, combined(p, c))
      BY <3>2, <3>5, <3>6, KnownMakesSeen
    <3>8. ASSUME NEW rule, Traced(p, rule) PROVE Traced(p, rule)'
      <4>1. Chain(p)' = Chain(p) BY DEF Chain, ancestors, holdsAbove
      <4>2. \A f : combined(p, f)' = combined(p, f) BY DEF combined, ancestors, holdsAbove
      <4>3. cfHad' = cfHad BY <1>1
      <4> QED BY <3>4, <3>8, <4>1, <4>2, <4>3 DEF Traced
    <3> QED BY <2>b, <3>7, <3>8 DEF Seen, faulty
  <2>8. cfSpent.faults > 0 => cfSpent'.faults > 0 BY <2>4
  <2>9. GivenSound(cfCrawl.built)' /\ GivenSound(cfCrawl.out)'
    <3>1. \A q \in CfPages : \A rule : Seen(q, rule) => Seen(q, rule)' BY <1>5, <2>8
    <3>2. ASSUME NEW made, NEW grown, GivenSound(made), grown = cfPut(made, p, th) PROVE GivenSound(grown)'
      <4>1. DOMAIN grown = DOMAIN made \union {p} /\ \A q \in DOMAIN grown : grown[q] = IF q = p THEN th ELSE made[q]
        BY <3>2 DEF cfPut
      <4> QED BY <4>1, <1>3, <2>7, <3>1, <3>2 DEF GivenSound
    <3>3. \E grown : grown = cfCrawl'.built /\ GivenSound(grown)' BY <1>1, <2>1, <3>2
    <3>4. \E grown : grown = cfCrawl'.out /\ GivenSound(grown)' BY <1>1, <2>1, <3>2
    <3> QED BY <3>3, <3>4 DEF GivenSound
  <2> QED BY <1>6, <1>7, <2>1, <2>5, <2>6, <2>9 DEF CfInv
<1> QED BY <1>2, <1>8, <1>9, <1>10

LEMMA CfStep == CfInv /\ [CfNext]_cfVars => CfInv'
<1> SUFFICES ASSUME CfInv, [CfNext]_cfVars PROVE CfInv'
  OBVIOUS
<1>1. CASE UNCHANGED cfVars
  <2>1. UNCHANGED <<cfNow, cfSite, cfOwn, cfSpace, cfIdx, cfCache, cfCrawl, cfHad, cfSpent>> BY <1>1 DEF cfVars
  <2>2. CfTyped' /\ TreeStands' /\ OwnIsHad' BY <2>1 DEF CfInv, CfTyped, TreeStands, OwnIsHad, Written
  <2> QED BY <2>1, <2>2, CfQuiet DEF Gone, Written
<1>2. ASSUME NEW p \in CfPages, CfEdit(p) \/ CfComment(p) \/ CfArchive(p) PROVE CfInv'
  BY <1>2, CfSiteKeeps
<1>3. ASSUME NEW p \in CfPages, NEW b \in BOOLEAN, CfRestrict(p, b) PROVE CfInv'
  BY <1>3, CfRestrictKeeps
<1>4. ASSUME NEW b \in BOOLEAN, CfHit(b) PROVE CfInv'
  BY <1>4, CfHitKeeps
<1>5. CASE CfContainers \/ (\E kind \in {"threads", "list"}, since \in 0 .. cfNow : CfSearch(kind, since)) \/ CfDone
  BY <1>5, CfBeginsKeeps
<1>6. CASE CfResults BY <1>6, CfResultsKeeps
<1> QED BY <1>1, <1>2, <1>3, <1>4, <1>5, <1>6 DEF CfNext

LEMMA CfInitInv == CfInit => CfInv
<1> SUFFICES ASSUME CfInit PROVE CfInv
  OBVIOUS
<1>1. CfTyped
  <2>1. cfSite = [p \in CfPages |-> [edited |-> 0, comments |-> {}]] /\ cfSpent = [crawls |-> 0, restricts |-> 0, faults |-> 0]
    BY DEF CfInit
  <2>2. cfSite \in [CfPages -> [edited: Int, comments: SUBSET Nat]] BY <2>1
  <2>3. cfSpent \in [crawls: Nat, restricts: Nat, faults: Nat] BY <2>1
  <2> QED BY <2>2, <2>3 DEF CfTyped, CfInit
<1>2. TreeStands /\ OwnIsHad BY DEF TreeStands, OwnIsHad, Written, CfInit
<1>3. cfCrawl.at = "none" BY DEF CfInit, cfNoCrawl
<1> QED BY <1>1, <1>2, <1>3 DEF CfInv

\* Two pages of a chain that were restricted throughout leave no single rule.
LEMMA TwoQuarantine ==
  ASSUME CfAssumption, CfTyped, NEW p \in CfPages, NEW rule, Seen(p, rule),
         Cardinality({a \in Chain(p) : live(a) /\ 0 \notin cfHad[a]}) > 1
  PROVE rule = cfUnresolved
<1> DEFINE kept == {a \in Chain(p) : live(a) /\ 0 \notin cfHad[a]}
<1>1. CASE Traced(p, rule)
  <2>1. PICK f : (\A a \in Chain(p) : Had(a, f[a])) /\ rule = combined(p, f) BY <1>1 DEF Traced
  <2> DEFINE found == {a \in Chain(p) : f[a] # 0}
  <2>2. kept \subseteq found
    <3>1. ASSUME NEW a \in kept PROVE f[a] # 0
      <4>1. a \in Chain(p) /\ live(a) /\ 0 \notin cfHad[a] BY <3>1
      <4>2. Had(a, f[a]) BY <2>1, <4>1
      <4>3. cfSite[a].edited > 0 BY <4>1 DEF live
      <4>5. cfSite[a].edited \in Int BY <4>1, ChainIn DEF CfTyped
      <4>4. ~Gone(a) BY <4>3, <4>5 DEF Gone
      <4> QED BY <4>1, <4>2, <4>4 DEF Had
    <3> QED BY <3>1
  <2>3. IsFiniteSet(found)
    <3>1. IsFiniteSet(CfPages) BY DEF CfAssumption
    <3>2. found \subseteq CfPages BY ChainIn
    <3> QED BY <3>1, <3>2, FS_Subset
  <2>4. combined(p, f) = CASE found = {} -> cfNone [] Cardinality(found) = 1 -> f[CHOOSE a \in found : TRUE] [] OTHER -> cfUnresolved
    BY DEF combined, Chain
  <2> HIDE DEF found, kept
  <2>5. IsFiniteSet(kept) /\ Cardinality(kept) <= Cardinality(found) BY <2>2, <2>3, FS_Subset
  <2>6. Cardinality(kept) \in Nat /\ Cardinality(found) \in Nat BY <2>3, <2>5, FS_CardinalityType
  <2>7. Cardinality(kept) > 1 BY DEF kept
  <2>8. Cardinality(found) # 1 /\ found # {} BY <2>5, <2>6, <2>7, FS_EmptySet
  <2> QED BY <2>1, <2>4, <2>8
<1> QED BY <1>1 DEF Seen

LEMMA CfHolds == CfInv => CrawlSeesRestrictions /\ IntersectionQuarantined /\ SpaceNeverWider
<1> SUFFICES ASSUME CfInv PROVE CrawlSeesRestrictions /\ IntersectionQuarantined /\ SpaceNeverWider
  OBVIOUS
<1>0. CfAssumption BY CfConsts
<1>1. CrawlSeesRestrictions
  <2> SUFFICES ASSUME cfCrawl.at = "search", NEW p \in DOMAIN cfCrawl.out
               PROVE \/ cfCrawl.out[p].rule = cfUnresolved /\ cfSpent.faults > 0
                     \/ \E f \in [{p} \union ancestors(p) -> (UNION {cfHad[a] : a \in CfPages}) \union {0}] :
                          /\ \A a \in DOMAIN f : f[a] \in cfHad[a] \/ (~live(a) /\ f[a] = 0)
                          /\ cfCrawl.out[p].rule = combined(p, f)
    BY DEF CrawlSeesRestrictions
  <2>1. p \in CfPages /\ Seen(p, cfCrawl.out[p].rule) BY DEF CfInv, GivenSound
  <2>2. CASE Traced(p, cfCrawl.out[p].rule)
    <3>1. PICK f \in [Chain(p) -> (UNION {cfHad[a] : a \in CfPages}) \union {0}] :
            (\A a \in Chain(p) : Had(a, f[a])) /\ cfCrawl.out[p].rule = combined(p, f)
      BY <2>2 DEF Traced
    <3>2. \A a \in CfPages : Gone(a) => ~live(a)
      <4>1. \A a \in CfPages : cfSite[a].edited \in Int BY DEF CfInv, CfTyped
      <4> QED BY <4>1 DEF Gone, live
    <3>3. Chain(p) \subseteq CfPages BY <2>1, ChainIn
    <3>4. \A a \in DOMAIN f : f[a] \in cfHad[a] \/ (~live(a) /\ f[a] = 0)
      BY <3>1, <3>2, <3>3 DEF Had
    <3>5. f \in [{p} \union ancestors(p) -> (UNION {cfHad[a] : a \in CfPages}) \union {0}] BY <3>1 DEF Chain
    <3> QED BY <3>1, <3>4, <3>5
  <2> QED BY <2>1, <2>2 DEF Seen
<1>2. IntersectionQuarantined
  <2>1. ASSUME cfCrawl.at = "search", NEW p \in DOMAIN cfCrawl.out,
               Cardinality({a \in {p} \union ancestors(p) : live(a) /\ 0 \notin cfHad[a]}) > 1
        PROVE cfCrawl.out[p].rule = cfUnresolved
    <3>1. p \in CfPages /\ Seen(p, cfCrawl.out[p].rule) BY <2>1 DEF CfInv, GivenSound
    <3>2. Cardinality({a \in Chain(p) : live(a) /\ 0 \notin cfHad[a]}) > 1 BY <2>1 DEF Chain
    <3> QED BY <1>0, <3>1, <3>2, TwoQuarantine DEF CfInv
  <2> QED BY <2>1 DEF IntersectionQuarantined
<1>3. SpaceNeverWider
  <2> DEFINE reads == {g \in cfSpace : g.op = "read" /\ g.target \in {"", "space"}}
             readers == {g.who : g \in reads}
             rule == cfAccess(cfSpace)
  <2>1. rule = IF reads = {} THEN {"unresolved"} ELSE IF \E g \in reads : g.who = "anonymous" THEN {"everybody"} ELSE readers
    BY DEF cfAccess
  <2>2. (\E g \in reads : g.who = "anonymous") => "anonymous" \in readers OBVIOUS
  <2>3. SpaceNeverWider <=> (\/ rule = {"unresolved"} \/ rule \subseteq readers
                             \/ rule = {"everybody"} /\ "anonymous" \in readers)
    BY DEF SpaceNeverWider
  <2> HIDE DEF reads, readers, rule
  <2> QED BY <2>1, <2>2, <2>3
<1> QED BY <1>1, <1>2, <1>3
-----------------------------------------------------------------------------
(* Conversations: a revocation is never older than the refresh interval.   *)

\* One list of rules is nowhere newer than another.
NoNewer(r, s) == \A c \in 1 .. TsConts : r[c] <= s[c]
Sharers == TsConvs \ TsOwn
\* A conversation is indexed under a rule at least as new as its container's.
Current(x, r) == tsIdx[x].at > 0 => tsIdx[x].rule >= r[TsHome[x]]
\* The rules moved since the last run that finished.
Due == tsRun.tick > tsRun.start.perms
\* What a run whose refresh is due has caught up on.
CaughtUp(x) ==
  /\ tsRun.start.cont <= TsHome[x]
  /\ \/ TsHome[x] < tsRun.c
     \/ TsHome[x] = tsRun.c /\ x \notin tsRun.left /\ (tsRun.full => x \notin walk)

RunRules == tsRun.on =>
  /\ tsRun.tick <= tick /\ (tsRun.tick = tick => tsRun.bound = tsThen)
  /\ NoNewer(tsBound, tsRun.bound) /\ NoNewer(tsRun.bound, tsThen) /\ NoNewer(tsRun.bound, tsRun.rules)
  /\ tsCk.perms = tsRun.start.perms /\ tsRun.start.perms <= tsRun.tick
  /\ tsRun.start.perms = tsRun.tick => tsRun.bound = tsBound
  /\ tsRun.full => tsRun.start = ZeroPoint
  /\ tsRun.left # {} => Due /\ ~tsRun.full
  /\ Due => \A x \in Sharers : CaughtUp(x) => Current(x, tsRun.bound)

TsRulesInv ==
  /\ tsBound \in Rules /\ NoNewer(tsBound, tsThen) /\ NoNewer(tsThen, tsRule)
  /\ tsCk.perms <= tick /\ (tsCk.perms = tick => tsThen = tsBound)
  /\ OwnRuleKept
  /\ \A x \in Sharers : TsHome[x] \notin tsPassed => Current(x, tsBound)
  /\ RunRules

LEMMA TickMoves ==
  ASSUME NEW n \in Nat, NEW e \in Nat \ {0}
  PROVE  /\ (n \div e) * e <= ((n + 1) \div e) * e
         /\ (n + 1) % e = 0 => (n \div e) * e < ((n + 1) \div e) * e
<1>1. (n \div e) * e <= ((n + 1) \div e) * e BY SMTT(30)
<1>2. ASSUME NEW m \in Nat, m % e = 0 PROVE (m \div e) * e = m BY <1>2, SMTT(30)
<1>3. (n \div e) * e <= n BY SMTT(30)
<1>4. n + 1 \in Nat OBVIOUS
<1>5. n \div e \in Nat OBVIOUS
<1>6. \A q \in Nat : q * e \in Nat OBVIOUS
<1> QED BY <1>1, <1>2, <1>3, <1>4, <1>5, <1>6

\* Time passes: the interval goes on or a new one begins.
LEMMA TickGrows ==
  ASSUME tsNow \in Nat, TsTick
  PROVE tick \in Nat /\ tick' \in Nat /\ tick <= tick' /\ ((tsNow + 1) % TsEvery = 0 => tick < tick')
<1>1. TsEvery \in Nat \ {0} BY TsConsts
<1>2. tsNow' = tsNow + 1 /\ tsNow + 1 \in Nat BY DEF TsTick
<1>3. tick = (tsNow \div TsEvery) * TsEvery /\ tick' = ((tsNow + 1) \div TsEvery) * TsEvery BY <1>2 DEF tick
<1>4. tick \in Nat BY TickBehind
<1>5. \A m \in Nat, e \in Nat \ {0} : (m \div e) * e \in Nat OBVIOUS
<1> QED BY <1>1, <1>2, <1>3, <1>4, <1>5, TickMoves

LEMMA TsRulesInitInv == TsInit => TsRulesInv
<1> SUFFICES ASSUME TsInit PROVE TsRulesInv
  OBVIOUS
<1>1. /\ tsNow = 1 /\ tsRule = [c \in 1 .. TsConts |-> 0] /\ tsThen = tsRule /\ tsBound = tsRule
      /\ tsIdx = [x \in TsConvs |-> [at |-> 0, rule |-> 0]] /\ tsCk.perms = 0 /\ ~tsRun.on
  BY DEF TsInit, ZeroPoint, syncPoint, tsNoRun
<1>2. \A x \in TsConvs : tsIdx[x].at = 0 BY <1>1
<1>3. tick \in Nat BY <1>1, TickBehind
<1>4. tsBound \in Rules /\ NoNewer(tsBound, tsThen) /\ NoNewer(tsThen, tsRule) BY <1>1 DEF Rules, NoNewer
<1> QED BY <1>1, <1>2, <1>3, <1>4, TsConsts DEF TsRulesInv, OwnRuleKept, Sharers, Current, RunRules

\* Rules are compared container by container.
LEMMA NewerStill ==
  ASSUME NEW r \in Rules, NEW s \in Rules, NEW t \in Rules, NoNewer(r, s), NoNewer(s, t)
  PROVE NoNewer(r, t)
BY DEF NoNewer, Rules

LEMMA NotNewerThanItself == \A r \in Rules : NoNewer(r, r)
BY DEF NoNewer, Rules

\* A step that leaves the index's rules, the run and what the rules were.
LEMMA TsRulesQuiet ==
  ASSUME TsInv, TsInv', TsRulesInv,
         UNCHANGED <<tsNow, tsRule, tsThen, tsBound, tsPassed, tsCk, tsRun>>,
         \A x \in TsConvs : tsIdx'[x].rule = tsIdx[x].rule /\ tsIdx'[x].at = tsIdx[x].at,
         \A x \in TsConvs : tsIdx[x].at > 0 /\ x \in walk => x \in walk'
  PROVE TsRulesInv'
<1>1. tick' = tick BY DEF tick
<1>2. Due' <=> Due BY DEF Due
<1>3. \A x \in TsConvs : \A r : Current(x, r)' <=> Current(x, r) BY DEF Current
<1>4. \A x \in TsConvs : tsIdx[x].at > 0 /\ CaughtUp(x)' => CaughtUp(x) BY DEF CaughtUp
<1>5. \A x \in TsConvs : tsIdx[x].at = 0 => \A r : Current(x, r) BY DEF Current
<1>6. \A x \in TsConvs : tsIdx[x].at \in Nat BY DEF TsInv, TsTyped
<1>7. ASSUME tsRun.on, Due, NEW x \in Sharers, CaughtUp(x)' PROVE Current(x, tsRun.bound)'
  <2>1. x \in TsConvs BY DEF Sharers
  <2>2. CASE tsIdx[x].at = 0 BY <1>3, <1>5, <2>1, <2>2 DEF Current
  <2>3. CASE tsIdx[x].at > 0
    <3>1. Current(x, tsRun.bound) BY <1>4, <1>7, <2>1, <2>3 DEF TsRulesInv, RunRules
    <3> QED BY <3>1, <2>1 DEF Current
  <2> QED BY <1>6, <2>1, <2>2, <2>3
<1>8. RunRules'
  <2> SUFFICES ASSUME tsRun.on PROVE RunRules' BY DEF RunRules
  <2>1. Due' => \A x \in Sharers : CaughtUp(x)' => Current(x, tsRun.bound)' BY <1>2, <1>7
  <2> QED BY <1>1, <1>2, <2>1 DEF TsRulesInv, RunRules, NoNewer
<1>9. OwnRuleKept' BY TsConsts DEF TsRulesInv, OwnRuleKept
<1> QED BY <1>1, <1>3, <1>8, <1>9 DEF TsRulesInv, NoNewer, Sharers, Current

LEMMA TsWriteRules ==
  ASSUME TsInv, TsInv', TsRulesInv, NEW w \in TsConvs, TsWrite(w)
  PROVE TsRulesInv'
<1>1. /\ tsConv[w] < tsNow /\ tsConv' = [tsConv EXCEPT ![w] = tsNow]
      /\ UNCHANGED <<tsNow, tsRule, tsThen, tsBound, tsPassed, tsCk, tsRun, tsIdx>>
  BY DEF TsWrite, tsKeepsCrawl
<1>2. tsConv \in [TsConvs -> Nat] /\ tsNow \in Nat \ {0} BY DEF TsInv, TsTyped
<1>3. ASSUME tsRun.on, NEW x \in walk PROVE x \in walk'
  <2>1. x \in TsConvs /\ TsHome[x] = tsRun.c /\ tsConv[x] > 0 /\ tsConv[x] >= tsRun.since
        /\ (tsConv[x] > tsRun.pos[1] \/ (tsConv[x] = tsRun.pos[1] /\ x > tsRun.pos[2]))
    BY <1>3 DEF walk, held
  <2>2. tsRun.since \in Nat /\ tsRun.pos[1] \in Nat /\ tsRun.pos[2] \in Nat
    BY <1>3, RunTyped, RunFields DEF TsInv
  <2>3. tsConv'[x] = IF x = w THEN tsNow ELSE tsConv[x] BY <1>1, <1>2, <2>1
  <2>4. tsConv'[x] >= tsRun.since /\ tsConv'[x] > 0
        /\ (tsConv'[x] > tsRun.pos[1] \/ (tsConv'[x] = tsRun.pos[1] /\ x > tsRun.pos[2]))
    BY <1>1, <1>2, <2>1, <2>2, <2>3
  <2> QED BY <1>1, <2>1, <2>4 DEF walk, held
<1>4. CASE tsRun.on BY <1>1, <1>3, <1>4, TsRulesQuiet
<1>5. CASE ~tsRun.on
  <2>1. tick' = tick BY <1>1 DEF tick
  <2> QED BY <1>1, <1>5, <2>1 DEF TsRulesInv, RunRules, OwnRuleKept, NoNewer, Current, Sharers
<1> QED BY <1>4, <1>5

LEMMA TsTimeRules ==
  ASSUME TsInv, TsInv', TsRulesInv, (\E c \in 1 .. TsConts : TsRewrite(c)) \/ TsTick
  PROVE TsRulesInv'
<1>1. UNCHANGED <<tsConv, tsIdx, tsCk, tsRun, tsBound, tsPassed>> BY DEF TsRewrite, TsTick, tsKeepsCrawl
<1>2. /\ tsRule \in Rules /\ tsThen \in Rules /\ tsNow \in Nat /\ tsBound \in Rules /\ tsRule' \in Rules /\ tsThen' \in Rules
      /\ tsCk.perms \in Nat /\ tick \in Nat
  BY PointFields, TickBehind DEF TsInv, TsTyped, TsRulesInv
<1>3. /\ tick' \in Nat /\ tick <= tick'
      /\ (tsThen' = tsThen \/ (tsThen' = tsRule /\ tick < tick'))
      /\ NoNewer(tsRule, tsRule')
  <2>1. CASE TsTick
    <3>1. tsRule' = tsRule /\ tsThen' = IF (tsNow + 1) % TsEvery = 0 THEN tsRule ELSE tsThen BY <2>1 DEF TsTick
    <3> QED BY <1>2, <2>1, <3>1, TickGrows, NotNewerThanItself
  <2>2. ASSUME NEW c \in 1 .. TsConts, TsRewrite(c)
        PROVE tick' = tick /\ tsThen' = tsThen /\ NoNewer(tsRule, tsRule')
    <3>1. tsNow' = tsNow /\ tsThen' = tsThen /\ tsRule' = [tsRule EXCEPT ![c] = @ + 1] BY <2>2 DEF TsRewrite
    <3>2. NoNewer(tsRule, tsRule') BY <1>2, <3>1 DEF NoNewer, Rules
    <3> QED BY <3>1, <3>2 DEF tick
  <2> QED BY <1>2, <2>1, <2>2
<1>4. NoNewer(tsThen, tsThen') /\ NoNewer(tsThen', tsRule')
  BY <1>2, <1>3, NewerStill, NotNewerThanItself DEF TsRulesInv
<1>5. NoNewer(tsBound, tsThen') BY <1>2, <1>4, NewerStill DEF TsRulesInv
<1>6. tsCk.perms <= tick' /\ (tsCk.perms = tick' => tsThen' = tsBound)
  BY <1>2, <1>3 DEF TsRulesInv
<1>7. RunRules'
  <2> SUFFICES ASSUME tsRun.on PROVE RunRules' BY <1>1 DEF RunRules
  <2>1. RunRules!2 BY DEF TsRulesInv, RunRules
  <2>2. tsRun \in Runs BY RunTyped DEF TsInv
  <2>3. tsRun.tick \in Nat /\ tsRun.bound \in Rules BY <2>2, RunFields
  <2>4. tsRun.tick <= tick' /\ (tsRun.tick = tick' => tsRun.bound = tsThen') BY <1>2, <1>3, <2>1, <2>3
  <2>5. NoNewer(tsRun.bound, tsThen') BY <1>2, <1>4, <2>1, <2>3, NewerStill
  <2>6. (Due' <=> Due) /\ (\A x \in Sharers : CaughtUp(x)' <=> CaughtUp(x))
        /\ (\A x \in Sharers : Current(x, tsRun.bound)' <=> Current(x, tsRun.bound))
    BY <1>1 DEF Due, CaughtUp, Current, walk, held, Sharers
  <2> QED BY <1>1, <2>1, <2>4, <2>5, <2>6 DEF RunRules, NoNewer
<1> QED BY <1>1, <1>4, <1>5, <1>6, <1>7 DEF TsRulesInv, OwnRuleKept, Current, NoNewer

LEMMA EntersRules ==
  ASSUME NEW r \in Runs, NEW c \in 1 .. TsConts
  PROVE LET e == enters(r, c)
        IN e.full = r.full /\ e.rules = r.rules /\ e.bound = r.bound
           /\ e.left = IF ~r.full /\ r.tick > r.start.perms THEN held(c) ELSE {}
BY DEF enters, Runs

\* A container that is entered holds nothing that is caught up on.
LEMMA NothingCaughtUp ==
  ASSUME TsInv, TsInv', UNCHANGED <<tsConv, tsIdx>>, NEW x \in TsConvs, tsRun'.on, Due', TsHome[x] = tsRun'.c,
         tsRun'.pos = <<0, 0>>, tsRun'.left = IF ~tsRun'.full /\ Due' THEN held(tsRun'.c) ELSE {},
         tsRun'.full => tsRun'.start = ZeroPoint, x \notin tsRun'.left, tsRun'.full => x \notin walk'
  PROVE tsIdx[x].at = 0
<1>1. tsConv[x] \in Nat /\ tsIdx[x].at \in Nat /\ tsIdx[x].at <= tsConv[x] BY DEF TsInv, TsTyped
<1>2. CASE ~tsRun'.full
  <2>1. x \notin held(tsRun'.c) BY <1>2
  <2> QED BY <1>1, <2>1 DEF held
<1>3. CASE tsRun'.full
  <2>1. tsRun'.start.since = 0 /\ tsRun'.start.at = 0 BY <1>3 DEF ZeroPoint, syncPoint
  <2>2. tsRun'.since = 0 BY <2>1 DEF TsInv, RunSound, From
  <2>3. x \notin walk' BY <1>3
  <2>4. ~(tsConv[x] > 0) BY <1>1, <2>2, <2>3 DEF walk, held
  <2> QED BY <1>1, <2>4
<1> QED BY <1>2, <1>3

LEMMA TsSyncRules ==
  ASSUME TsInv, TsInv', TsRulesInv, TsSync
  PROVE TsRulesInv'
<1> DEFINE r == [on |-> TRUE, start |-> tsCk, full |-> tsCk = ZeroPoint, rules |-> tsRule, tick |-> tick,
                 bound |-> tsThen, c |-> first(tsCk), since |-> 0, pos |-> <<0, 0>>, left |-> {},
                 high |-> tsCk.since, edge |-> tsCk.edge]
           c == first(tsCk)
<1>1. /\ tsRun' = enters(r, c)
      /\ UNCHANGED <<tsNow, tsConv, tsRule, tsThen, tsIdx, tsCk, tsBound, tsPassed>>
  BY DEF TsSync, tsKeepsSource
<1>2. tsCk \in Points /\ tsNow \in Nat /\ tick \in Nat /\ tsRule \in Rules /\ tsThen \in Rules /\ tsBound \in Rules
      /\ tsConv \in [TsConvs -> Nat]
  BY TickBehind DEF TsInv, TsTyped, TsRulesInv
<1>3. tsCk.cont \in Nat /\ tsCk.cont <= TsConts /\ tsCk.since \in Nat /\ tsCk.edge \subseteq TsConvs
  BY <1>2, PointFields
<1>4. c \in 1 .. TsConts /\ tsCk.cont <= c /\ (tsCk.cont # 0 => c = tsCk.cont) /\ (tsCk.cont = 0 => c = 1)
  BY <1>3, TsConsts DEF first
<1>5. r \in Runs
  <2>1. c \in 1 .. TsConts /\ <<0, 0>> \in Nat \X Nat BY <1>4
  <2> QED BY <1>2, <1>3, <2>1 DEF Runs
<1>6. r.start = tsCk /\ r.tick = tick /\ r.full = (tsCk = ZeroPoint) /\ r.bound = tsThen /\ r.rules = tsRule
  OBVIOUS
<1> HIDE DEF r, c
<1>7. /\ tsRun'.c = c /\ tsRun'.pos = <<0, 0>> /\ tsRun'.start = tsCk /\ tsRun'.tick = tick
      /\ tsRun'.full = (tsCk = ZeroPoint) /\ tsRun'.bound = tsThen /\ tsRun'.rules = tsRule
      /\ tsRun'.left = IF ~tsRun'.full /\ tick > tsCk.perms THEN held(c) ELSE {}
  BY <1>1, <1>4, <1>5, <1>6, Enters, EntersRules
<1>8. tick' = tick /\ (Due' <=> tick > tsCk.perms) BY <1>1, <1>7 DEF tick, Due
<1>9. ASSUME Due', NEW x \in Sharers, CaughtUp(x)' PROVE Current(x, tsRun.bound)'
  <2>1. x \in TsConvs /\ TsHome[x] \in 1 .. TsConts BY TsConsts DEF Sharers
  <2>2. TsHome[x] = c /\ x \notin tsRun'.left /\ (tsRun'.full => x \notin walk')
    <3>1. tsCk.cont <= TsHome[x] /\ (TsHome[x] < c \/ (TsHome[x] = c /\ x \notin tsRun'.left /\ (tsRun'.full => x \notin walk')))
      BY <1>7, <1>9 DEF CaughtUp
    <3>2. TsHome[x] \in Nat \ {0} /\ c \in Nat BY <2>1, <1>4, TsConsts
    <3> QED BY <1>3, <1>4, <3>1, <3>2
  <2>3. tsRun'.on
    <3>1. enters(r, c) \in Runs BY <1>4, <1>5, Enters
    <3> QED BY <1>1, <3>1, RunFields
  <2>4. tsRun'.left = IF ~tsRun'.full /\ Due' THEN held(tsRun'.c) ELSE {} BY <1>7, <1>8
  <2>5. tsIdx[x].at = 0 BY <1>1, <1>7, <1>9, <2>1, <2>2, <2>3, <2>4, NothingCaughtUp
  <2> QED BY <1>1, <2>1, <2>5 DEF Current
<1>10. RunRules'
  <2>1. tsRun'.tick <= tick /\ NoNewer(tsThen, tsThen) /\ tsCk.perms <= tick /\ NoNewer(tsThen, tsRule) /\ NoNewer(tsBound, tsThen)
        /\ (tsCk.perms = tick => tsThen = tsBound)
    BY <1>2, <1>7, NotNewerThanItself DEF TsRulesInv
  <2>2. tsRun'.left # {} => Due' /\ ~tsRun'.full BY <1>7, <1>8
  <2>3. \A x \in Sharers : Due' /\ CaughtUp(x)' => Current(x, tsRun.bound)' BY <1>9
  <2> QED BY <1>1, <1>7, <1>8, <2>1, <2>2, <2>3 DEF RunRules, NoNewer
<1> QED BY <1>1, <1>8, <1>10 DEF TsRulesInv, OwnRuleKept, NoNewer, Current

LEMMA TsNextContainerRules ==
  ASSUME TsInv, TsInv', TsRulesInv, TsNextContainer
  PROVE TsRulesInv'
<1>1. /\ tsRun.on /\ tsRun.left = {} /\ walk = {} /\ tsRun.c < TsConts /\ tsRun' = enters(tsRun, tsRun.c + 1)
      /\ UNCHANGED <<tsNow, tsConv, tsRule, tsThen, tsIdx, tsCk, tsBound, tsPassed>>
  BY DEF TsNextContainer, tsKeepsSource
<1>2. tsRun \in Runs BY <1>1, RunTyped DEF TsInv
<1>3. tsRun.c \in Nat \ {0} /\ TsConts \in Nat BY <1>2, RunFields, TsConsts
<1>4. PICK c : c = tsRun.c + 1 OBVIOUS
<1>5. c \in 1 .. TsConts BY <1>1, <1>3, <1>4
<1>6. RunRules!2 BY <1>1 DEF TsRulesInv, RunRules
<1>7. /\ tsRun'.on /\ tsRun'.c = c /\ tsRun'.pos = <<0, 0>> /\ tsRun'.start = tsRun.start /\ tsRun'.tick = tsRun.tick
      /\ tsRun'.full = tsRun.full /\ tsRun'.bound = tsRun.bound /\ tsRun'.rules = tsRun.rules
      /\ tsRun'.left = IF ~tsRun.full /\ tsRun.tick > tsRun.start.perms THEN held(c) ELSE {}
  <2>1. tsRun' = enters(tsRun, c) /\ enters(tsRun, c) \in Runs BY <1>1, <1>2, <1>4, <1>5, Enters
  <2>2. tsRun'.on BY <2>1, RunFields
  <2> QED BY <1>2, <1>5, <2>1, <2>2, Enters, EntersRules
<1>8. tick' = tick /\ (Due' <=> Due) BY <1>1, <1>7 DEF tick, Due
<1>9. ASSUME Due', NEW x \in Sharers, CaughtUp(x)' PROVE Current(x, tsRun.bound)'
  <2>1. x \in TsConvs /\ TsHome[x] \in Nat BY TsConsts DEF Sharers
  <2>2. tsRun.start.cont <= TsHome[x] /\ (TsHome[x] < c \/ (TsHome[x] = c /\ x \notin tsRun'.left /\ (tsRun'.full => x \notin walk')))
    BY <1>7, <1>9 DEF CaughtUp
  <2>3. CASE TsHome[x] < c
    <3>1. TsHome[x] < tsRun.c \/ TsHome[x] = tsRun.c BY <1>3, <1>4, <2>1, <2>3
    <3>2. CaughtUp(x) BY <1>1, <2>2, <3>1 DEF CaughtUp
    <3>3. Current(x, tsRun.bound) BY <1>6, <1>8, <1>9, <3>2
    <3> QED BY <1>1, <1>7, <3>3 DEF Current
  <2>4. CASE TsHome[x] = c /\ x \notin tsRun'.left /\ (tsRun'.full => x \notin walk')
    <3>1. tsRun'.left = IF ~tsRun'.full /\ Due' THEN held(tsRun'.c) ELSE {} BY <1>7, <1>8 DEF Due
    <3>2. tsRun'.full => tsRun'.start = ZeroPoint BY <1>6, <1>7
    <3>3. tsIdx[x].at = 0 BY <1>1, <1>7, <1>9, <2>1, <2>4, <3>1, <3>2, NothingCaughtUp
    <3> QED BY <1>1, <2>1, <3>3 DEF Current
  <2> QED BY <2>2, <2>3, <2>4
<1>10. RunRules'
  <2>1. tsRun'.left # {} => Due' /\ ~tsRun'.full BY <1>7, <1>8 DEF Due
  <2>2. \A x \in Sharers : Due' /\ CaughtUp(x)' => Current(x, tsRun.bound)' BY <1>9
  <2> QED BY <1>1, <1>6, <1>7, <1>8, <2>1, <2>2 DEF RunRules, NoNewer
<1> QED BY <1>1, <1>8, <1>10 DEF TsRulesInv, OwnRuleKept, NoNewer, Current

\* What a conversation is given is at least as new as the rules a run is held to.
LEMMA AccessCurrent ==
  ASSUME NEW x \in Sharers, NEW r \in Rules, NEW s \in Rules, NoNewer(s, r)
  PROVE access(x, r) >= s[TsHome[x]]
<1>1. x \notin TsOwn /\ TsHome[x] \in 1 .. TsConts BY TsConsts DEF Sharers
<1> QED BY <1>1 DEF access, NoNewer, Rules

\* What is at least as new as newer rules is as new as older ones.
LEMMA CurrentStill ==
  ASSUME TsTyped, NEW x \in Sharers, NEW r \in Rules, NEW s \in Rules, NoNewer(s, r), Current(x, r)
  PROVE Current(x, s)
<1>1. x \in TsConvs /\ TsHome[x] \in 1 .. TsConts BY TsConsts DEF Sharers
<1>2. r[TsHome[x]] \in Nat /\ s[TsHome[x]] \in Nat /\ s[TsHome[x]] <= r[TsHome[x]] BY <1>1 DEF Rules, NoNewer
<1>3. tsIdx[x].rule \in Int BY <1>1 DEF TsTyped
<1> QED BY <1>2, <1>3 DEF Current

LEMMA TsRefreshRules ==
  ASSUME TsInv, TsInv', TsRulesInv, NEW w \in TsConvs, TsRefresh(w)
  PROVE TsRulesInv'
<1>1. /\ tsRun.on /\ w \in tsRun.left /\ UNCHANGED <<tsNow, tsConv, tsRule, tsThen, tsBound>>
      /\ tsRun' = [tsRun EXCEPT !.left = @ \ {w}]
      /\ tsCk' \in {tsCk, resume(tsRun.start, tsRun.c, tsRun.start.at)}
      /\ tsPassed' = IF tsRun.left = {w} THEN tsPassed \ {tsRun.c} ELSE tsPassed
      /\ tsIdx' = IF tsIdx[w].at = 0 THEN tsIdx ELSE [tsIdx EXCEPT ![w].rule = access(w, tsRun.rules)]
  BY DEF TsRefresh, tsKeepsSource, saves
<1>2. tsRun \in Runs BY <1>1, RunTyped DEF TsInv
<1>3. tsRun.rules \in Rules /\ tsRun.bound \in Rules /\ tsBound \in Rules BY <1>2, RunFields DEF TsRulesInv
<1>4. RunRules!2 BY <1>1 DEF TsRulesInv, RunRules
<1>5. Due /\ ~tsRun.full BY <1>1, <1>4
<1>6. tsRun' = [tsRun EXCEPT !.left = tsRun.left \ {w}] BY <1>1
<1>7. /\ tsRun'.on /\ tsRun'.c = tsRun.c /\ tsRun'.start = tsRun.start /\ tsRun'.tick = tsRun.tick
      /\ tsRun'.full = tsRun.full /\ tsRun'.bound = tsRun.bound /\ tsRun'.rules = tsRun.rules
      /\ tsRun'.left = tsRun.left \ {w}
  BY <1>1, <1>2, <1>6 DEF Runs
<1>8. tick' = tick /\ Due' BY <1>1, <1>5, <1>7 DEF tick, Due
<1>9. tsCk'.perms = tsRun.start.perms
  <2>1. resume(tsRun.start, tsRun.c, tsRun.start.at).perms = tsRun.start.perms BY DEF resume, syncPoint
  <2> QED BY <1>1, <1>4, <2>1
<1>10. tsIdx \in [TsConvs -> [at: Nat, rule: Int]] BY DEF TsInv, TsTyped
<1>11. /\ \A x \in TsConvs : tsIdx'[x].at = tsIdx[x].at
       /\ \A x \in TsConvs \ {w} : tsIdx'[x].rule = tsIdx[x].rule
       /\ tsIdx[w].at > 0 => tsIdx'[w].rule = access(w, tsRun.rules)
  <2>1. access(w, tsRun.rules) \in Int BY <1>3, AccessTyped
  <2> QED BY <1>1, <1>10, <2>1
<1>12. OwnRuleKept'
  <2>1. w \in TsOwn => access(w, tsRun.rules) = OwnRule BY DEF access
  <2> QED BY <1>11, <2>1, TsConsts DEF TsRulesInv, OwnRuleKept
<1>13. ASSUME NEW x \in Sharers, CaughtUp(x)' PROVE Current(x, tsRun.bound)'
  <2>1. x \in TsConvs BY DEF Sharers
  <2>2. CASE x = w
    <3>1. access(x, tsRun.rules) >= tsRun.bound[TsHome[x]] BY <1>3, <1>4, AccessCurrent
    <3> QED BY <1>7, <1>11, <2>1, <2>2, <3>1 DEF Current
  <2>3. CASE x # w
    <3>1. CaughtUp(x) BY <1>5, <1>7, <1>13, <2>3 DEF CaughtUp
    <3>2. Current(x, tsRun.bound) BY <1>4, <1>5, <3>1
    <3> QED BY <1>7, <1>11, <2>1, <2>3, <3>2 DEF Current
  <2> QED BY <2>2, <2>3
<1>14. ASSUME NEW x \in Sharers, CaughtUp(x)' PROVE Current(x, tsBound)'
  <2>1. Current(x, tsRun.bound)' BY <1>13, <1>14
  <2>2. PICK r : r = tsRun.bound /\ r \in Rules BY <1>3
  <2>3. PICK s : s = tsBound /\ s \in Rules BY <1>3
  <2>4. Current(x, r)' BY <1>7, <2>1, <2>2 DEF Current
  <2>5. NoNewer(s, r) BY <1>4, <2>2, <2>3
  <2>6. TsTyped' BY DEF TsInv
  <2>7. Current(x, s)'
    <3>1. x \in TsConvs /\ TsHome[x] \in 1 .. TsConts BY TsConsts DEF Sharers
    <3>2. r[TsHome[x]] \in Nat /\ s[TsHome[x]] \in Nat /\ s[TsHome[x]] <= r[TsHome[x]] BY <3>1, <2>2, <2>3, <2>5 DEF Rules, NoNewer
    <3>3. tsIdx'[x].rule \in Int BY <3>1, <2>6 DEF TsTyped
    <3> QED BY <2>4, <3>2, <3>3 DEF Current
  <2> QED BY <1>1, <2>3, <2>7 DEF Current
<1>15. ASSUME NEW x \in Sharers, TsHome[x] \notin tsPassed' PROVE Current(x, tsBound)'
  <2>1. x \in TsConvs BY DEF Sharers
  <2>2. CASE TsHome[x] \notin tsPassed /\ x # w
    <3>1. Current(x, tsBound) BY <2>2 DEF TsRulesInv
    <3> QED BY <1>1, <1>11, <2>1, <2>2, <3>1 DEF Current
  <2>3. CASE x = w
    <3>1. access(x, tsRun.rules) >= tsBound[TsHome[x]]
      <4>1. NoNewer(tsBound, tsRun.rules) BY <1>3, <1>4, NewerStill
      <4> QED BY <1>3, <4>1, AccessCurrent
    <3> QED BY <1>1, <1>11, <2>1, <2>3, <3>1 DEF Current
  <2>4. CASE TsHome[x] \in tsPassed /\ x # w
    <3>1. TsHome[x] = tsRun.c /\ tsRun.left = {w} BY <1>1, <1>15, <2>4
    <3>2. tsRun.start.cont <= tsRun.c BY <1>1 DEF TsInv, RunSound
    <3>3. CaughtUp(x)' BY <1>5, <1>7, <2>4, <3>1, <3>2 DEF CaughtUp
    <3> QED BY <1>14, <3>3
  <2> QED BY <2>2, <2>3, <2>4
<1>16. RunRules'
  <2>1. \A x \in Sharers : CaughtUp(x)' => Current(x, tsRun.bound)' BY <1>13
  <2> QED BY <1>1, <1>4, <1>5, <1>7, <1>8, <1>9, <2>1 DEF RunRules, NoNewer
<1>17. NoNewer(tsBound, tsThen)' /\ NoNewer(tsThen, tsRule)' /\ (tsBound \in Rules)'
  BY <1>1 DEF TsRulesInv, NoNewer
<1>18. tsCk'.perms <= tick' /\ (tsCk'.perms = tick' => tsThen' = tsBound')
  BY <1>1, <1>4, <1>8, <1>9 DEF TsRulesInv
<1> QED BY <1>12, <1>15, <1>16, <1>17, <1>18 DEF TsRulesInv

LEMMA TsWalkRules ==
  ASSUME TsInv, TsInv', TsRulesInv, TsWalk
  PROVE TsRulesInv'
<1>1. PICK x : x = next OBVIOUS
<1>2. /\ tsRun.on /\ tsRun.left = {} /\ walk # {} /\ UNCHANGED <<tsNow, tsConv, tsRule, tsThen, tsBound, tsPassed>>
  BY DEF TsWalk, tsKeepsSource
<1>3. x \in walk /\ \A y \in walk : tsConv[x] < tsConv[y] \/ (tsConv[x] = tsConv[y] /\ x <= y)
  BY <1>1, <1>2, NextIsOldest DEF TsInv
<1>4. tsRun \in Runs BY <1>2, RunTyped DEF TsInv
<1>5. x \in TsConvs /\ tsConv[x] \in Nat /\ x \in Nat /\ tsConv[x] > 0 BY <1>3, TsConsts DEF walk, held, TsInv, TsTyped
<1> DEFINE on == [tsRun EXCEPT !.pos = <<tsConv[x], x>>]
<1>6. /\ on.on /\ on.start = tsRun.start /\ on.c = tsRun.c /\ on.since = tsRun.since /\ on.tick = tsRun.tick
      /\ on.pos = <<tsConv[x], x>> /\ on.full = tsRun.full /\ on.bound = tsRun.bound /\ on.rules = tsRun.rules
      /\ on.left = tsRun.left /\ on \in Runs
  <2>1. <<tsConv[x], x>> \in Nat \X Nat BY <1>5
  <2> QED BY <1>4, <2>1 DEF Runs
<1>7. \/ /\ wanted(x, tsRun.start)
         /\ tsIdx' = [tsIdx EXCEPT ![x] = [at |-> tsConv[x], rule |-> access(x, tsRun.rules)]]
         /\ tsCk' \in {tsCk, resume(tsRun.start, tsRun.c, tsConv[x])}
         /\ tsRun' = marked(on, x)
      \/ /\ ~wanted(x, tsRun.start) /\ tsRun' = on /\ UNCHANGED <<tsIdx, tsCk>>
  BY <1>1 DEF TsWalk, saves
<1> HIDE DEF on
<1>8. /\ tsRun'.on /\ tsRun'.start = tsRun.start /\ tsRun'.c = tsRun.c /\ tsRun'.since = tsRun.since /\ tsRun'.tick = tsRun.tick
      /\ tsRun'.pos = <<tsConv[x], x>> /\ tsRun'.full = tsRun.full /\ tsRun'.bound = tsRun.bound /\ tsRun'.rules = tsRun.rules
      /\ tsRun'.left = {}
  <2>1. \A f \in {"on", "start", "c", "since", "tick", "pos", "full", "bound", "rules", "left"} : marked(on, x)[f] = on[f]
    BY <1>6 DEF marked, Runs
  <2> QED BY <1>2, <1>6, <1>7, <2>1
<1>9. tsRun.rules \in Rules /\ tsRun.bound \in Rules /\ tsBound \in Rules BY <1>4, RunFields DEF TsRulesInv
<1>10. RunRules!2 BY <1>2 DEF TsRulesInv, RunRules
<1>11. tick' = tick /\ (Due' <=> Due) BY <1>2, <1>8 DEF tick, Due
<1>12. tsCk'.perms = tsRun.start.perms
  <2>1. resume(tsRun.start, tsRun.c, tsConv[x]).perms = tsRun.start.perms BY DEF resume, syncPoint
  <2> QED BY <1>7, <1>10, <2>1
<1>13. tsIdx \in [TsConvs -> [at: Nat, rule: Int]] BY DEF TsInv, TsTyped
<1>14. /\ \A y \in TsConvs \ {x} : tsIdx'[y] = tsIdx[y]
       /\ wanted(x, tsRun.start) => tsIdx'[x].rule = access(x, tsRun.rules)
       /\ ~wanted(x, tsRun.start) => tsIdx' = tsIdx
  BY <1>5, <1>7, <1>13
<1>15. OwnRuleKept'
  <2>1. x \in TsOwn => access(x, tsRun.rules) = OwnRule BY DEF access
  <2> QED BY <1>14, <2>1, TsConsts DEF TsRulesInv, OwnRuleKept
<1>16. ASSUME NEW y \in Sharers, y # x, CaughtUp(y)' PROVE CaughtUp(y)
  <2>1. y \in TsConvs /\ y \in Nat /\ tsConv[y] \in Nat BY TsConsts DEF Sharers, TsInv, TsTyped
  <2>2. y \in walk => y \in walk'
    <3> SUFFICES ASSUME y \in walk PROVE y \in walk' OBVIOUS
    <3>1. tsConv[x] < tsConv[y] \/ (tsConv[x] = tsConv[y] /\ x < y) BY <1>3, <1>5, <1>16, <2>1
    <3>2. y \in held(tsRun.c) /\ tsConv[y] >= tsRun.since BY DEF walk
    <3>3. held(tsRun.c)' = held(tsRun.c) /\ tsConv'[y] = tsConv[y] /\ tsRun'.since = tsRun.since BY <1>2, <1>8 DEF held
    <3>4. tsRun'.pos[1] = tsConv[x] /\ tsRun'.pos[2] = x BY <1>8
    <3> QED BY <1>5, <2>1, <3>1, <3>2, <3>3, <3>4 DEF walk
  <2> QED BY <1>2, <1>8, <1>16, <2>2 DEF CaughtUp
<1>17. ~wanted(x, tsRun.start) => ~tsRun.full
  <2>1. tsRun.full => tsRun.start.since = 0 BY <1>10 DEF ZeroPoint, syncPoint
  <2> QED BY <1>5, <2>1 DEF wanted
<1>18. ASSUME Due', NEW y \in Sharers, CaughtUp(y)' PROVE Current(y, tsRun.bound)'
  <2>1. y \in TsConvs BY DEF Sharers
  <2>2. CASE y # x
    <3>1. Current(y, tsRun.bound) BY <1>10, <1>11, <1>16, <1>18, <2>2
    <3> QED BY <1>8, <1>14, <2>1, <2>2, <3>1 DEF Current
  <2>3. CASE y = x /\ wanted(x, tsRun.start)
    <3>1. access(y, tsRun.rules) >= tsRun.bound[TsHome[y]] BY <1>9, <1>10, AccessCurrent
    <3> QED BY <1>8, <1>14, <2>1, <2>3, <3>1 DEF Current
  <2>4. CASE y = x /\ ~wanted(x, tsRun.start)
    <3>1. CaughtUp(y) BY <1>2, <1>8, <1>17, <1>18, <2>4 DEF CaughtUp
    <3>2. Current(y, tsRun.bound) BY <1>10, <1>11, <1>18, <3>1
    <3> QED BY <1>8, <1>14, <2>1, <2>4, <3>2 DEF Current
  <2> QED BY <2>2, <2>3, <2>4
<1>19. ASSUME NEW y \in Sharers, TsHome[y] \notin tsPassed PROVE Current(y, tsBound)'
  <2>1. y \in TsConvs BY DEF Sharers
  <2>2. CASE y # x \/ ~wanted(x, tsRun.start)
    <3>1. Current(y, tsBound) BY <1>19 DEF TsRulesInv
    <3> QED BY <1>2, <1>14, <2>1, <2>2, <3>1 DEF Current
  <2>3. CASE y = x /\ wanted(x, tsRun.start)
    <3>1. NoNewer(tsBound, tsRun.rules) BY <1>9, <1>10, NewerStill
    <3>2. access(y, tsRun.rules) >= tsBound[TsHome[y]] BY <1>9, <3>1, AccessCurrent
    <3> QED BY <1>2, <1>14, <2>1, <2>3, <3>2 DEF Current
  <2> QED BY <2>2, <2>3
<1>20. RunRules'
  <2>1. \A y \in Sharers : Due' /\ CaughtUp(y)' => Current(y, tsRun.bound)' BY <1>18
  <2> QED BY <1>2, <1>8, <1>10, <1>11, <1>12, <2>1 DEF RunRules, NoNewer
<1>21. tsCk'.perms <= tick' /\ (tsCk'.perms = tick' => tsThen' = tsBound')
  BY <1>2, <1>10, <1>11, <1>12 DEF TsRulesInv
<1> QED BY <1>2, <1>15, <1>19, <1>20, <1>21 DEF TsRulesInv, NoNewer

LEMMA TsFinishRules ==
  ASSUME TsInv, TsInv', TsRulesInv, TsFinish
  PROVE TsRulesInv'
<1> DEFINE latest == IF tsRun.tick > tsRun.start.perms THEN tsRun.tick ELSE tsRun.start.perms
<1>1. /\ tsRun.on /\ tsRun.left = {} /\ walk = {} /\ tsRun.c = TsConts /\ tsRun' = tsNoRun
      /\ tsCk' = IF tsRun.high = 0 /\ latest = 0 THEN tsRun.start ELSE syncPoint(tsRun.high, tsRun.edge, latest, 0, 0)
      /\ tsBound' = tsRun.bound
      /\ tsPassed' = tsPassed \union (IF Due THEN 1 .. (tsRun.start.cont - 1) ELSE {})
      /\ UNCHANGED <<tsNow, tsConv, tsRule, tsThen, tsIdx>>
  BY DEF TsFinish, Due
<1>2. tsRun \in Runs BY <1>1, RunTyped DEF TsInv
<1>3. RunRules!2 BY <1>1 DEF TsRulesInv, RunRules
<1>4. /\ tsRun.tick \in Nat /\ tsRun.start.perms \in Nat /\ tsRun.start.cont \in Nat /\ tsRun.bound \in Rules
      /\ tsBound \in Rules /\ tsThen \in Rules
  BY <1>2, RunFields, PointFields DEF TsRulesInv, TsInv, TsTyped
<1>5. latest = tsRun.tick BY <1>3, <1>4
<1>6. tsCk'.perms = tsRun.tick
  <2>1. CASE tsRun.high = 0 /\ latest = 0
    <3>1. tsRun.start.perms = 0 BY <1>3, <1>4, <1>5, <2>1
    <3> QED BY <1>1, <1>5, <2>1, <3>1
  <2>2. CASE ~(tsRun.high = 0 /\ latest = 0)
    BY <1>1, <1>5, <2>2 DEF syncPoint
  <2> QED BY <2>1, <2>2
<1>7. tick' = tick /\ ~tsRun'.on BY <1>1 DEF tick, tsNoRun
<1>8. tsCk'.perms <= tick' /\ (tsCk'.perms = tick' => tsThen' = tsBound') BY <1>1, <1>3, <1>6, <1>7
<1>9. ASSUME NEW x \in Sharers, TsHome[x] \notin tsPassed' PROVE Current(x, tsBound)'
  <2>1. TsHome[x] \in Nat \ {0} /\ TsHome[x] <= TsConts BY TsConsts DEF Sharers
  <2>2. CASE Due
    <3>1. tsRun.start.cont <= TsHome[x] BY <1>1, <1>4, <1>9, <2>1, <2>2
    <3>2. CaughtUp(x) BY <1>1, <2>1, <3>1, TsConsts DEF CaughtUp
    <3>3. Current(x, tsRun.bound) BY <1>3, <2>2, <3>2
    <3> QED BY <1>1, <3>3 DEF Current
  <2>3. CASE ~Due
    <3>1. tsRun.bound = tsBound BY <1>3, <1>4, <2>3 DEF Due
    <3>2. Current(x, tsBound) BY <1>1, <1>9, <2>3 DEF TsRulesInv
    <3> QED BY <1>1, <3>1, <3>2 DEF Current
  <2> QED BY <2>2, <2>3
<1> QED BY <1>1, <1>3, <1>4, <1>7, <1>8, <1>9 DEF TsRulesInv, RunRules, OwnRuleKept, NoNewer

LEMMA TsFailRules ==
  ASSUME TsInv, TsInv', TsRulesInv, TsFail
  PROVE TsRulesInv'
<1>1. tsRun' = tsNoRun /\ UNCHANGED <<tsNow, tsConv, tsRule, tsThen, tsIdx, tsCk, tsBound, tsPassed>>
  BY DEF TsFail, tsKeepsSource
<1>2. tick' = tick /\ ~tsRun'.on BY <1>1 DEF tick, tsNoRun
<1> QED BY <1>1, <1>2 DEF TsRulesInv, RunRules, OwnRuleKept, NoNewer, Current

LEMMA TsFetchRules ==
  ASSUME TsInv, TsInv', TsRulesInv, NEW w \in TsConvs, TsFetch(w)
  PROVE TsRulesInv'
<1>1. /\ ~tsRun.on /\ tsIdx' = [tsIdx EXCEPT ![w] = [at |-> tsConv[w], rule |-> access(w, tsRule)]]
      /\ UNCHANGED <<tsNow, tsConv, tsRule, tsThen, tsCk, tsRun, tsBound, tsPassed>>
  BY DEF TsFetch, tsKeepsSource
<1>2. tsIdx \in [TsConvs -> [at: Nat, rule: Int]] /\ tsRule \in Rules /\ tsThen \in Rules /\ tsBound \in Rules
  BY DEF TsInv, TsTyped, TsRulesInv
<1>3. (\A y \in TsConvs \ {w} : tsIdx'[y] = tsIdx[y]) /\ tsIdx'[w].rule = access(w, tsRule) BY <1>1, <1>2
<1>4. OwnRuleKept'
  <2>1. w \in TsOwn => access(w, tsRule) = OwnRule BY DEF access
  <2> QED BY <1>3, <2>1, TsConsts DEF TsRulesInv, OwnRuleKept
<1>5. ASSUME NEW y \in Sharers, TsHome[y] \notin tsPassed PROVE Current(y, tsBound)'
  <2>1. y \in TsConvs BY DEF Sharers
  <2>2. CASE y # w
    <3>1. Current(y, tsBound) BY <1>5 DEF TsRulesInv
    <3> QED BY <1>1, <1>3, <2>1, <2>2, <3>1 DEF Current
  <2>3. CASE y = w
    <3>1. NoNewer(tsBound, tsRule) BY <1>2, NewerStill DEF TsRulesInv
    <3>2. access(y, tsRule) >= tsBound[TsHome[y]] BY <1>2, <3>1, AccessCurrent
    <3> QED BY <1>1, <1>3, <2>3, <3>2 DEF Current
  <2> QED BY <2>2, <2>3
<1>6. tick' = tick BY <1>1 DEF tick
<1> QED BY <1>1, <1>4, <1>5, <1>6 DEF TsRulesInv, RunRules, NoNewer

LEMMA TsRulesStep == TsInv /\ TsInv' /\ TsRulesInv /\ [TsNext]_tsVars => TsRulesInv'
<1> SUFFICES ASSUME TsInv, TsInv', TsRulesInv, [TsNext]_tsVars PROVE TsRulesInv'
  OBVIOUS
<1>1. CASE \E x \in TsConvs : TsWrite(x) \/ TsRefresh(x) \/ TsFetch(x)
  BY <1>1, TsWriteRules, TsRefreshRules, TsFetchRules
<1>2. CASE (\E c \in 1 .. TsConts : TsRewrite(c)) \/ TsTick
  BY <1>2, TsTimeRules
<1>3. CASE TsSync \/ TsWalk \/ TsNextContainer \/ TsFinish \/ TsFail
  BY <1>3, TsSyncRules, TsWalkRules, TsNextContainerRules, TsFinishRules, TsFailRules
<1>4. CASE UNCHANGED tsVars
  <2>1. UNCHANGED <<tsNow, tsConv, tsRule, tsThen, tsBound, tsPassed, tsCk, tsRun, tsIdx>> BY <1>4 DEF tsVars
  <2> QED BY <2>1, TsRulesQuiet DEF walk, held
<1> QED BY <1>1, <1>2, <1>3, <1>4 DEF TsNext

LEMMA TsRulesHold == TsInv /\ TsRulesInv => OwnRuleKept /\ RevocationBounded
<1> SUFFICES ASSUME TsInv, TsRulesInv PROVE OwnRuleKept /\ RevocationBounded
  OBVIOUS
<1> QED BY DEF TsRulesInv, RevocationBounded, Sharers, Current
-----------------------------------------------------------------------------
(* Objects: a bucket's list is applied to whatever the listing passes.     *)

\* What the sync answers for: read, still there, and nothing is known to be wrong with it.
Known(k) ==
  k \in OsWanted /\ k \notin osMissed \union osSkipped \union osBehind /\ osIdx[k].ver # 0 /\ osObj[k].tag # 0
NotOlder(k, n) == osIdx[k].rule = Unresolved \/ osIdx[k].rule >= n
\* The run has come past it since it was last written.
Passed(k) ==
  /\ osRun.start.after < k /\ k <= osRun.pos /\ \A o \in osRun.page : o.key # k
  /\ osRun.more \/ osObj[k].lm < osRun.clock
Resolves(p) == p.loaded /\ ~p.err

PolicySound ==
  /\ osBound <= osAcl /\ osPol.seen <= osAcl /\ osPol.rule \in {Unresolved, osPol.seen}
  /\ Resolves(osPol) => osPol.rule = osPol.seen /\ osPol.seen \notin OsUnmapped /\ osPol.seen # Unseen
  /\ osPol.loaded /\ osPol.err => osPol.rule = Unresolved
  /\ osPol.seen # Unseen => osPol.seen >= osBound
  /\ ~osPol.loaded /\ osPol.seen # Unseen => osCk.perms < osNow

\* Behind the cursor every document is under a list no older than the bound, and
\* under the one remembered unless it moved since the cursor.
InForce == \A k \in OsKeys : Known(k) /\ osObj[k].lm <= osCk.since =>
  /\ NotOlder(k, osBound)
  /\ osPol.seen \notin OsUnmapped \union {Unseen} /\ osPol.changed <= osCk.perms => NotOlder(k, osPol.seen)

RunMarks ==
  /\ osRun.acl <= osAcl /\ osCk.perms = osRun.start.perms /\ osRun.start.perms < osNow
  /\ Resolves(osPol) => osPol.seen >= osRun.acl
  /\ osRun.latest = IF Resolves(osPol) /\ osPol.changed > osRun.start.perms THEN osPol.changed ELSE osRun.start.perms

\* What the run has come past is under the rule the policy answered with, if it was
\* read or the list had moved.
PassedRight == \A k \in OsKeys : Known(k) /\ Passed(k) =>
  /\ osPol.loaded
  /\ osObj[k].lm > osRun.start.since => osIdx[k].rule = osPol.rule
  /\ ~osPol.err /\ osPol.changed > osRun.start.perms => osIdx[k].rule = osPol.rule

\* A page says when what it lists was written, and the last one leaves nothing out.
PageTells ==
  /\ \A o \in osRun.page : \/ osObj[o.key].lm = o.lm \/ o.key \in osBehind \/ osObj[o.key].tag = 0
                           \/ ~osRun.more /\ osObj[o.key].lm >= osRun.clock
  /\ ~osRun.more => \A k \in OsKeys : k > osRun.pos /\ osObj[k].tag # 0 => osObj[k].lm >= osRun.clock

OsRulesInv ==
  /\ osCk.perms <= osEnded /\ osEnded <= osNow /\ osEnded \in Nat
  /\ PolicySound /\ InForce /\ (osRun.on => RunMarks /\ PassedRight /\ PageTells)

\* The rule a policy answers with fits every document that was under the rule before.
Fits(k, p) ==
  /\ NotOlder(k, osBound)
  /\ p.seen \notin OsUnmapped \union {Unseen} /\ p.changed <= osCk.perms => NotOlder(k, p.seen)

LEMMA OsRulesInitInv == OsInit => OsRulesInv
<1>. SUFFICES ASSUME OsInit PROVE OsRulesInv
  OBVIOUS
<1>1. /\ osNow = 2 /\ osAcl = 0 /\ osBound = 0 /\ osEnded = 0 /\ osRun = osNoRun
      /\ osIdx = [k \in OsKeys |-> [ver |-> 0, tag |-> 0, rule |-> -1]]
      /\ osCk = [since |-> 0, perms |-> 0, after |-> 0]
      /\ osPol = [loaded |-> FALSE, err |-> FALSE, rule |-> -1, seen |-> -1, changed |-> 0]
  BY DEF OsInit, osZero, osPoint, osNoPolicy, osAbsent, Unresolved, Unseen
<1>2. ~osRun.on
  BY <1>1 DEF osNoRun
<1>3. PolicySound
  BY <1>1 DEF PolicySound, Resolves, Unresolved, Unseen
<1>4. InForce
  BY <1>1, OsConsts DEF InForce, Known
<1>. QED BY <1>1, <1>2, <1>3, <1>4 DEF OsRulesInv

\* What is written is ahead of the cursor and of the listing, or known to be behind.
LEMMA OsWriteTells ==
  ASSUME OsInv, OsRulesInv, NEW w \in OsKeys, NEW gone_ \in BOOLEAN, OsWrite(w, gone_)
  PROVE  OsRulesInv'
<1>1. OsTyped /\ OsClocked /\ Listing /\ PageSound
  BY DEF OsInv
<1>2. PolicySound /\ InForce /\ (osRun.on => RunMarks /\ PassedRight /\ PageTells)
  BY DEF OsRulesInv
<1>. DEFINE new == IF gone_ THEN [tag |-> 0, lm |-> 0] ELSE [tag |-> osSpent.writes + 1, lm |-> osNow]
<1>3. /\ osObj' = [osObj EXCEPT ![w] = new]
      /\ osBehind' = IF w <= osReached /\ ~gone_ THEN osBehind \union {w} ELSE osBehind \ {w}
      /\ UNCHANGED <<osNow, osAcl, osIdx, osCk, osPol, osRun, osSkipped, osMissed, osBound, osEnded>>
  BY DEF OsWrite, osKeepsSource
<1>4. new.tag # 0 => ~gone_ /\ new.lm = osNow
  OBVIOUS
<1>. HIDE DEF new
<1>5. osObj'[w] = new /\ \A k \in OsKeys : k # w => osObj'[k] = osObj[k]
  BY <1>1, <1>3 DEF OsTyped
<1>6. osNow \in Nat /\ osCk.since \in Nat /\ osCk.since < osNow /\ w \in Nat
  BY <1>1, ObjectFields, OsConsts DEF OsTyped, OsClocked, Held
<1>7. ASSUME NEW k \in OsKeys, Known(k)', k # w PROVE Known(k) /\ osObj'[k] = osObj[k]
  BY <1>3, <1>5, <1>7 DEF Known
<1>8. Known(w)' => ~gone_ /\ osObj'[w].lm = osNow /\ ~(w <= osReached)
  BY <1>3, <1>4, <1>5 DEF Known
<1>9. PolicySound'
  BY <1>2, <1>3 DEF PolicySound, Resolves
<1>10. InForce'
  <2>. SUFFICES ASSUME NEW k \in OsKeys, Known(k)', osObj'[k].lm <= osCk.since PROVE Fits(k, osPol)
    BY <1>3 DEF InForce, Fits, NotOlder
  <2>1. k # w
    BY <1>6, <1>8
  <2>. QED BY <1>2, <1>7, <2>1 DEF InForce, Fits
<1>11. ASSUME osRun.on PROVE RunMarks' /\ PassedRight' /\ PageTells'
  <2>1. RunMarks'
    BY <1>2, <1>3, <1>11 DEF RunMarks, Resolves
  <2>2. osRun.clock \in Nat /\ osRun.pos \in Nat /\ osRun.clock <= osNow /\ osRun.more \in BOOLEAN
    BY <1>1, <1>11, ListingTyped, ListingFields DEF Listing
  <2>3. ~(w <= osReached) /\ w <= osRun.pos => ~osRun.more
    BY <1>11 DEF osReached
  <2>4. PassedRight'
    <3>. SUFFICES ASSUME NEW k \in OsKeys, Known(k)', Passed(k)'
         PROVE  /\ osPol.loaded
                /\ osObj'[k].lm > osRun.start.since => osIdx[k].rule = osPol.rule
                /\ ~osPol.err /\ osPol.changed > osRun.start.perms => osIdx[k].rule = osPol.rule
      BY <1>3 DEF PassedRight
    <3>1. k # w
      BY <1>3, <1>6, <1>8, <2>2, <2>3 DEF Passed
    <3>2. Known(k) /\ Passed(k)
      BY <1>3, <1>7, <3>1 DEF Passed
    <3>. QED BY <1>2, <1>7, <1>11, <3>1, <3>2 DEF PassedRight
  <2>5. ASSUME NEW o \in osRun.page
        PROVE  \/ osObj'[o.key].lm = o.lm \/ o.key \in osBehind' \/ osObj'[o.key].tag = 0
               \/ ~osRun.more /\ osObj'[o.key].lm >= osRun.clock
    <3>1. o.key \in OsKeys /\ o.key <= osRun.pos
      BY <1>1, <1>11, ListingTyped, ListingFields DEF PageSound
    <3>2. CASE o.key # w
      <4>1. \/ osObj[o.key].lm = o.lm \/ o.key \in osBehind \/ osObj[o.key].tag = 0
            \/ ~osRun.more /\ osObj[o.key].lm >= osRun.clock
        BY <1>2, <1>11 DEF PageTells
      <4>. QED BY <1>3, <1>5, <3>1, <3>2, <4>1
    <3>3. CASE o.key = w
      BY <1>3, <1>4, <1>5, <1>6, <2>2, <2>3, <3>1, <3>3
    <3>. QED BY <3>2, <3>3
  <2>6. ASSUME ~osRun.more, NEW k \in OsKeys, k > osRun.pos, osObj'[k].tag # 0 PROVE osObj'[k].lm >= osRun.clock
    <3>1. CASE k # w
      BY <1>2, <1>5, <1>11, <2>6, <3>1 DEF PageTells
    <3>2. CASE k = w
      BY <1>4, <1>5, <1>6, <2>2, <2>6, <3>2
    <3>. QED BY <3>1, <3>2
  <2>7. PageTells'
    BY <1>3, <2>5, <2>6 DEF PageTells
  <2>. QED BY <2>1, <2>4, <2>7
<1>. QED BY <1>2, <1>3, <1>9, <1>10, <1>11 DEF OsRulesInv

LEMMA OsTimeTells ==
  ASSUME OsInv, OsRulesInv, OsRewriteList \/ OsTick
  PROVE  OsRulesInv'
<1>1. OsTyped
  BY DEF OsInv
<1>2. PolicySound /\ InForce /\ (osRun.on => RunMarks /\ PassedRight /\ PageTells)
  BY DEF OsRulesInv
<1>3. /\ UNCHANGED <<osObj, osIdx, osCk, osPol, osRun, osSkipped, osMissed, osBound, osBehind, osEnded>>
      /\ osNow' \in {osNow, osNow + 1} /\ osAcl' \in {osAcl, osAcl + 1}
  BY DEF OsRewriteList, OsTick, osKeepsSource
<1>4. osNow \in Nat /\ osNow' \in Nat /\ osNow <= osNow' /\ osAcl \in Nat /\ osAcl' \in Nat /\ osAcl <= osAcl'
      /\ osCk.perms \in Nat /\ osPol.seen \in Int /\ osBound \in Nat
  BY <1>1, <1>3, ObjectFields, OsConsts DEF OsTyped
<1>5. PolicySound'
  <2>1. osBound <= osAcl' /\ osPol.seen <= osAcl' /\ (osCk.perms < osNow => osCk.perms < osNow')
    BY <1>2, <1>4 DEF PolicySound
  <2>. QED BY <1>2, <1>3, <2>1 DEF PolicySound, Resolves
<1>6. InForce'
  BY <1>2, <1>3 DEF InForce, Known, NotOlder
<1>7. ASSUME osRun.on PROVE RunMarks' /\ PassedRight' /\ PageTells'
  <2>1. osRun.acl \in Nat /\ osRun.start.perms \in Nat
    <3>1. osRun \in OsRuns
      BY <1>1, <1>7, ListingTyped
    <3>2. osRun.acl \in 0 .. OsMaxLists /\ osRun.start.perms \in Nat
      BY <3>1, ListingFields
    <3>. QED BY <3>2, OsConsts
  <2>2. osRun.acl <= osAcl' /\ osRun.start.perms < osNow'
    BY <1>2, <1>4, <1>7, <2>1 DEF RunMarks
  <2>. QED BY <1>2, <1>3, <1>7, <2>2 DEF RunMarks, Resolves, PassedRight, Known, Passed, PageTells
<1>8. osCk.perms <= osEnded /\ osEnded <= osNow' /\ osEnded \in Nat
  BY <1>4 DEF OsRulesInv
<1>. QED BY <1>3, <1>5, <1>6, <1>7, <1>8 DEF OsRulesInv

\* A run starts in a second after the last one's end: a list it finds moved is news.
LEMMA OsSyncTells ==
  ASSUME OsInv, OsRulesInv, OsSync
  PROVE  OsRulesInv'
<1>1. OsTyped
  BY DEF OsInv
<1>2. PolicySound /\ InForce
  BY DEF OsRulesInv
<1>. DEFINE again(k) == osObj[k].lm > osCk.since /\ k > osCk.after
<1>3. /\ osNow > osEnded
      /\ osRun' = [on |-> TRUE, start |-> osCk, pos |-> osCk.after, page |-> {}, more |-> TRUE, acl |-> osAcl,
                   high |-> osCk.since, latest |-> osCk.perms, clock |-> 0]
      /\ osPol' = [osPol EXCEPT !.loaded = FALSE]
      /\ osBehind' = {k \in osBehind : ~again(k)} /\ osSkipped' = {k \in osSkipped : ~again(k)}
      /\ UNCHANGED <<osNow, osObj, osAcl, osIdx, osCk, osBound, osMissed, osEnded>>
  BY DEF OsSync, Reload, osKeepsStore
<1>4. /\ osRun'.on = TRUE /\ osRun'.start = osCk /\ osRun'.pos = osCk.after /\ osRun'.page = {} /\ osRun'.more = TRUE
      /\ osRun'.acl = osAcl /\ osRun'.latest = osCk.perms
  BY <1>3
<1>5. /\ osPol'.loaded = FALSE /\ osPol'.err = osPol.err /\ osPol'.rule = osPol.rule /\ osPol'.seen = osPol.seen
      /\ osPol'.changed = osPol.changed
  BY <1>1, <1>3 DEF OsTyped
<1>6. osCk.perms \in Nat /\ osEnded \in Nat /\ osNow \in Nat /\ osCk.perms <= osEnded /\ osCk.after \in Nat /\ osAcl \in Nat
      /\ osCk.since \in Nat
  BY <1>1, ObjectFields, OsConsts DEF OsRulesInv, OsTyped
<1>7. PolicySound'
  BY <1>2, <1>3, <1>5, <1>6 DEF PolicySound, Resolves
<1>8. InForce'
  <2>. SUFFICES ASSUME NEW k \in OsKeys, Known(k)', osObj[k].lm <= osCk.since PROVE Fits(k, osPol)
    BY <1>3, <1>5 DEF InForce, Fits, NotOlder
  <2>1. osObj[k].lm \in Nat
    BY <1>1, ObjectFields
  <2>2. ~again(k)
    BY <1>6, <2>1
  <2>3. Known(k)
    BY <1>3, <2>2 DEF Known
  <2>. QED BY <1>2, <2>3 DEF InForce, Fits
<1>9. RunMarks'
  BY <1>3, <1>4, <1>5, <1>6 DEF RunMarks, Resolves
<1>10. PassedRight'
  <2>. SUFFICES ASSUME NEW k \in OsKeys, Passed(k)' PROVE FALSE
    BY DEF PassedRight
  <2>1. k \in Nat
    BY OsConsts
  <2>. QED BY <1>4, <1>6, <2>1 DEF Passed
<1>11. PageTells'
  BY <1>4 DEF PageTells
<1>. QED BY <1>3, <1>6, <1>7, <1>8, <1>9, <1>10, <1>11 DEF OsRulesInv

\* A page takes the next keys in order: the listing has come past none but those on it.
LEMMA OsListTells ==
  ASSUME OsInv, OsRulesInv, OsList
  PROVE  OsRulesInv'
<1>1. OsTyped /\ osRun.on /\ osRun.page = {} /\ osRun.more
  BY DEF OsInv, OsList
<1>2. PolicySound /\ InForce /\ RunMarks /\ PassedRight
  BY <1>1 DEF OsRulesInv
<1>3. /\ osKeepsStore /\ UNCHANGED <<osIdx, osCk, osPol, osSpent, osEnded, osBehind, osSkipped, osMissed, osBound>>
      /\ LET rest == {k \in OsKeys : k > osRun.pos /\ osObj[k].tag # 0}
         IN \E keys \in SUBSET rest, last \in rest \union {osRun.pos} :
              /\ onePage(keys, rest)
              /\ last \in keys \/ (keys = {} /\ last = osRun.pos)
              /\ \A k \in keys : k <= last
              /\ osRun' = [osRun EXCEPT !.page = {listed(k) : k \in keys}, !.pos = last,
                                        !.more = keys # rest, !.clock = osNow]
  BY DEF OsList
<1>4. UNCHANGED <<osNow, osObj, osAcl, osIdx, osCk, osPol, osEnded, osBehind, osSkipped, osMissed, osBound>>
  BY <1>3 DEF osKeepsStore
<1>. DEFINE rest == {k \in OsKeys : k > osRun.pos /\ osObj[k].tag # 0}
<1>5. PICK keys \in SUBSET rest, last \in rest \union {osRun.pos} :
        /\ onePage(keys, rest)
        /\ last \in keys \/ (keys = {} /\ last = osRun.pos)
        /\ \A k \in keys : k <= last
        /\ osRun' = [osRun EXCEPT !.page = {listed(k) : k \in keys}, !.pos = last, !.more = keys # rest, !.clock = osNow]
  BY <1>3
<1>6. osRun \in OsRuns
  BY <1>1, ListingTyped
<1>7. PICK more \in BOOLEAN : more = (keys # rest)
  <2>1. (keys # rest) \in BOOLEAN
    OBVIOUS
  <2>. QED BY <2>1, Zenon
<1>8. osRun' = [osRun EXCEPT !.page = {listed(k) : k \in keys}, !.pos = last, !.more = more, !.clock = osNow]
  BY <1>5, <1>7
<1>9. /\ osRun'.on = TRUE /\ osRun'.start = osRun.start /\ osRun'.acl = osRun.acl /\ osRun'.latest = osRun.latest
      /\ osRun'.page = {listed(k) : k \in keys} /\ osRun'.pos = last /\ osRun'.more = more /\ osRun'.clock = osNow
  BY <1>6, <1>8 DEF OsRuns
<1>10. osRun.pos \in Nat /\ last \in Nat /\ osRun.pos <= last /\ osNow \in Nat
  <2>1. osRun.pos \in Nat /\ osNow \in Nat
    BY <1>1, <1>6, ListingFields DEF OsTyped
  <2>2. \A k \in rest : k \in Nat /\ osRun.pos <= k
    BY <2>1, OsConsts
  <2>. QED BY <2>1, <2>2
<1>11. ASSUME NEW k \in OsKeys, k > osRun.pos, osObj[k].tag # 0, k \notin keys PROVE k > last
  <2>1. k \in rest \ keys /\ k \in Nat
    BY <1>11, OsConsts
  <2>2. CASE last \in keys
    BY <1>5, <1>10, <2>1, <2>2 DEF onePage
  <2>3. CASE keys = {} /\ last = osRun.pos
    BY <1>11, <2>3
  <2>. QED BY <1>5, <2>2, <2>3
<1>12. \A k \in keys : listed(k) \in osRun'.page /\ listed(k).key = k
  BY <1>9 DEF listed
<1>13. PolicySound'
  BY <1>2, <1>4 DEF PolicySound, Resolves
<1>14. InForce'
  BY <1>2, <1>4 DEF InForce, Known, NotOlder
<1>15. RunMarks'
  BY <1>2, <1>4, <1>9 DEF RunMarks, Resolves
<1>16. PassedRight'
  <2>. SUFFICES ASSUME NEW k \in OsKeys, Known(k)', Passed(k)'
       PROVE  /\ osPol.loaded
              /\ osObj[k].lm > osRun.start.since => osIdx[k].rule = osPol.rule
              /\ ~osPol.err /\ osPol.changed > osRun.start.perms => osIdx[k].rule = osPol.rule
    BY <1>4, <1>9 DEF PassedRight
  <2>1. Known(k)
    BY <1>4 DEF Known
  <2>2. osRun.start.after < k /\ k <= last /\ k \notin keys /\ k \in Nat
    BY <1>9, <1>12, OsConsts DEF Passed
  <2>3. ~(k > osRun.pos)
    BY <1>10, <1>11, <2>1, <2>2 DEF Known
  <2>4. Passed(k)
    BY <1>1, <1>10, <2>2, <2>3 DEF Passed
  <2>. QED BY <1>2, <2>1, <2>4 DEF PassedRight
<1>17. PageTells'
  <2>1. \A o \in osRun'.page : osObj'[o.key].lm = o.lm
    BY <1>4, <1>9 DEF listed
  <2>2. ASSUME ~more, NEW k \in OsKeys, k > last, osObj[k].tag # 0 PROVE FALSE
    <3>1. k > osRun.pos /\ k \in Nat
      BY <1>10, <2>2, OsConsts
    <3>2. k \in keys
      BY <1>7, <2>2, <3>1
    <3>. QED BY <1>5, <1>10, <2>2, <3>1, <3>2
  <2>. QED BY <1>4, <1>9, <2>1, <2>2 DEF PageTells
<1>. QED BY <1>4, <1>9, <1>13, <1>14, <1>15, <1>16, <1>17 DEF OsRulesInv

\* What the policy knows once it has been asked, and for whom the list it answers with
\* is the one in force: whoever a new process does not look at is counted as missed.
LEMMA LoadFits ==
  ASSUME OsTyped, OsClocked, PolicySound, NEW fails \in BOOLEAN,
         NEW p \in [loaded: BOOLEAN, err: BOOLEAN, rule: Int, seen: Int, changed: Nat], p = load(osPol, fails)
  PROVE  /\ p.loaded /\ (osPol.loaded => p = osPol)
         /\ p.seen <= osAcl /\ p.rule \in {Unresolved, p.seen}
         /\ ~p.err => p.rule = p.seen /\ p.seen \notin OsUnmapped /\ p.seen # Unseen
         /\ p.err => p.rule = Unresolved
         /\ p.seen # Unseen => p.seen >= osBound
         /\ ~osPol.loaded /\ ~p.err => p.seen = osAcl
         /\ \A k \in OsKeys : osIdx[k].ver # 0 /\ k \notin missedBy(osPol, p) /\ Fits(k, osPol) => Fits(k, p)
<1>1. /\ osPol \in [loaded: BOOLEAN, err: BOOLEAN, rule: Int, seen: Int, changed: Nat]
      /\ osAcl \in Nat /\ osNow \in Nat /\ osBound \in Nat /\ osCk.perms \in Nat
  BY ObjectFields, OsConsts DEF OsTyped
<1>2. CASE osPol.loaded
  <2>1. p = osPol
    BY <1>2 DEF load
  <2>. QED BY <1>1, <1>2, <2>1 DEF PolicySound, Resolves
<1>3. CASE ~osPol.loaded /\ fails
  <2>1. p = [osPol EXCEPT !.loaded = TRUE, !.err = TRUE, !.rule = Unresolved]
    BY <1>3 DEF load
  <2>2. p.loaded = TRUE /\ p.err = TRUE /\ p.seen = osPol.seen /\ p.changed = osPol.changed
    BY <1>1, <2>1
  <2>3. p.rule = Unresolved
    BY <1>1, <2>1
  <2>4. \A k \in OsKeys : Fits(k, osPol) => Fits(k, p)
    BY <2>2 DEF Fits
  <2>. QED BY <1>1, <1>3, <2>2, <2>3, <2>4 DEF PolicySound
<1>4. CASE ~osPol.loaded /\ ~fails
  <2>. DEFINE rule == IF osAcl \in OsUnmapped THEN Unresolved ELSE osAcl
              changed == IF osPol.seen \notin {Unseen, osAcl} THEN osNow ELSE osPol.changed
  <2>1. PICK err \in BOOLEAN : err = (osAcl \in OsUnmapped)
    <3>1. (osAcl \in OsUnmapped) \in BOOLEAN
      OBVIOUS
    <3>. QED BY <3>1, Zenon
  <2>2. p = [loaded |-> TRUE, err |-> err, rule |-> rule, seen |-> osAcl, changed |-> changed]
    BY <1>4, <2>1 DEF load
  <2>3. p.loaded = TRUE /\ p.err = err /\ p.rule = rule /\ p.seen = osAcl /\ p.changed = changed
    BY <2>2
  <2>4. ~err => rule = osAcl /\ osAcl \notin OsUnmapped
    BY <2>1
  <2>5. err => rule = Unresolved /\ osAcl \in OsUnmapped
    BY <2>1
  <2>6. osAcl # Unseen /\ osBound <= osAcl
    BY <1>1 DEF PolicySound, Unseen
  <2>7. ASSUME NEW k \in OsKeys, osIdx[k].ver # 0, k \notin missedBy(osPol, p), Fits(k, osPol) PROVE Fits(k, p)
    <3>. SUFFICES ASSUME osAcl \notin OsUnmapped, changed <= osCk.perms PROVE NotOlder(k, osAcl)
      BY <2>3, <2>7 DEF Fits
    <3>1. ~p.err /\ p.rule = osAcl
      BY <2>3, <2>4, <2>5
    <3>2. CASE osPol.seen = Unseen
      <4>1. osIdx[k].rule = osAcl
        BY <2>7, <3>1, <3>2 DEF missedBy
      <4>. QED BY <1>1, <4>1 DEF NotOlder
    <3>3. CASE osPol.seen = osAcl
      <4>1. changed = osPol.changed
        BY <3>3
      <4>. QED BY <2>6, <2>7, <3>3, <4>1 DEF Fits
    <3>4. CASE osPol.seen \notin {Unseen, osAcl}
      <4>1. changed = osNow /\ osCk.perms < osNow
        BY <1>4, <3>4 DEF PolicySound
      <4>. QED BY <1>1, <4>1
    <3>. QED BY <3>2, <3>3, <3>4
  <2>. HIDE DEF rule, changed
  <2>8. p.rule \in {Unresolved, p.seen}
    BY <2>3, <2>4, <2>5
  <2>. QED BY <1>1, <1>4, <2>3, <2>4, <2>5, <2>6, <2>7, <2>8
<1>. QED BY <1>2, <1>3, <1>4

\* What one object of a page does to its rule: it gets the one the policy answered
\* with, is reported, or is left as it is when nothing moved since the cursor.
LEMMA ObjectRules ==
  ASSUME OsInv, NEW listFails \in BOOLEAN, NEW readFails \in BOOLEAN, OsObject(listFails, readFails)
  PROVE  \E o \in osRun.page :
           /\ osRun'.on = TRUE /\ osRun'.start = osRun.start /\ osRun'.acl = osRun.acl /\ osRun'.pos = osRun.pos
           /\ osRun'.more = osRun.more /\ osRun'.clock = osRun.clock /\ osRun'.page = osRun.page \ {o}
           /\ osCk'.since = osCk.since /\ osCk'.perms \in {osCk.perms, osRun.start.perms}
           /\ \A k \in OsKeys \ {o.key} : /\ osIdx'[k] = osIdx[k]
                                          /\ k \in osBehind' <=> k \in osBehind
                                          /\ k \in osSkipped' <=> k \in osSkipped
           /\ \/ o.key \notin OsWanted /\ UNCHANGED <<osPol, osMissed>> /\ osRun'.latest = osRun.latest
              \/ /\ o.key \in OsWanted /\ osPol' = load(osPol, listFails)
                 /\ (osMissed \union missedBy(osPol, osPol')) \ {o.key} \subseteq osMissed'
                 /\ osRun'.latest = IF osPol'.err THEN osRun.latest ELSE Max({osRun.latest, osPol'.changed})
                 /\ \/ o.key \in osSkipped' \/ osIdx'[o.key].rule = osPol'.rule \/ osIdx'[o.key].ver = 0
                    \/ /\ o.lm <= osRun.start.since /\ ~(~osPol'.err /\ osPol'.changed > osRun.start.perms)
                       /\ osMissed' = osMissed \union missedBy(osPol, osPol')
                       /\ UNCHANGED <<osIdx, osBehind, osSkipped>>
<1>1. OsTyped /\ OsClocked /\ Listing
  BY DEF OsInv
<1>. DEFINE p == load(osPol, listFails)
            old(o) == osRun.start.since # 0 /\ o.lm <= osRun.start.since
            on(o) == [osRun EXCEPT !.page = @ \ {o}]
<1>2. osRun.on
  BY DEF OsObject
<1>3. PICK o \in osRun.page :
        IF o.key \notin OsWanted
        THEN osRun' = on(o) /\ UNCHANGED <<osIdx, osCk, osPol, osBehind, osSkipped, osMissed>>
        ELSE /\ IF old(o) THEN osRefreshes(o, p) ELSE osReads(o, p, readFails)
             /\ osPol' = p
             /\ osRun' = [on(o) EXCEPT !.high = Max({@, o.lm}), !.latest = IF p.err THEN @ ELSE Max({@, p.changed})]
  BY DEF OsObject
<1>4. osRun \in OsRuns
  BY <1>1, <1>2, ListingTyped
<1>5. o.key \in OsKeys /\ osIdx \in [OsKeys -> [ver: Nat, tag: Nat, rule: Int]]
  BY <1>1, <1>4, ListingFields DEF OsTyped
<1>6. osResume(osRun.start, o).since = osCk.since /\ osResume(osRun.start, o).perms = osRun.start.perms
  BY <1>1, <1>2 DEF osResume, osPoint, Listing
<1>7. p \in [loaded: BOOLEAN, err: BOOLEAN, rule: Int, seen: Int, changed: Nat]
  BY <1>1, Loads
<1>. DEFINE latest == IF p.err THEN osRun.latest ELSE Max({osRun.latest, p.changed})
            high == Max({osRun.high, o.lm})
<1>8. CASE o.key \notin OsWanted
  <2>1. osRun' = [osRun EXCEPT !.page = @ \ {o}] /\ UNCHANGED <<osIdx, osCk, osPol, osBehind, osSkipped, osMissed>>
    BY <1>3, <1>8
  <2>2. /\ osRun'.on = TRUE /\ osRun'.start = osRun.start /\ osRun'.acl = osRun.acl /\ osRun'.pos = osRun.pos
        /\ osRun'.more = osRun.more /\ osRun'.clock = osRun.clock /\ osRun'.page = osRun.page \ {o}
        /\ osRun'.latest = osRun.latest
    BY <1>4, <2>1 DEF OsRuns
  <2>. QED BY <1>8, <2>1, <2>2
<1>9. CASE o.key \in OsWanted
  <2>1. /\ IF old(o) THEN osRefreshes(o, p) ELSE osReads(o, p, readFails)
        /\ osPol' = p
        /\ osRun' = [on(o) EXCEPT !.high = Max({@, o.lm}), !.latest = IF p.err THEN @ ELSE Max({@, p.changed})]
    BY <1>3, <1>9
  <2>2. osRun' = [osRun EXCEPT !.page = @ \ {o}, !.high = high, !.latest = latest]
    BY <1>4, <2>1 DEF OsRuns
  <2>. HIDE DEF p, high, latest
  <2>3. /\ osRun'.on = TRUE /\ osRun'.start = osRun.start /\ osRun'.acl = osRun.acl /\ osRun'.pos = osRun.pos
        /\ osRun'.more = osRun.more /\ osRun'.clock = osRun.clock /\ osRun'.page = osRun.page \ {o}
        /\ osRun'.latest = latest
    BY <1>4, <2>2 DEF OsRuns
  <2>4. osRun'.latest = IF osPol'.err THEN osRun.latest ELSE Max({osRun.latest, osPol'.changed})
    BY <2>1, <2>3 DEF latest
  <2>5. CASE old(o) /\ ~p.err /\ p.changed > osRun.start.perms
    <3>1. /\ osIdx' = IF osIdx[o.key].ver = 0 THEN osIdx ELSE [osIdx EXCEPT ![o.key].rule = p.rule]
          /\ osCk' \in {osCk, osResume(osRun.start, o)}
          /\ osMissed' = (osMissed \union missedBy(osPol, p)) \ {o.key} /\ UNCHANGED <<osBehind, osSkipped>>
      BY <2>1, <2>5 DEF osRefreshes, osSaves
    <3>2. /\ \A k \in OsKeys \ {o.key} : osIdx'[k] = osIdx[k]
          /\ osIdx'[o.key].rule = p.rule \/ osIdx'[o.key].ver = 0
      BY <1>5, <1>7, <3>1
    <3>3. osCk'.since = osCk.since /\ osCk'.perms \in {osCk.perms, osRun.start.perms}
      BY <1>6, <3>1
    <3>4. osPol' = load(osPol, listFails)
      BY <2>1 DEF p
    <3>. QED BY <1>9, <2>1, <2>3, <2>4, <3>1, <3>2, <3>3, <3>4
  <2>6. CASE old(o) /\ ~(~p.err /\ p.changed > osRun.start.perms)
    <3>1. osMissed' = osMissed \union missedBy(osPol, p) /\ UNCHANGED <<osIdx, osCk, osBehind, osSkipped>>
      BY <2>1, <2>6 DEF osRefreshes
    <3>2. osPol' = load(osPol, listFails)
      BY <2>1 DEF p
    <3>. QED BY <1>9, <2>1, <2>3, <2>4, <2>6, <3>1, <3>2
  <2>7. CASE ~old(o) /\ (readFails \/ osObj[o.key].tag = 0)
    <3>1. /\ osSkipped' = osSkipped \union {o.key} /\ osMissed' = osMissed \union missedBy(osPol, p)
          /\ UNCHANGED <<osIdx, osCk, osBehind>>
      BY <2>1, <2>7 DEF osReads
    <3>2. osPol' = load(osPol, listFails)
      BY <2>1 DEF p
    <3>. QED BY <1>9, <2>1, <2>3, <2>4, <3>1, <3>2
  <2>8. CASE ~old(o) /\ ~(readFails \/ osObj[o.key].tag = 0)
    <3>1. /\ osIdx' = [osIdx EXCEPT ![o.key] = [ver |-> osObj[o.key].tag, tag |-> version(o), rule |-> p.rule]]
          /\ osCk' \in {osCk, osResume(osRun.start, o)}
          /\ osMissed' = (osMissed \union missedBy(osPol, p)) \ {o.key}
          /\ osBehind' = osBehind \ {o.key} /\ osSkipped' = osSkipped \ {o.key}
      BY <2>1, <2>8 DEF osReads, osSaves
    <3>2. /\ \A k \in OsKeys \ {o.key} : osIdx'[k] = osIdx[k]
          /\ osIdx'[o.key].rule = p.rule
      BY <1>5, <1>7, <3>1
    <3>3. osCk'.since = osCk.since /\ osCk'.perms \in {osCk.perms, osRun.start.perms}
      BY <1>6, <3>1
    <3>4. osPol' = load(osPol, listFails)
      BY <2>1 DEF p
    <3>. QED BY <1>9, <2>1, <2>3, <2>4, <3>1, <3>2, <3>3, <3>4
  <2>. QED BY <2>5, <2>6, <2>7, <2>8
<1>. QED BY <1>8, <1>9

LEMMA OsObjectTells ==
  ASSUME OsInv, OsInv', OsRulesInv, NEW listFails \in BOOLEAN, NEW readFails \in BOOLEAN, OsObject(listFails, readFails)
  PROVE  OsRulesInv'
<1>1. OsTyped /\ OsClocked /\ Listing /\ PageSound /\ OsTyped'
  BY DEF OsInv
<1>2. osRun.on /\ UNCHANGED <<osNow, osObj, osAcl, osEnded, osBound>>
  BY DEF OsObject, osKeepsStore
<1>3. PolicySound /\ InForce /\ RunMarks /\ PassedRight /\ PageTells
  BY <1>2 DEF OsRulesInv
<1>4. PICK o \in osRun.page :
        /\ osRun'.on = TRUE /\ osRun'.start = osRun.start /\ osRun'.acl = osRun.acl /\ osRun'.pos = osRun.pos
        /\ osRun'.more = osRun.more /\ osRun'.clock = osRun.clock /\ osRun'.page = osRun.page \ {o}
        /\ osCk'.since = osCk.since /\ osCk'.perms \in {osCk.perms, osRun.start.perms}
        /\ \A k \in OsKeys \ {o.key} : /\ osIdx'[k] = osIdx[k]
                                       /\ k \in osBehind' <=> k \in osBehind
                                       /\ k \in osSkipped' <=> k \in osSkipped
        /\ \/ o.key \notin OsWanted /\ UNCHANGED <<osPol, osMissed>> /\ osRun'.latest = osRun.latest
           \/ /\ o.key \in OsWanted /\ osPol' = load(osPol, listFails)
              /\ (osMissed \union missedBy(osPol, osPol')) \ {o.key} \subseteq osMissed'
              /\ osRun'.latest = IF osPol'.err THEN osRun.latest ELSE Max({osRun.latest, osPol'.changed})
              /\ \/ o.key \in osSkipped' \/ osIdx'[o.key].rule = osPol'.rule \/ osIdx'[o.key].ver = 0
                 \/ /\ o.lm <= osRun.start.since /\ ~(~osPol'.err /\ osPol'.changed > osRun.start.perms)
                    /\ osMissed' = osMissed \union missedBy(osPol, osPol')
                    /\ UNCHANGED <<osIdx, osBehind, osSkipped>>
  BY ObjectRules
<1>5. osRun \in OsRuns
  BY <1>1, <1>2, ListingTyped
<1>6. o.key \in OsKeys /\ o.lm \in Nat /\ osRun.latest \in Nat /\ osRun.start.perms \in Nat /\ osRun.start.since \in Nat
  BY <1>5, ListingFields
<1>7. osCk'.perms = osCk.perms /\ osRun.start.perms = osCk.perms /\ osRun.start.since = osCk.since
  BY <1>1, <1>2, <1>3, <1>4 DEF RunMarks, Listing
<1>8. PICK p \in [loaded: BOOLEAN, err: BOOLEAN, rule: Int, seen: Int, changed: Nat] : p = osPol'
  BY <1>1 DEF OsTyped
<1>9. ASSUME NEW k \in OsKeys, Known(k)', k # o.key PROVE Known(k) /\ (o.key \in OsWanted => k \notin missedBy(osPol, p))
  <2>1. osMissed \ {o.key} \subseteq osMissed' /\ (o.key \in OsWanted => missedBy(osPol, p) \ {o.key} \subseteq osMissed')
    BY <1>4, <1>8
  <2>2. osIdx'[k] = osIdx[k] /\ (k \in osBehind' <=> k \in osBehind) /\ (k \in osSkipped' <=> k \in osSkipped)
    BY <1>4, <1>9
  <2>. QED BY <1>2, <1>9, <2>1, <2>2 DEF Known
<1>10. CASE o.key \notin OsWanted
  <2>1. UNCHANGED <<osPol, osMissed>> /\ osRun'.latest = osRun.latest
    BY <1>4, <1>10
  <2>2. ASSUME NEW k \in OsKeys, Known(k)' PROVE Known(k) /\ k # o.key /\ osIdx'[k] = osIdx[k]
    <3>1. k # o.key
      BY <1>10, <2>2 DEF Known
    <3>. QED BY <1>4, <1>9, <2>2, <3>1
  <2>3. PolicySound' /\ RunMarks'
    BY <1>2, <1>3, <1>4, <1>7, <2>1 DEF PolicySound, RunMarks, Resolves
  <2>4. InForce'
    BY <1>2, <1>3, <1>4, <1>7, <2>1, <2>2 DEF InForce, NotOlder
  <2>5. PassedRight'
    <3>1. ASSUME NEW k \in OsKeys, k # o.key, Passed(k)' PROVE Passed(k)
      BY <1>2, <1>4, <3>1 DEF Passed
    <3>. QED BY <1>2, <1>3, <1>4, <2>1, <2>2, <3>1 DEF PassedRight
  <2>6. PageTells'
    <3>1. ASSUME NEW q \in osRun.page, q # o PROVE q.key \in OsKeys /\ q.key # o.key
      BY <1>1, <1>2, <1>5, <3>1, ListingFields DEF PageSound
    <3>. QED BY <1>2, <1>3, <1>4, <3>1 DEF PageTells
  <2>. QED BY <1>2, <1>3, <1>7, <2>3, <2>4, <2>5, <2>6 DEF OsRulesInv
<1>11. CASE o.key \in OsWanted
  <2>1. /\ p = load(osPol, listFails)
        /\ osRun'.latest = IF p.err THEN osRun.latest ELSE Max({osRun.latest, p.changed})
        /\ \/ o.key \in osSkipped' \/ osIdx'[o.key].rule = p.rule \/ osIdx'[o.key].ver = 0
           \/ /\ o.lm <= osRun.start.since /\ ~(~p.err /\ p.changed > osRun.start.perms)
              /\ osMissed' = osMissed \union missedBy(osPol, p)
              /\ UNCHANGED <<osIdx, osBehind, osSkipped>>
    BY <1>4, <1>8, <1>11
  <2>2. /\ p.loaded /\ (osPol.loaded => p = osPol)
        /\ p.seen <= osAcl /\ p.rule \in {Unresolved, p.seen}
        /\ ~p.err => p.rule = p.seen /\ p.seen \notin OsUnmapped /\ p.seen # Unseen
        /\ p.err => p.rule = Unresolved
        /\ p.seen # Unseen => p.seen >= osBound
        /\ ~osPol.loaded /\ ~p.err => p.seen = osAcl
        /\ \A k \in OsKeys : osIdx[k].ver # 0 /\ k \notin missedBy(osPol, p) /\ Fits(k, osPol) => Fits(k, p)
    BY <1>1, <1>3, <2>1, LoadFits
  <2>3. PolicySound'
    BY <1>2, <1>3, <1>8, <2>2 DEF PolicySound, Resolves
  <2>4. InForce'
    <3>. SUFFICES ASSUME NEW k \in OsKeys, Known(k)', osObj[k].lm <= osCk.since
         PROVE  /\ osIdx'[k].rule = Unresolved \/ osIdx'[k].rule >= osBound
                /\ p.seen \notin OsUnmapped \union {Unseen} /\ p.changed <= osCk.perms =>
                     osIdx'[k].rule = Unresolved \/ osIdx'[k].rule >= p.seen
      BY <1>2, <1>4, <1>7, <1>8 DEF InForce, NotOlder
    <3>1. ASSUME Known(k), k \notin missedBy(osPol, p), osIdx'[k] = osIdx[k]
          PROVE  /\ osIdx'[k].rule = Unresolved \/ osIdx'[k].rule >= osBound
                 /\ p.seen \notin OsUnmapped \union {Unseen} /\ p.changed <= osCk.perms =>
                      osIdx'[k].rule = Unresolved \/ osIdx'[k].rule >= p.seen
      <4>1. Fits(k, osPol)
        BY <1>3, <3>1 DEF InForce, Fits
      <4>2. Fits(k, p)
        BY <2>2, <3>1, <4>1 DEF Known
      <4>. QED BY <3>1, <4>2 DEF Fits, NotOlder
    <3>2. CASE k # o.key
      BY <1>4, <1>9, <1>11, <3>1, <3>2
    <3>3. CASE k = o.key /\ osIdx'[o.key].rule = p.rule
      <4>1. p.rule \in {Unresolved, p.seen} /\ (p.seen # Unseen => p.seen >= osBound) /\ p.seen \in Int /\ Unresolved = Unseen
        BY <2>2 DEF Unresolved, Unseen
      <4>. QED BY <3>3, <4>1
    <3>4. CASE k = o.key /\ osIdx'[o.key].rule # p.rule
      <4>1. k \notin osSkipped' /\ osIdx'[k].ver # 0
        BY DEF Known
      <4>2. osMissed' = osMissed \union missedBy(osPol, p) /\ UNCHANGED <<osIdx, osBehind, osSkipped>>
        BY <2>1, <3>4, <4>1
      <4>3. Known(k) /\ k \notin missedBy(osPol, p)
        BY <1>2, <4>2 DEF Known
      <4>. QED BY <3>1, <4>2, <4>3
    <3>. QED BY <3>2, <3>3, <3>4
  <2>5. RunMarks'
    <3>1. osRun.acl <= osAcl /\ osRun.start.perms < osNow
          /\ (Resolves(osPol) => osPol.seen >= osRun.acl)
          /\ osRun.latest = IF Resolves(osPol) /\ osPol.changed > osRun.start.perms THEN osPol.changed ELSE osRun.start.perms
      BY <1>3 DEF RunMarks
    <3>2. osPol.loaded \in BOOLEAN /\ osPol.err \in BOOLEAN /\ osPol.changed \in Nat /\ osAcl \in Int /\ osRun.acl \in Int
      <4>1. osRun.acl \in 0 .. OsMaxLists /\ osAcl \in 0 .. OsMaxLists
        BY <1>1, <1>5, ListingFields DEF OsTyped
      <4>2. osPol.loaded \in BOOLEAN /\ osPol.err \in BOOLEAN /\ osPol.changed \in Nat
        BY <1>1, ObjectFields
      <4>. QED BY <4>1, <4>2, OsConsts
    <3>3. ~p.err => p.seen >= osRun.acl
      BY <2>2, <3>1, <3>2 DEF Resolves
    <3>4. osRun'.latest = IF ~p.err /\ p.changed > osRun.start.perms THEN p.changed ELSE osRun.start.perms
      <4>1. CASE p.err
        <5>1. ~Resolves(osPol)
          BY <2>2, <4>1 DEF Resolves
        <5>. QED BY <2>1, <3>1, <4>1, <5>1
      <4>2. CASE ~p.err
        <5>1. osRun'.latest = IF osRun.latest >= p.changed THEN osRun.latest ELSE p.changed
          BY <1>6, <2>1, <4>2, TheGreater
        <5>2. CASE osPol.loaded
          BY <1>6, <2>2, <3>1, <4>2, <5>1, <5>2 DEF Resolves
        <5>3. CASE ~osPol.loaded
          BY <1>6, <2>2, <3>1, <4>2, <5>1, <5>3 DEF Resolves
        <5>. QED BY <5>2, <5>3
      <4>. QED BY <4>1, <4>2
    <3>. QED BY <1>2, <1>4, <1>7, <1>8, <2>2, <3>1, <3>3, <3>4 DEF RunMarks, Resolves
  <2>6. PassedRight'
    <3>. SUFFICES ASSUME NEW k \in OsKeys, Known(k)', Passed(k)'
         PROVE  /\ osObj[k].lm > osRun.start.since => osIdx'[k].rule = p.rule
                /\ ~p.err /\ p.changed > osRun.start.perms => osIdx'[k].rule = p.rule
      BY <1>2, <1>4, <1>8, <2>2 DEF PassedRight
    <3>1. CASE k # o.key
      <4>1. Passed(k)
        BY <1>2, <1>4, <3>1 DEF Passed
      <4>2. Known(k) /\ osIdx'[k] = osIdx[k]
        BY <1>4, <1>9, <3>1
      <4>3. osPol.loaded
        BY <1>3, <4>1, <4>2 DEF PassedRight
      <4>. QED BY <1>3, <2>2, <4>1, <4>2, <4>3 DEF PassedRight
    <3>2. CASE k = o.key /\ osIdx'[o.key].rule # p.rule
      <4>1. k \notin osSkipped' /\ osIdx'[k].ver # 0 /\ k \notin osBehind' /\ osObj[k].tag # 0
        BY <1>2 DEF Known
      <4>2. o.lm <= osRun.start.since /\ ~(~p.err /\ p.changed > osRun.start.perms) /\ UNCHANGED osBehind
        BY <2>1, <3>2, <4>1
      <4>3. osRun.more \/ osObj[k].lm < osRun.clock
        BY <1>2, <1>4 DEF Passed
      <4>4. osObj[k].lm \in Nat /\ osRun.clock \in Nat
        BY <1>1, <1>5, ObjectFields, ListingFields
      <4>5. osObj[k].lm = o.lm
        BY <1>3, <3>2, <4>1, <4>2, <4>3, <4>4 DEF PageTells
      <4>. QED BY <1>6, <4>2, <4>5
    <3>. QED BY <3>1, <3>2
  <2>7. PageTells'
    <3>1. ASSUME NEW q \in osRun.page, q # o PROVE q.key \in OsKeys /\ q.key # o.key
      BY <1>1, <1>2, <1>5, <3>1, ListingFields DEF PageSound
    <3>. QED BY <1>2, <1>3, <1>4, <3>1 DEF PageTells
  <2>. QED BY <1>2, <1>7, <2>3, <2>4, <2>5, <2>6, <2>7 DEF OsRulesInv
<1>. QED BY <1>10, <1>11

\* A finished run leaves everything behind its cursor under the list it resolved: what
\* it came past had the rule again if the list moved, and what it did not is reported.
LEMMA OsFinishTells ==
  ASSUME OsInv, OsRulesInv, OsFinish
  PROVE  OsRulesInv'
<1>1. OsTyped /\ OsClocked /\ Listing
  BY DEF OsInv
<1>. DEFINE since == heldBack(osRun)
<1>2. /\ osRun.on /\ osRun.page = {} /\ ~osRun.more /\ osRun' = osNoRun /\ osEnded' = osNow
      /\ osBehind' = osBehind \union osLeft(osCk'.after)
      /\ osBound' = IF osPol.loaded /\ ~osPol.err THEN osRun.acl ELSE osBound
      /\ osCk' = IF since = 0 /\ osRun.latest = 0 THEN osRun.start ELSE osPoint(since, osRun.latest, 0)
      /\ osMissed' = osMissed \union {k \in OsKeys : k <= osRun.start.after /\ osIdx[k].rule # osPol.rule}
      /\ UNCHANGED <<osNow, osObj, osAcl, osIdx, osPol, osSkipped>>
  BY DEF OsFinish, osKeepsStore
<1>3. PolicySound /\ InForce /\ RunMarks /\ PassedRight /\ PageTells
  BY <1>2 DEF OsRulesInv
<1>4. osRun \in OsRuns /\ ~osRun'.on
  BY <1>1, <1>2, ListingTyped DEF osNoRun
<1>5. /\ osRun.start.since = osCk.since /\ osRun.start.after \in Nat /\ osRun.start.since \in Nat /\ osRun.start.perms \in Nat
      /\ osRun.clock > 0 /\ osRun.clock <= osNow /\ osRun.latest <= osNow /\ osRun.pos \in Nat
      /\ osRun.clock \in Nat /\ osRun.latest \in Nat /\ osRun.high \in Nat
  BY <1>1, <1>2, <1>4, ListingFields DEF Listing
<1>6. since \in Nat /\ since < osRun.clock
  BY <1>5, TheLesser DEF heldBack
<1>. HIDE DEF since
<1>7. \/ osCk' = osRun.start /\ since = 0 /\ osRun.latest = 0
      \/ osCk'.since = since /\ osCk'.perms = osRun.latest /\ osCk'.after = 0
  BY <1>2 DEF osPoint
<1>8. PICK perms \in Nat, seen \in Int, changed \in Nat, acl \in Nat, bound \in Nat :
        perms = osRun.start.perms /\ seen = osPol.seen /\ changed = osPol.changed /\ acl = osRun.acl /\ bound = osBound
  <2>1. osRun.acl \in 0 .. OsMaxLists /\ osBound \in 0 .. OsMaxLists
    BY <1>1, <1>4, ListingFields DEF OsTyped
  <2>2. osPol.seen \in Int /\ osPol.changed \in Nat
    BY <1>1, ObjectFields
  <2>. QED BY <1>5, <2>1, <2>2, OsConsts
<1>9. /\ acl <= osAcl /\ osCk.perms = perms /\ perms < osNow
      /\ Resolves(osPol) => seen >= acl /\ seen # Unseen /\ seen \notin OsUnmapped
      /\ osRun.latest = IF Resolves(osPol) /\ changed > perms THEN changed ELSE perms
      /\ osBound' = IF Resolves(osPol) THEN acl ELSE bound
      /\ seen # Unseen => seen >= bound
      /\ osPol.rule \in {Unresolved, seen}
  BY <1>2, <1>3, <1>8 DEF RunMarks, PolicySound, Resolves
<1>10. osNow \in Nat /\ osAcl \in Nat
  BY <1>1, OsConsts DEF OsTyped
<1>11. osCk'.perms \in Nat /\ osCk'.perms <= osNow /\ (~osPol.loaded => osCk'.perms < osNow)
  BY <1>5, <1>7, <1>8, <1>9, <1>10 DEF Resolves
<1>12. PolicySound'
  <2>1. osBound' <= osAcl /\ (seen # Unseen => seen >= osBound')
    BY <1>3, <1>8, <1>9 DEF PolicySound
  <2>. QED BY <1>2, <1>3, <1>8, <1>11, <2>1 DEF PolicySound, Resolves
<1>13. InForce'
  <2>. SUFFICES ASSUME NEW k \in OsKeys, Known(k)', osObj[k].lm <= osCk'.since
       PROVE  /\ NotOlder(k, osBound')
              /\ seen \notin OsUnmapped \union {Unseen} /\ changed <= osCk'.perms => NotOlder(k, seen)
    BY <1>2, <1>8 DEF InForce, NotOlder
  <2>1. Known(k) /\ (k <= osRun.start.after => osIdx[k].rule = osPol.rule)
    BY <1>2 DEF Known
  <2>2. k \in Nat \ {0} /\ osObj[k].lm \in Nat /\ osIdx[k].rule \in Int
    BY <1>1, OsConsts, ObjectFields
  <2>3. CASE osIdx[k].rule = osPol.rule
    <3>1. osPol.rule = Unresolved \/ (osPol.rule = seen /\ seen # Unseen)
      BY <1>9 DEF Unresolved, Unseen
    <3>2. seen # Unseen => seen >= osBound'
      BY <1>8, <1>9
    <3>. QED BY <1>8, <2>3, <3>1, <3>2 DEF NotOlder
  <2>4. ASSUME osObj[k].lm <= osRun.start.since, Resolves(osPol) => changed <= perms
        PROVE  /\ NotOlder(k, osBound')
               /\ seen \notin OsUnmapped \union {Unseen} /\ changed <= osCk'.perms => NotOlder(k, seen)
    <3>1. /\ NotOlder(k, bound)
          /\ seen \notin OsUnmapped \union {Unseen} /\ changed <= perms => NotOlder(k, seen)
      BY <1>3, <1>5, <1>8, <1>9, <2>1, <2>4 DEF InForce
    <3>2. osCk'.perms = perms
      <4>1. osRun.latest = perms
        BY <1>9, <2>4
      <4>. QED BY <1>7, <1>8, <4>1
    <3>3. CASE Resolves(osPol)
      <4>1. NotOlder(k, seen) /\ seen >= acl /\ osBound' = acl
        BY <1>9, <2>4, <3>1, <3>3
      <4>2. NotOlder(k, acl)
        BY <1>8, <2>2, <4>1 DEF NotOlder
      <4>. QED BY <4>1, <4>2
    <3>4. CASE ~Resolves(osPol)
      BY <1>9, <3>1, <3>2, <3>4
    <3>. QED BY <3>3, <3>4
  <2>5. CASE osCk' = osRun.start /\ since = 0 /\ osRun.latest = 0
    <3>1. Resolves(osPol) => changed <= perms
      BY <1>8, <1>9, <2>5
    <3>. QED BY <2>4, <2>5, <3>1
  <2>6. CASE osCk'.since = since /\ k > osRun.start.after
    <3>1. osObj[k].lm < osRun.clock
      BY <1>5, <1>6, <2>2, <2>6
    <3>2. k <= osRun.pos
      BY <1>2, <1>3, <1>5, <2>1, <2>2, <3>1 DEF PageTells, Known
    <3>3. Passed(k)
      BY <1>2, <1>5, <2>2, <2>6, <3>1, <3>2 DEF Passed
    <3>4. /\ osPol.loaded
          /\ osObj[k].lm > osRun.start.since => osIdx[k].rule = osPol.rule
          /\ ~osPol.err /\ changed > perms => osIdx[k].rule = osPol.rule
      BY <1>3, <1>8, <2>1, <3>3 DEF PassedRight
    <3>5. CASE osIdx[k].rule # osPol.rule
      <4>1. osObj[k].lm <= osRun.start.since /\ (Resolves(osPol) => changed <= perms)
        BY <1>5, <1>8, <2>2, <3>4, <3>5 DEF Resolves
      <4>. QED BY <2>4, <4>1
    <3>. QED BY <2>3, <3>5
  <2>7. CASE ~(k > osRun.start.after)
    BY <1>5, <2>1, <2>2, <2>3, <2>7
  <2>. QED BY <1>7, <2>5, <2>6, <2>7
<1>. QED BY <1>2, <1>4, <1>10, <1>11, <1>12, <1>13 DEF OsRulesInv

LEMMA OsFailTells ==
  ASSUME OsInv, OsRulesInv, OsFail \/ OsRestart
  PROVE  OsRulesInv'
<1>1. OsTyped
  BY DEF OsInv
<1>2. PolicySound /\ InForce /\ osCk.perms <= osEnded /\ osEnded <= osNow /\ osEnded \in Nat
  BY DEF OsRulesInv
<1>3. /\ osRun' = osNoRun /\ osBehind' = osBehind \union osLeft(osCk.after)
      /\ osPol' \in {osPol, osNoPolicy} /\ osEnded' \in {osNow, osEnded}
      /\ UNCHANGED <<osNow, osObj, osAcl, osIdx, osCk, osSkipped, osMissed, osBound>>
  BY DEF OsFail, OsRestart, osKeepsStore
<1>4. ~osRun'.on
  BY <1>3 DEF osNoRun
<1>5. osNow \in Nat /\ osCk.perms \in Nat /\ osAcl \in Nat /\ osBound \in Nat
  BY <1>1, ObjectFields, OsConsts DEF OsTyped
<1>6. osCk.perms <= osEnded' /\ osEnded' <= osNow /\ osEnded' \in Nat
  BY <1>2, <1>3, <1>5
<1>7. osNoPolicy.loaded = FALSE /\ osNoPolicy.err = FALSE /\ osNoPolicy.rule = Unresolved /\ osNoPolicy.seen = Unseen
  BY DEF osNoPolicy
<1>8. PolicySound'
  <2>1. CASE osPol' = osPol
    BY <1>2, <1>3, <2>1 DEF PolicySound, Resolves
  <2>2. CASE osPol' = osNoPolicy
    BY <1>2, <1>3, <1>5, <1>7, <2>2 DEF PolicySound, Resolves, Unseen
  <2>. QED BY <1>3, <2>1, <2>2
<1>9. InForce'
  <2>. SUFFICES ASSUME NEW k \in OsKeys, Known(k)', osObj[k].lm <= osCk.since
       PROVE  /\ NotOlder(k, osBound)
              /\ osPol'.seen \notin OsUnmapped \union {Unseen} /\ osPol'.changed <= osCk.perms => NotOlder(k, osPol'.seen)
    BY <1>3 DEF InForce, NotOlder
  <2>1. Known(k)
    BY <1>3 DEF Known
  <2>2. /\ NotOlder(k, osBound)
        /\ osPol.seen \notin OsUnmapped \union {Unseen} /\ osPol.changed <= osCk.perms => NotOlder(k, osPol.seen)
    BY <1>2, <2>1 DEF InForce
  <2>. QED BY <1>3, <1>7, <2>2
<1>. QED BY <1>3, <1>4, <1>6, <1>8, <1>9 DEF OsRulesInv

\* The sweep asks the same policy, in a second after the last run's if it has to load it.
LEMMA OsFetchTells ==
  ASSUME OsInv, OsInv', OsRulesInv, NEW w \in OsKeys, NEW answer \in {"ok", "NoSuchKey", "NoSuchBucket"}, OsFetch(w, answer)
  PROVE  OsRulesInv'
<1>1. OsTyped /\ OsClocked /\ OsTyped'
  BY DEF OsInv
<1>2. PolicySound /\ InForce
  BY DEF OsRulesInv
<1>3. ~osRun.on /\ w \in OsWanted /\ UNCHANGED <<osNow, osObj, osAcl, osCk, osRun, osEnded, osBound>>
  BY DEF OsFetch, osKeepsStore
<1>4. osIdx \in [OsKeys -> [ver: Nat, tag: Nat, rule: Int]]
  BY <1>1 DEF OsTyped
<1>5. ASSUME answer # "ok" PROVE OsRulesInv'
  <2>1. /\ UNCHANGED <<osPol, osBehind, osSkipped>>
        /\ \/ osIdx' = [osIdx EXCEPT ![w] = osAbsent] /\ osMissed' = osMissed \ {w}
           \/ UNCHANGED <<osIdx, osMissed>>
    BY <1>5 DEF OsFetch, gone
  <2>2. \A k \in OsKeys : Known(k)' => Known(k) /\ osIdx'[k] = osIdx[k]
    <3>1. CASE osIdx' = [osIdx EXCEPT ![w] = osAbsent] /\ osMissed' = osMissed \ {w}
      <4>1. osIdx'[w].ver = 0 /\ \A k \in OsKeys \ {w} : osIdx'[k] = osIdx[k]
        BY <1>4, <3>1 DEF osAbsent
      <4>. QED BY <1>3, <2>1, <3>1, <4>1 DEF Known
    <3>2. CASE UNCHANGED <<osIdx, osMissed>>
      BY <1>3, <2>1, <3>2 DEF Known
    <3>. QED BY <2>1, <3>1, <3>2
  <2>3. PolicySound'
    BY <1>2, <1>3, <2>1 DEF PolicySound, Resolves
  <2>4. InForce'
    BY <1>2, <1>3, <2>1, <2>2 DEF InForce, NotOlder
  <2>. QED BY <1>3, <2>3, <2>4 DEF OsRulesInv
<1>6. ASSUME answer = "ok" PROVE OsRulesInv'
  <2>. DEFINE q == load(osPol, FALSE)
  <2>1. /\ osPol' = q /\ osMissed' = (osMissed \union missedBy(osPol, q)) \ {w}
        /\ osBehind' = osBehind \ {w} /\ osSkipped' = osSkipped \ {w}
        /\ osIdx' = [osIdx EXCEPT ![w] = [ver |-> osObj[w].tag, tag |-> version(osObj[w]), rule |-> q.rule]]
    BY <1>6 DEF OsFetch, gone
  <2>2. PICK p \in [loaded: BOOLEAN, err: BOOLEAN, rule: Int, seen: Int, changed: Nat] : p = osPol'
    BY <1>1 DEF OsTyped
  <2>3. p = load(osPol, FALSE)
    BY <2>1, <2>2
  <2>4. /\ osMissed' = (osMissed \union missedBy(osPol, p)) \ {w}
        /\ osIdx' = [osIdx EXCEPT ![w] = [ver |-> osObj[w].tag, tag |-> version(osObj[w]), rule |-> p.rule]]
    BY <2>1, <2>2
  <2>. HIDE DEF q
  <2>5. osIdx'[w].rule = p.rule /\ \A k \in OsKeys \ {w} : osIdx'[k] = osIdx[k]
    BY <1>4, <2>4
  <2>6. /\ p.loaded
        /\ p.seen <= osAcl /\ p.rule \in {Unresolved, p.seen}
        /\ ~p.err => p.rule = p.seen /\ p.seen \notin OsUnmapped /\ p.seen # Unseen
        /\ p.err => p.rule = Unresolved
        /\ p.seen # Unseen => p.seen >= osBound
        /\ \A k \in OsKeys : osIdx[k].ver # 0 /\ k \notin missedBy(osPol, p) /\ Fits(k, osPol) => Fits(k, p)
    BY <1>1, <1>2, <2>3, LoadFits
  <2>7. PolicySound'
    BY <1>2, <1>3, <2>2, <2>6 DEF PolicySound, Resolves
  <2>8. InForce'
    <3>. SUFFICES ASSUME NEW k \in OsKeys, Known(k)', osObj[k].lm <= osCk.since
         PROVE  /\ osIdx'[k].rule = Unresolved \/ osIdx'[k].rule >= osBound
                /\ p.seen \notin OsUnmapped \union {Unseen} /\ p.changed <= osCk.perms =>
                     osIdx'[k].rule = Unresolved \/ osIdx'[k].rule >= p.seen
      BY <1>3, <2>2 DEF InForce, NotOlder
    <3>1. CASE k # w
      <4>1. Known(k) /\ k \notin missedBy(osPol, p) /\ osIdx'[k] = osIdx[k]
        BY <1>3, <2>1, <2>4, <2>5, <3>1 DEF Known
      <4>2. Fits(k, osPol)
        BY <1>2, <4>1 DEF InForce, Fits
      <4>3. Fits(k, p)
        BY <2>6, <4>1, <4>2 DEF Known
      <4>. QED BY <4>1, <4>3 DEF Fits, NotOlder
    <3>2. CASE k = w
      <4>1. p.rule \in {Unresolved, p.seen} /\ (p.seen # Unseen => p.seen >= osBound) /\ p.seen \in Int /\ Unresolved = Unseen
        BY <2>6 DEF Unresolved, Unseen
      <4>. QED BY <2>5, <3>2, <4>1
    <3>. QED BY <3>1, <3>2
  <2>. QED BY <1>3, <2>7, <2>8 DEF OsRulesInv
<1>. QED BY <1>5, <1>6

LEMMA OsRulesStep == OsInv /\ OsInv' /\ OsRulesInv /\ [OsNext]_osVars => OsRulesInv'
<1>. SUFFICES ASSUME OsInv, OsInv', OsRulesInv, [OsNext]_osVars PROVE OsRulesInv'
  OBVIOUS
<1>1. CASE \E k \in OsKeys, b \in BOOLEAN : OsWrite(k, b)
  BY <1>1, OsWriteTells
<1>2. CASE \E k \in OsKeys, a \in {"ok", "NoSuchKey", "NoSuchBucket"} : OsFetch(k, a)
  BY <1>2, OsFetchTells
<1>3. CASE \E b, c \in BOOLEAN : OsObject(b, c)
  BY <1>3, OsObjectTells
<1>4. CASE OsRewriteList \/ OsTick
  BY <1>4, OsTimeTells
<1>5. CASE OsSync \/ OsList \/ OsFinish \/ OsFail \/ OsRestart
  BY <1>5, OsSyncTells, OsListTells, OsFinishTells, OsFailTells
<1>6. CASE UNCHANGED osVars
  <2>1. UNCHANGED <<osNow, osObj, osAcl, osIdx, osCk, osPol, osRun, osEnded, osBehind, osSkipped, osMissed, osBound>>
    BY <1>6 DEF osVars
  <2>2. PolicySound' /\ InForce'
    BY <2>1 DEF OsRulesInv, PolicySound, Resolves, InForce, Known, NotOlder
  <2>3. osRun.on => RunMarks' /\ PassedRight' /\ PageTells'
    BY <2>1 DEF OsRulesInv, RunMarks, Resolves, PassedRight, Known, Passed, PageTells
  <2>. QED BY <2>1, <2>2, <2>3 DEF OsRulesInv
<1>. QED BY <1>1, <1>2, <1>3, <1>4, <1>5, <1>6 DEF OsNext

LEMMA OsRulesHold == OsRulesInv => ListApplied
<1>. SUFFICES ASSUME OsRulesInv PROVE ListApplied
  OBVIOUS
<1>1. InForce
  BY DEF OsRulesInv
<1>. QED BY <1>1, OsConsts DEF ListApplied, InForce, Known, NotOlder

-----------------------------------------------------------------------------
(* What the connectors promise whoever may not read a document.            *)

\* RulesAreTheSources, for every value of the constants: documents are indexed under
\* what their sources said of them at some time, and whatever cannot be expressed is
\* held back.  That a revocation or a new list is applied in time is claimed with the
\* exceptions RevocationBounded and ListApplied name: what lies behind the place a
\* run resumed at, a list rewritten while no process remembered the one before, and
\* objects that could not be read or were written behind the listing.
THEOREM RulesAreKept == RulesSpec => []RulesAreTheSources
<1>. DEFINE Inv == /\ TsInv /\ TsRulesInv /\ OsInv /\ OsRulesInv /\ JrInv /\ jrScheme \in JrSchemes
                   /\ CfInv /\ AmInv
<1>1. Inv => RulesAreTheSources
  BY TsRulesHold, OsRulesHold, JrHolds, CfHolds, AmHolds DEF RulesAreTheSources
<1>2. TsInit /\ OsInit /\ JrInit /\ CfInit /\ AmInit => Inv
  BY TsInitInv, TsRulesInitInv, OsInitInv, OsRulesInitInv, JrInitInv, CfInitInv, AmInitInv
<1>3. Inv /\ [TsNext]_tsVars /\ [OsNext]_osVars /\ [JrNext]_jrVars /\ [CfNext]_cfVars /\ [AmNext]_amVars => Inv'
  BY TsStep, TsRulesStep, OsStep, OsRulesStep, JrStep, CfStep, AmStep
<1>. HIDE DEF Inv
<1>. QED BY <1>1, <1>2, <1>3, PTL DEF RulesSpec, TsSpec, OsSpec, JrSpec, CfSpec, AmSpec

-----------------------------------------------------------------------------
(* The ceiling.                                                            *)

(***************************************************************************)
(* The inductive invariant.  The room a policed quota has left is counted  *)
(* against the callers that wait for the bucket: those whose turn comes by *)
(* a given tick fit in it, because only one of them has its turn at each   *)
(* tick to come.                                                           *)
(***************************************************************************)

\* What one caller is doing, and what it owes the source that refused it.
Calls ==
  [at: {"idle", "wait", "out", "sleep"}, left: Nat, try: Nat, safe: BOOLEAN, held: BOOLEAN, owed: Nat]

Typed ==
  /\ lmTokens \in Int /\ lmTokens <= LmBurst /\ lmUntil \in Nat
  /\ lmFailed \in 0 .. LmFailures /\ lmOpen \in -1 .. LmCooldown
  /\ lmProbing \in BOOLEAN /\ lmLate \subseteq LmCallers
  /\ lmCall \in [LmCallers -> Calls]
  /\ lmRoom \in Int /\ lmRoom <= LmBurst
  /\ \A c \in LmCallers : lmCall[c].try <= (IF lmCall[c].safe THEN LmMaxRetries ELSE 0)

\* Only a request that may be sent again sleeps; what it owes is slept off, and
\* nothing is owed outside a sleep.
Patient == \A c \in LmCallers :
  IF lmCall[c].at = "sleep"
  THEN lmCall[c].owed <= lmCall[c].left /\ lmCall[c].safe /\ lmCall[c].try < LmMaxRetries
  ELSE lmCall[c].owed = 0

\* The callers that wait for the bucket rather than for a wall, and those of
\* them whose turn has come in t ticks.
Queued == {c \in LmCallers : lmCall[c].at = "wait" /\ ~lmCall[c].held}
Ripe(t) == {c \in Queued : lmCall[c].left <= t}

\* A turn that is still to come is one token further in debt than the one
\* before it, so no two are on the same tick.
TurnsApart ==
  /\ \A c \in Queued : lmCall[c].left > 0 => lmTokens <= -lmCall[c].left
  /\ \A c, d \in Queued : c # d /\ lmCall[c].left > 0 => lmCall[c].left # lmCall[d].left

RoomForAll ==
  /\ lmRoom >= lmTokens + Cardinality(Queued)
  /\ \A t \in Nat : lmRoom + t >= Cardinality(Ripe(t))

\* Who has sent a request since the circuit opened is not waiting to send one.
LateIsOut == lmOpen > 0 => \A c \in lmLate : lmCall[c].at # "wait"

LmInv == Typed /\ Patient /\ TurnsApart /\ RoomForAll /\ LateIsOut

-----------------------------------------------------------------------------
(* Callers that wait for the bucket.                                       *)

\* No doubling of the backoff wraps around to a wait that is short and positive.
\* One that runs over the width of a duration into a negative wait may.
NoShortWrap == \A n \in 0 .. (LmMaxRetries - 1) :
  shifted(LmMinBackoff, n) \in {d \in Int : d <= 0 \/ d >= LmMinBackoff}

LEMMA Consts ==
  /\ LmBurst \in Nat \ {0} /\ LmMaxRetries \in Nat /\ LmFailures \in Nat \ {0}
  /\ LmCooldown \in Nat \ {0} /\ LmMinBackoff \in Nat \ {0} /\ LmMaxBackoff \in Nat
  /\ LmMaxBackoff >= LmMinBackoff /\ LmMaxDebt \in Nat
  /\ IsFiniteSet(LmCallers) /\ LmNamed \subseteq Nat /\ LmSpent \subseteq Nat
BY LmAssumption DEF LmAssumption

LEMMA QueuedFinite ==
  /\ IsFiniteSet(Queued) /\ Cardinality(Queued) \in Nat
  /\ \A t : Ripe(t) \subseteq Queued /\ IsFiniteSet(Ripe(t)) /\ Cardinality(Ripe(t)) \in Nat
<1>1. Queued \subseteq LmCallers /\ \A t : Ripe(t) \subseteq Queued
  BY DEF Queued, Ripe
<1>. QED BY <1>1, Consts, FS_Subset, FS_CardinalityType

\* Turns on different ticks, all of them to come: as many as there are ticks.
LEMMA DifferentTicks ==
  ASSUME Typed, NEW S \in SUBSET LmCallers, NEW n \in Nat,
         \A c \in S : lmCall[c].left \in 1 .. n,
         \A c, d \in S : c # d => lmCall[c].left # lmCall[d].left
  PROVE  Cardinality(S) <= n
<1>. DEFINE turn == [c \in S |-> lmCall[c].left]
<1>1. turn \in Injection(S, 1 .. n)
  BY DEF Injection, IsInjective
<1>2. IsFiniteSet(1 .. n) /\ Cardinality(1 .. n) <= n
  BY FS_Interval
<1>3. IsFiniteSet(S) /\ Cardinality(S) <= Cardinality(1 .. n)
  BY <1>1, <1>2, FS_Injection
<1>. QED BY <1>2, <1>3, FS_CardinalityType

\* One call changes, and it does not wait for the bucket afterwards.
LEMMA LeavesQueue ==
  ASSUME Typed, TurnsApart, RoomForAll, NEW c \in LmCallers,
         \A d \in LmCallers : d # c => lmCall'[d] = lmCall[d],
         lmCall'[c].at # "wait", UNCHANGED lmTokens,
         lmRoom' \in Int, lmRoom' >= lmRoom \/ (c \in Ripe(0) /\ lmRoom' = lmRoom - 1)
  PROVE  TurnsApart' /\ RoomForAll'
<1>1. Queued' = Queued \ {c} /\ \A t : Ripe(t)' = Ripe(t) \ {c}
  BY DEF Queued, Ripe
<1>2. TurnsApart'
  BY <1>1 DEF TurnsApart, Queued
<1>3. /\ IsFiniteSet(Queued) /\ Cardinality(Queued) \in Nat
      /\ \A t : IsFiniteSet(Ripe(t)) /\ Cardinality(Ripe(t)) \in Nat
  BY QueuedFinite
<1>4. /\ Cardinality(Queued \ {c}) = IF c \in Queued THEN Cardinality(Queued) - 1 ELSE Cardinality(Queued)
      /\ \A t : Cardinality(Ripe(t) \ {c}) = IF c \in Ripe(t) THEN Cardinality(Ripe(t)) - 1 ELSE Cardinality(Ripe(t))
  BY <1>3, FS_RemoveElement
<1>5. lmRoom \in Int /\ lmTokens \in Int
  BY DEF Typed
<1>6. lmRoom' >= lmTokens' + Cardinality(Queued')
  <2>1. CASE c \in Ripe(0) /\ lmRoom' = lmRoom - 1
    <3>1. c \in Queued
      BY <2>1 DEF Ripe
    <3>. QED BY <1>1, <1>3, <1>4, <1>5, <2>1, <3>1 DEF RoomForAll
  <2>2. CASE lmRoom' >= lmRoom
    BY <1>1, <1>3, <1>4, <1>5, <2>2 DEF RoomForAll
  <2>. QED BY <2>1, <2>2
<1>7. ASSUME NEW t \in Nat PROVE lmRoom' + t >= Cardinality(Ripe(t)')
  <2>0. lmRoom + t >= Cardinality(Ripe(t))
    BY DEF RoomForAll
  <2>1. CASE c \in Ripe(0) /\ lmRoom' = lmRoom - 1
    <3>1. c \in Ripe(t)
      BY <2>1 DEF Ripe, Queued, Typed, Calls
    <3>. QED BY <1>1, <1>3, <1>4, <1>5, <2>0, <2>1, <3>1
  <2>2. CASE lmRoom' >= lmRoom
    BY <1>1, <1>3, <1>4, <1>5, <2>0, <2>2
  <2>. QED BY <2>1, <2>2
<1>. QED BY <1>2, <1>6, <1>7 DEF RoomForAll

\* A caller takes its turn: behind a wall, or one token further in debt than
\* whoever waits already.
LEMMA JoinsQueue ==
  ASSUME Typed, TurnsApart, RoomForAll, NEW c \in LmCallers, NEW call \in Calls,
         c \notin Queued, lmQueues(c, call), lmRoom' = lmRoom
  PROVE  TurnsApart' /\ RoomForAll'
<1>. DEFINE debt == larger(1 - lmTokens, 0)
<1>0. lmTokens \in Int /\ lmRoom \in Int /\ lmUntil \in Nat
  BY DEF Typed
<1>1. lmTokens' = lmTokens - 1
  BY DEF lmQueues, reserved
<1>2. /\ lmCall'[c].at = "wait" /\ lmCall'[c].left = lmWait /\ lmCall'[c].held = lmHeld
      /\ \A d \in LmCallers : d # c => lmCall'[d] = lmCall[d]
  BY DEF lmQueues, Typed, Calls
<1>3. -reserved = 1 - lmTokens
  BY <1>0 DEF reserved
<1>4. /\ lmHeld <=> lmUntil > debt
      /\ lmWait = larger(debt, lmUntil)
  BY <1>3 DEF lmHeld, lmWait
<1>5. debt \in Nat /\ (lmTokens >= 1 => debt = 0) /\ (lmTokens <= 0 => debt = 1 - lmTokens)
  BY <1>0 DEF larger
<1>. HIDE DEF debt
<1>6. ~lmHeld => lmWait = debt
  BY <1>0, <1>4, <1>5 DEF larger
<1>7. /\ IsFiniteSet(Queued) /\ Cardinality(Queued) \in Nat
      /\ \A t : Ripe(t) \subseteq Queued /\ IsFiniteSet(Ripe(t)) /\ Cardinality(Ripe(t)) \in Nat
  BY QueuedFinite
<1>8. CASE lmHeld
  <2>1. Queued' = Queued /\ \A t : Ripe(t)' = Ripe(t)
    BY <1>2, <1>8 DEF Queued, Ripe
  <2>2. \A d \in Queued : d # c
    OBVIOUS
  <2>3. TurnsApart'
    <3>1. \A d \in Queued : lmCall'[d] = lmCall[d] /\ lmCall[d].left \in Nat
      BY <1>2, <2>2 DEF Queued, Typed, Calls
    <3>. QED BY <1>0, <1>1, <2>1, <3>1 DEF TurnsApart
  <2>4. RoomForAll'
    BY <1>0, <1>1, <1>7, <2>1 DEF RoomForAll
  <2>. QED BY <2>3, <2>4
<1>9. CASE ~lmHeld
  <2>1. Queued' = Queued \cup {c} /\ lmCall'[c].left = debt
    BY <1>2, <1>6, <1>9 DEF Queued
  <2>2. \A t \in Nat : Ripe(t)' = IF debt <= t THEN Ripe(t) \cup {c} ELSE Ripe(t)
    BY <1>2, <2>1 DEF Queued, Ripe
  <2>3. \A d \in Queued : d # c /\ lmCall'[d] = lmCall[d] /\ lmCall[d].left \in Nat
    BY <1>2 DEF Queued, Typed, Calls
  <2>4. TurnsApart'
    <3>1. ASSUME NEW d \in Queued', lmCall'[d].left > 0 PROVE lmTokens' <= -(lmCall'[d].left)
      <4>1. CASE d = c
        BY <1>0, <1>1, <1>5, <2>1, <3>1, <4>1
      <4>2. CASE d # c
        BY <1>0, <1>1, <2>1, <2>3, <3>1, <4>2 DEF TurnsApart
      <4>. QED BY <4>1, <4>2
    <3>2. \A d \in Queued : lmCall[d].left > 0 => lmCall[d].left # debt
      BY <1>0, <1>5, <2>3 DEF TurnsApart
    <3>3. ASSUME NEW d \in Queued', NEW e \in Queued', d # e, lmCall'[d].left > 0
          PROVE  lmCall'[d].left # lmCall'[e].left
      <4>1. CASE d = c
        <5>1. e \in Queued /\ lmCall'[d].left = debt /\ debt > 0
          BY <2>1, <3>3, <4>1
        <5>2. lmCall'[e].left = lmCall[e].left /\ lmCall[e].left \in Nat
          BY <2>3, <5>1
        <5>. QED BY <3>2, <5>1, <5>2
      <4>2. CASE e = c
        <5>1. d \in Queued /\ lmCall'[e].left = debt
          BY <2>1, <3>3, <4>2
        <5>. QED BY <2>3, <3>2, <3>3, <5>1
      <4>3. CASE d # c /\ e # c
        <5>1. d \in Queued /\ e \in Queued
          BY <2>1, <3>3, <4>3
        <5>. QED BY <2>3, <3>3, <5>1 DEF TurnsApart
      <4>. QED BY <4>1, <4>2, <4>3
    <3>. QED BY <3>1, <3>3 DEF TurnsApart
  <2>5. Cardinality(Queued') = Cardinality(Queued) + 1
    BY <1>7, <2>1, FS_AddElement
  <2>6. lmRoom >= lmTokens + Cardinality(Queued)
    BY DEF RoomForAll
  <2>7. lmRoom' >= lmTokens' + Cardinality(Queued')
    BY <1>0, <1>1, <1>7, <2>5, <2>6
  <2>8. ASSUME NEW t \in Nat PROVE lmRoom' + t >= Cardinality(Ripe(t)')
    <3>1. CASE debt <= t
      <4>1. Cardinality(Ripe(t)') = Cardinality(Ripe(t)) + 1
        BY <1>7, <2>2, <3>1, FS_AddElement, ZenonT(40)
      <4>2. Cardinality(Ripe(t)) <= Cardinality(Queued)
        BY <1>7, FS_Subset
      <4>3. lmTokens + t >= 1
        BY <1>0, <1>5, <3>1
      <4>. QED BY <1>0, <1>7, <2>6, <4>1, <4>2, <4>3
    <3>2. CASE ~(debt <= t)
      BY <2>2, <3>2 DEF RoomForAll
    <3>. QED BY <3>1, <3>2
  <2>. QED BY <2>4, <2>7, <2>8 DEF RoomForAll
<1>. QED BY <1>8, <1>9

\* A tick brings a token back, and everybody's turn nearer.
LEMMA TicksQueue ==
  ASSUME Typed, TurnsApart, RoomForAll, LmTick
  PROVE  TurnsApart' /\ RoomForAll'
<1>0. lmTokens \in Int /\ lmTokens <= LmBurst /\ lmRoom \in Int /\ lmRoom <= LmBurst
      /\ LmBurst \in Nat \ {0}
  BY Consts DEF Typed
<1>1. lmTokens' = smaller(LmBurst, lmTokens + 1) /\ lmRoom' = smaller(LmBurst, lmRoom + 1)
  BY DEF LmTick
<1>2. \A c \in LmCallers : /\ lmCall'[c].at = lmCall[c].at /\ lmCall'[c].held = lmCall[c].held
                           /\ lmCall'[c].left = less(lmCall[c].left)
  BY DEF LmTick, Typed, Calls
<1>3. Queued' = Queued /\ Queued \subseteq LmCallers
  BY <1>2 DEF Queued
<1>4. \A c \in Queued : /\ lmCall[c].left \in Nat /\ lmCall[c].left > 0
                        /\ lmCall'[c].left = lmCall[c].left - 1
  <2>. SUFFICES ASSUME NEW c \in Queued
                PROVE  /\ lmCall[c].left \in Nat /\ lmCall[c].left > 0
                       /\ lmCall'[c].left = lmCall[c].left - 1
    OBVIOUS
  <2>1. c \in LmCallers /\ lmCall[c].at = "wait"
    BY DEF Queued
  <2>2. lmCall[c].left \in Nat
    BY <2>1 DEF Typed, Calls
  <2>3. lmCall[c].left > 0
    BY <2>1 DEF LmTick
  <2>4. lmCall'[c].left = less(lmCall[c].left)
    BY <1>2, <2>1
  <2>. QED BY <2>2, <2>3, <2>4 DEF less, larger
<1>5. \A t \in Nat : Ripe(t)' = Ripe(t + 1)
  BY <1>3, <1>4 DEF Ripe
<1>6. /\ IsFiniteSet(Queued) /\ Cardinality(Queued) \in Nat
      /\ \A t : Ripe(t) \subseteq Queued /\ IsFiniteSet(Ripe(t)) /\ Cardinality(Ripe(t)) \in Nat
  BY QueuedFinite
<1>7. \A t \in Nat : Cardinality(Ripe(t + 1)) <= t + 1
  <2>. SUFFICES ASSUME NEW t \in Nat PROVE Cardinality(Ripe(t + 1)) <= t + 1
    OBVIOUS
  <2>1. Ripe(t + 1) \in SUBSET LmCallers /\ t + 1 \in Nat
    BY <1>3, <1>6
  <2>2. \A c \in Ripe(t + 1) : lmCall[c].left \in 1 .. (t + 1)
    BY <1>4, <1>6 DEF Ripe
  <2>3. \A c, d \in Ripe(t + 1) : c # d => lmCall[c].left # lmCall[d].left
    BY <1>4, <1>6 DEF TurnsApart
  <2>. QED BY <2>1, <2>2, <2>3, DifferentTicks
<1>8. TurnsApart'
  BY <1>0, <1>1, <1>3, <1>4 DEF TurnsApart, smaller
<1>9. lmRoom' >= lmTokens' + Cardinality(Queued')
  <2>1. CASE Queued = {}
    <3>1. Cardinality(Queued) = 0
      BY <2>1, FS_EmptySet
    <3>. QED BY <1>0, <1>1, <1>3, <3>1 DEF RoomForAll, smaller
  <2>2. CASE Queued # {}
    <3>1. \A c \in Queued : lmCall[c].left \in 1 .. (-lmTokens)
      BY <1>0, <1>4 DEF TurnsApart
    <3>2. -lmTokens \in Nat
      BY <1>0, <1>4, <2>2, <3>1
    <3>3. \A c, d \in Queued : c # d => lmCall[c].left # lmCall[d].left
      BY <1>4 DEF TurnsApart
    <3>4. Cardinality(Queued) <= -lmTokens
      BY <1>3, <3>1, <3>2, <3>3, DifferentTicks
    <3>. QED BY <1>0, <1>1, <1>3, <1>6, <3>4 DEF RoomForAll, smaller
  <2>. QED BY <2>1, <2>2
<1>10. ASSUME NEW t \in Nat PROVE lmRoom' + t >= Cardinality(Ripe(t)')
  <2>1. Ripe(t)' = Ripe(t + 1) /\ t + 1 \in Nat
    BY <1>5
  <2>2. lmRoom + (t + 1) >= Cardinality(Ripe(t + 1)) /\ Cardinality(Ripe(t + 1)) <= t + 1
        /\ Cardinality(Ripe(t + 1)) \in Nat
    BY <1>6, <1>7, <2>1 DEF RoomForAll
  <2>3. lmRoom' = LmBurst \/ lmRoom' = lmRoom + 1
    BY <1>1 DEF smaller
  <2>. QED BY <1>0, <2>1, <2>2, <2>3
<1>. QED BY <1>8, <1>9, <1>10 DEF RoomForAll

-----------------------------------------------------------------------------
(* What each action does to the rest of the invariant.                     *)

\* A wait is no shorter than half the smallest backoff, and one for a refusal
\* that names a time lasts until then.
LEMMA Waits ==
  ASSUME NoShortWrap, NEW n \in 0 .. (LmMaxRetries - 1), NEW named \in Nat, NEW d \in backoff(n, named)
  PROVE  /\ d \in Nat /\ d >= LmMinBackoff \div 2
         /\ smaller(named, LmMaxBackoff) \in Nat /\ smaller(named, LmMaxBackoff) <= d
<1>1. LmMinBackoff \in Nat \ {0} /\ LmMaxBackoff \in Nat /\ LmMaxBackoff >= LmMinBackoff
  BY Consts
<1>2. smaller(named, LmMaxBackoff) \in Nat
  BY <1>1 DEF smaller
<1>3. \A m \in Nat \ {0} : halfToFull(m) = (m \div 2) .. (2 * (m \div 2)) /\ m \div 2 \in Nat
  BY DEF halfToFull
<1>4. CASE named > 0
  <2>1. PICK j \in halfToFull(LmMinBackoff) : d = smaller(named, LmMaxBackoff) + j
    BY <1>4 DEF backoff
  <2>2. j \in Nat /\ j >= LmMinBackoff \div 2 /\ LmMinBackoff \div 2 \in Nat
    BY <1>1, <1>3, <2>1
  <2>. QED BY <1>2, <2>1, <2>2
<1>5. CASE ~(named > 0)
  <2>. DEFINE w == shifted(LmMinBackoff, n)
              m == IF w <= 0 \/ w > LmMaxBackoff THEN LmMaxBackoff ELSE w
  <2>1. w \in Int /\ (w <= 0 \/ w >= LmMinBackoff)
    BY DEF NoShortWrap
  <2>2. d \in halfToFull(m)
    BY <1>5 DEF backoff
  <2>. HIDE DEF w
  <2>3. m \in Nat \ {0} /\ m >= LmMinBackoff
    BY <1>1, <2>1
  <2>. HIDE DEF m
  <2>4. d \in (m \div 2) .. (2 * (m \div 2)) /\ m \div 2 \in Nat
    BY <1>3, <2>2, <2>3
  <2>5. m \div 2 >= LmMinBackoff \div 2 /\ LmMinBackoff \div 2 \in Nat
    BY <1>1, <2>3
  <2>6. named = 0
    BY <1>5
  <2>7. smaller(named, LmMaxBackoff) = 0
    BY <1>1, <2>6 DEF smaller
  <2>. QED BY <2>4, <2>5, <2>7
<1>. QED BY <1>4, <1>5

LEMMA InitInv == LmInit => LmInv
<1>. SUFFICES ASSUME LmInit PROVE LmInv
  OBVIOUS
<1>1. Typed
  <2>1. lmIdle \in Calls /\ lmIdle.try = 0
    BY DEF Calls, lmIdle
  <2>2. lmCall \in [LmCallers -> Calls] /\ \A c \in LmCallers : lmCall[c].try = 0
    BY <2>1 DEF LmInit
  <2>3. /\ lmTokens \in Int /\ lmTokens <= LmBurst /\ lmUntil \in Nat /\ lmFailed \in 0 .. LmFailures
        /\ lmOpen \in -1 .. LmCooldown /\ lmRoom \in Int /\ lmRoom <= LmBurst /\ LmMaxRetries \in Nat
    BY Consts DEF LmInit
  <2>4. lmProbing \in BOOLEAN /\ lmLate \subseteq LmCallers
    BY DEF LmInit
  <2>. QED BY <2>2, <2>3, <2>4 DEF Typed
<1>2. Patient /\ LateIsOut
  BY DEF LmInit, Patient, LateIsOut, lmIdle
<1>3. Queued = {} /\ \A t : Ripe(t) = {}
  BY DEF LmInit, Queued, Ripe, lmIdle
<1>4. Cardinality({}) = 0
  BY FS_EmptySet
<1>5. lmRoom \in Nat /\ lmTokens = lmRoom
  BY Consts DEF LmInit
<1>6. TurnsApart
  BY <1>3 DEF TurnsApart
<1>7. RoomForAll
  BY <1>3, <1>4, <1>5 DEF RoomForAll
<1>. QED BY <1>1, <1>2, <1>6, <1>7 DEF LmInv

\* A caller that takes its turn, for a new request or for another attempt.
LEMMA TakesTurn ==
  ASSUME LmInv, NEW c \in LmCallers, NEW call \in Calls, lmCall[c].at \notin {"wait", "out"},
         call.try <= (IF call.safe THEN LmMaxRetries ELSE 0), call.owed = 0,
         lmLets, lmPasses, lmQueues(c, call), UNCHANGED <<lmUntil, lmFailed, lmRoom>>
  PROVE  LmInv'
<1>1. Typed /\ Patient /\ TurnsApart /\ RoomForAll /\ LateIsOut
  BY DEF LmInv
<1>2. lmTokens \in Int /\ lmTokens <= LmBurst /\ lmUntil \in Nat /\ LmCooldown \in Nat \ {0} /\ LmBurst \in Nat
  BY <1>1, Consts DEF Typed
<1>3. lmWait \in Nat /\ lmHeld \in BOOLEAN
  BY <1>2 DEF lmWait, lmHeld, reserved, larger
<1>4. lmCall' = [lmCall EXCEPT ![c] = [call EXCEPT !.at = "wait", !.left = lmWait, !.held = lmHeld]]
      /\ lmTokens' = lmTokens - 1
  BY DEF lmQueues, reserved
<1>. DEFINE new == [call EXCEPT !.at = "wait", !.left = lmWait, !.held = lmHeld]
<1>5. new \in Calls /\ new.try = call.try /\ new.safe = call.safe /\ new.owed = 0 /\ new.at = "wait"
  BY <1>3 DEF Calls
<1>6. lmCall' = [lmCall EXCEPT ![c] = new]
  BY <1>4
<1>. HIDE DEF new
<1>7. /\ lmCall \in [LmCallers -> Calls] /\ lmCall' \in [LmCallers -> Calls]
      /\ lmCall'[c] = new /\ \A d \in LmCallers : d # c => lmCall'[d] = lmCall[d]
  BY <1>1, <1>5, <1>6 DEF Typed
<1>8. lmOpen' = -1 /\ lmProbing' \in BOOLEAN /\ lmLate' \subseteq LmCallers
  BY <1>1, <1>2 DEF lmPasses, Typed
<1>9. Typed'
  <2>1. \A d \in LmCallers : lmCall'[d].try <= (IF lmCall'[d].safe THEN LmMaxRetries ELSE 0)
    BY <1>1, <1>5, <1>7 DEF Typed
  <2>2. lmTokens' \in Int /\ lmTokens' <= LmBurst /\ lmOpen' \in -1 .. LmCooldown
    BY <1>2, <1>4, <1>8
  <2>. QED BY <1>1, <1>7, <1>8, <2>1, <2>2 DEF Typed
<1>10. Patient'
  BY <1>1, <1>5, <1>7 DEF Patient
<1>11. c \notin Queued
  BY DEF Queued
<1>12. TurnsApart' /\ RoomForAll'
  BY <1>1, <1>11, JoinsQueue
<1>13. LateIsOut'
  BY <1>8 DEF LateIsOut
<1>. QED BY <1>9, <1>10, <1>12, <1>13 DEF LmInv

\* A call that ends: the caller's context, or a circuit that opened meanwhile.
LEMMA Ends ==
  ASSUME LmInv, NEW c \in LmCallers, lmCall' = [lmCall EXCEPT ![c] = lmIdle],
         UNCHANGED <<lmTokens, lmUntil, lmFailed, lmProbing, lmOpen, lmRoom, lmLate>>
  PROVE  LmInv'
<1>1. Typed /\ Patient /\ TurnsApart /\ RoomForAll /\ LateIsOut
  BY DEF LmInv
<1>2. lmIdle \in Calls /\ lmIdle.try = 0 /\ lmIdle.owed = 0 /\ lmIdle.at = "idle"
  BY DEF Calls, lmIdle
<1>3. /\ lmCall \in [LmCallers -> Calls] /\ lmCall' \in [LmCallers -> Calls]
      /\ lmCall'[c] = lmIdle /\ \A d \in LmCallers : d # c => lmCall'[d] = lmCall[d]
  BY <1>1, <1>2 DEF Typed
<1>4. Typed'
  <2>1. \A d \in LmCallers : lmCall'[d].try <= (IF lmCall'[d].safe THEN LmMaxRetries ELSE 0)
    BY <1>1, <1>2, <1>3, Consts DEF Typed
  <2>. QED BY <1>1, <1>3, <2>1 DEF Typed
<1>5. Patient'
  BY <1>1, <1>2, <1>3 DEF Patient
<1>6. lmRoom \in Int /\ lmRoom' = lmRoom
  BY <1>1 DEF Typed
<1>7. TurnsApart' /\ RoomForAll'
  BY <1>1, <1>2, <1>3, <1>6, LeavesQueue
<1>8. LateIsOut'
  BY <1>1, <1>2, <1>3 DEF LateIsOut
<1>. QED BY <1>4, <1>5, <1>7, <1>8 DEF LmInv

LEMMA BeginKeeps ==
  ASSUME LmInv, NEW c \in LmCallers, NEW safe \in BOOLEAN, LmBegin(c, safe)
  PROVE  LmInv'
<1>. DEFINE call == [lmIdle EXCEPT !.safe = safe]
<1>1. call \in Calls /\ call.try = 0 /\ call.owed = 0 /\ call.safe = safe
  BY DEF Calls, lmIdle
<1>2. call.try <= (IF call.safe THEN LmMaxRetries ELSE 0)
  BY <1>1, Consts
<1>3. lmQueues(c, call) /\ lmLets /\ lmPasses /\ UNCHANGED <<lmUntil, lmFailed, lmRoom>>
  BY DEF LmBegin
<1>4. lmCall[c].at \notin {"wait", "out"}
  BY DEF LmBegin
<1>. HIDE DEF call
<1>. QED BY <1>1, <1>2, <1>3, <1>4, TakesTurn

\* An attempt counts, and only one that may be repeated gets here.
LEMMA RetryKeeps ==
  ASSUME LmInv, NEW c \in LmCallers, LmRetry(c)
  PROVE  LmInv'
<1>0. Patient /\ lmCall[c].safe /\ lmCall[c].try < LmMaxRetries
  BY DEF LmInv, LmRetry, Patient
<1>1. CASE lmLets
  <2>. DEFINE call == [lmCall[c] EXCEPT !.try = @ + 1]
  <2>1. lmCall[c] \in Calls /\ lmCall[c].left = 0 /\ lmCall[c].at = "sleep" /\ LmMaxRetries \in Nat
    BY Consts DEF LmInv, Typed, LmRetry
  <2>2. lmCall[c].owed = 0
    BY <1>0, <2>1 DEF Patient, Calls
  <2>3. lmCall[c].try + 1 \in Nat /\ lmCall[c].try + 1 <= LmMaxRetries
    BY <1>0, <2>1 DEF Calls
  <2>4. call \in Calls /\ call.try = lmCall[c].try + 1 /\ call.safe /\ call.owed = 0
    BY <1>0, <2>1, <2>2, <2>3 DEF Calls
  <2>5. lmQueues(c, call) /\ lmPasses /\ UNCHANGED <<lmUntil, lmFailed, lmRoom>>
    BY <1>1 DEF LmRetry
  <2>. HIDE DEF call
  <2>. QED BY <1>1, <2>1, <2>3, <2>4, <2>5, TakesTurn
<1>2. CASE ~lmLets
  BY <1>2, Ends DEF LmRetry
<1>. QED BY <1>1, <1>2

\* A request goes out: the turn it waited for is used.
LEMMA SendKeeps ==
  ASSUME LmInv, NEW c \in LmCallers, LmSend(c)
  PROVE  LmInv'
<1>1. Typed /\ Patient /\ TurnsApart /\ RoomForAll /\ LateIsOut
  BY DEF LmInv
<1>2. /\ lmCall \in [LmCallers -> Calls] /\ lmCall[c].at = "wait" /\ lmCall[c].left = 0
      /\ lmCall' = [lmCall EXCEPT ![c].at = "out"]
      /\ UNCHANGED <<lmTokens, lmUntil, lmFailed, lmProbing, lmOpen>>
  BY <1>1 DEF LmSend, Typed
<1>3. /\ lmCall' \in [LmCallers -> Calls] /\ lmCall'[c].at = "out"
      /\ lmCall'[c].try = lmCall[c].try /\ lmCall'[c].safe = lmCall[c].safe /\ lmCall'[c].owed = lmCall[c].owed
      /\ \A d \in LmCallers : d # c => lmCall'[d] = lmCall[d]
  BY <1>2 DEF Calls
<1>4. lmRoom \in Int /\ lmRoom <= LmBurst /\ LmBurst \in Nat /\ lmLate \subseteq LmCallers
  BY <1>1, Consts DEF Typed
<1>5. lmRoom' \in Int /\ lmRoom' <= LmBurst /\ (lmRoom' >= lmRoom \/ (~lmCall[c].held /\ lmRoom' = lmRoom - 1))
  BY <1>4 DEF LmSend
<1>6. lmLate' = IF lmOpen > 0 THEN lmLate \union {c} ELSE lmLate
  BY DEF LmSend
<1>7. Typed'
  <2>1. \A d \in LmCallers : lmCall'[d].try <= (IF lmCall'[d].safe THEN LmMaxRetries ELSE 0)
    BY <1>1, <1>3 DEF Typed
  <2>2. lmLate' \subseteq LmCallers
    BY <1>4, <1>6
  <2>. QED BY <1>1, <1>2, <1>3, <1>5, <2>1, <2>2 DEF Typed
<1>8. Patient'
  BY <1>1, <1>2, <1>3 DEF Patient
<1>9. ~lmCall[c].held => c \in Ripe(0)
  BY <1>2 DEF Ripe, Queued
<1>10. TurnsApart' /\ RoomForAll'
  BY <1>1, <1>2, <1>3, <1>5, <1>9, LeavesQueue
<1>11. LateIsOut'
  <2>1. ASSUME lmOpen' > 0, NEW d \in lmLate' PROVE lmCall'[d].at # "wait"
    <3>1. CASE d = c
      BY <1>3, <3>1
    <3>2. CASE d # c
      BY <1>1, <1>2, <1>3, <1>4, <1>6, <2>1, <3>2 DEF LateIsOut
    <3>. QED BY <3>1, <3>2
  <2>. QED BY <2>1 DEF LateIsOut
<1>. QED BY <1>7, <1>8, <1>10, <1>11 DEF LmInv

\* What an answer does to the breaker.
LEMMA Records ==
  ASSUME Typed, LateIsOut, NEW a, lmRecord(a)
  PROVE  /\ lmFailed' \in 0 .. LmFailures /\ lmOpen' \in -1 .. LmCooldown /\ lmProbing' \in BOOLEAN
         /\ lmLate' = {} \/ UNCHANGED <<lmOpen, lmLate>>
<1>1. /\ lmFailed \in 0 .. LmFailures /\ lmOpen \in -1 .. LmCooldown /\ lmProbing \in BOOLEAN
      /\ LmFailures \in Nat \ {0} /\ LmCooldown \in Nat \ {0}
  BY Consts DEF Typed
<1>2. lmFailed' \in 0 .. LmFailures
  BY <1>1 DEF lmRecord, smaller
<1>3. lmOpen' \in -1 .. LmCooldown
  BY <1>1 DEF lmRecord
<1>4. lmProbing' \in BOOLEAN
  BY <1>1 DEF lmRecord
<1>5. lmLate' = {} \/ UNCHANGED <<lmOpen, lmLate>>
  BY DEF lmRecord
<1>. QED BY <1>2, <1>3, <1>4, <1>5

\* An answer that is worth another attempt is slept on; any other ends the call.
LEMMA AnswerKeeps ==
  ASSUME LmInv, NoShortWrap, NEW c \in LmCallers, NEW a \in Answers, NEW named \in LmNamed,
         NEW spent \in LmSpent, LmAnswer(c, a, named, spent)
  PROVE  LmInv'
<1>1. Typed /\ Patient /\ TurnsApart /\ RoomForAll /\ LateIsOut
  BY DEF LmInv
<1>2. /\ lmCall \in [LmCallers -> Calls] /\ lmCall[c].at = "out" /\ lmUntil \in Nat /\ spent \in Nat
      /\ named \in Nat /\ lmRoom \in Int /\ LmMaxRetries \in Nat /\ lmLate \subseteq LmCallers
  BY <1>1, Consts DEF LmAnswer, Typed
<1>3. lmUntil' \in Nat /\ UNCHANGED <<lmTokens, lmRoom>>
  BY <1>2 DEF LmAnswer, larger
<1>4. CASE verdict(c, a)
  <2>1. PICK d \in backoff(lmCall[c].try, named) :
          lmCall' = [lmCall EXCEPT ![c] = [@ EXCEPT !.at = "sleep", !.left = d, !.owed = smaller(named, LmMaxBackoff)]]
    BY <1>4 DEF LmAnswer
  <2>2. UNCHANGED <<lmFailed, lmProbing, lmOpen, lmLate>>
    BY <1>4 DEF LmAnswer
  <2>3. lmCall[c] \in Calls /\ lmCall[c].try \in 0 .. (LmMaxRetries - 1)
    BY <1>2, <1>4 DEF verdict, Calls
  <2>4. d \in Nat /\ smaller(named, LmMaxBackoff) \in Nat /\ smaller(named, LmMaxBackoff) <= d
    BY <1>2, <2>3, Waits
  <2>. DEFINE new == [lmCall[c] EXCEPT !.at = "sleep", !.left = d, !.owed = smaller(named, LmMaxBackoff)]
  <2>5. /\ new \in Calls /\ new.at = "sleep" /\ new.owed <= new.left
        /\ new.try = lmCall[c].try /\ new.safe = lmCall[c].safe /\ new.safe /\ new.try < LmMaxRetries
    BY <1>4, <2>3, <2>4 DEF Calls, verdict
  <2>6. lmCall' = [lmCall EXCEPT ![c] = new]
    BY <2>1
  <2>. HIDE DEF new
  <2>7. /\ lmCall' \in [LmCallers -> Calls] /\ lmCall'[c] = new
        /\ \A e \in LmCallers : e # c => lmCall'[e] = lmCall[e]
    BY <1>2, <2>5, <2>6
  <2>8. Typed'
    <3>1. \A e \in LmCallers : lmCall'[e].try <= (IF lmCall'[e].safe THEN LmMaxRetries ELSE 0)
      BY <1>1, <2>5, <2>7 DEF Typed
    <3>. QED BY <1>1, <1>3, <2>2, <2>7, <3>1 DEF Typed
  <2>9. Patient'
    BY <1>1, <2>5, <2>7 DEF Patient
  <2>10. TurnsApart' /\ RoomForAll'
    BY <1>1, <1>2, <1>3, <2>5, <2>7, LeavesQueue
  <2>11. LateIsOut'
    BY <1>1, <1>2, <2>2, <2>5, <2>7 DEF LateIsOut
  <2>. QED BY <2>8, <2>9, <2>10, <2>11 DEF LmInv
<1>5. CASE ~verdict(c, a)
  <2>1. lmCall' = [lmCall EXCEPT ![c] = lmIdle] /\ lmRecord(a)
    BY <1>5 DEF LmAnswer
  <2>2. /\ lmFailed' \in 0 .. LmFailures /\ lmOpen' \in -1 .. LmCooldown /\ lmProbing' \in BOOLEAN
        /\ lmLate' = {} \/ UNCHANGED <<lmOpen, lmLate>>
    BY <1>1, <2>1, Records
  <2>3. lmIdle \in Calls /\ lmIdle.try = 0 /\ lmIdle.owed = 0 /\ lmIdle.at = "idle"
    BY DEF Calls, lmIdle
  <2>4. /\ lmCall' \in [LmCallers -> Calls] /\ lmCall'[c] = lmIdle
        /\ \A e \in LmCallers : e # c => lmCall'[e] = lmCall[e]
    BY <1>2, <2>1, <2>3
  <2>5. Typed'
    <3>1. \A e \in LmCallers : lmCall'[e].try <= (IF lmCall'[e].safe THEN LmMaxRetries ELSE 0)
      BY <1>1, <1>2, <2>3, <2>4 DEF Typed
    <3>2. lmLate' \subseteq LmCallers
      BY <1>2, <2>2
    <3>. QED BY <1>1, <1>3, <2>2, <2>4, <3>1, <3>2 DEF Typed
  <2>6. Patient'
    BY <1>1, <2>3, <2>4 DEF Patient
  <2>7. TurnsApart' /\ RoomForAll'
    BY <1>1, <1>2, <1>3, <2>3, <2>4, LeavesQueue
  <2>8. LateIsOut'
    BY <1>1, <1>2, <2>2, <2>3, <2>4 DEF LateIsOut
  <2>. QED BY <2>5, <2>6, <2>7, <2>8 DEF LmInv
<1>. QED BY <1>4, <1>5

\* Everybody's waits grow shorter, and so does what they owe.
LEMMA TickKeeps ==
  ASSUME LmInv, LmTick
  PROVE  LmInv'
<1>1. Typed /\ Patient /\ TurnsApart /\ RoomForAll /\ LateIsOut
  BY DEF LmInv
<1>2. /\ lmTokens \in Int /\ lmTokens <= LmBurst /\ lmUntil \in Nat /\ lmOpen \in -1 .. LmCooldown
      /\ lmRoom \in Int /\ lmRoom <= LmBurst /\ LmBurst \in Nat \ {0} /\ LmCooldown \in Nat
      /\ lmCall \in [LmCallers -> Calls]
  BY <1>1, Consts DEF Typed
<1>. /\ lmTokens' = smaller(LmBurst, lmTokens + 1) /\ lmRoom' = smaller(LmBurst, lmRoom + 1)
      /\ lmUntil' = less(lmUntil)
      /\ lmOpen' = IF lmOpen > 0 THEN lmOpen - 1 ELSE lmOpen
  BY DEF LmTick
<1>3. /\ lmTokens' \in Int /\ lmTokens' <= LmBurst /\ lmRoom' \in Int /\ lmRoom' <= LmBurst
  BY <1>2 DEF smaller
<1>4. lmUntil' \in Nat
  BY <1>2 DEF less, larger
<1>5. lmOpen' \in -1 .. LmCooldown /\ (lmOpen' > 0 => lmOpen > 0)
  BY <1>2
<1>6. \A n \in Nat : less(n) \in Nat /\ \A m \in Nat : m <= n => less(m) <= less(n)
  BY DEF less, larger
<1>7. less(0) = 0
  BY DEF less, larger
<1>8. \A c \in LmCallers : lmCall[c] \in Calls
  BY <1>2
<1>. DEFINE new(c) == [lmCall[c] EXCEPT !.left = less(lmCall[c].left), !.owed = less(lmCall[c].owed)]
<1>9. ASSUME NEW c \in LmCallers
      PROVE  /\ new(c) \in Calls /\ new(c).at = lmCall[c].at /\ new(c).try = lmCall[c].try
             /\ new(c).safe = lmCall[c].safe
             /\ new(c).left = less(lmCall[c].left) /\ new(c).owed = less(lmCall[c].owed)
  <2>1. less(lmCall[c].left) \in Nat /\ less(lmCall[c].owed) \in Nat
    BY <1>6, <1>8 DEF Calls
  <2>. QED BY <1>8, <2>1 DEF Calls
<1>10. lmCall' = [c \in LmCallers |-> new(c)]
  BY DEF LmTick
<1>. HIDE DEF new
<1>11. lmCall' \in [LmCallers -> Calls] /\ \A c \in LmCallers : lmCall'[c] = new(c)
  BY <1>9, <1>10
<1>12. Typed'
  <2>1. \A c \in LmCallers : lmCall'[c].try <= (IF lmCall'[c].safe THEN LmMaxRetries ELSE 0)
    BY <1>1, <1>9, <1>11 DEF Typed
  <2>2. UNCHANGED <<lmFailed, lmProbing, lmLate>>
    BY DEF LmTick
  <2>. QED BY <1>1, <1>3, <1>4, <1>5, <1>11, <2>1, <2>2 DEF Typed
<1>13. Patient'
  <2>. SUFFICES ASSUME NEW c \in LmCallers
                PROVE  IF lmCall'[c].at = "sleep"
                       THEN lmCall'[c].owed <= lmCall'[c].left /\ lmCall'[c].safe /\ lmCall'[c].try < LmMaxRetries
                       ELSE lmCall'[c].owed = 0
    BY DEF Patient
  <2>1. /\ lmCall'[c].at = lmCall[c].at /\ lmCall'[c].try = lmCall[c].try /\ lmCall'[c].safe = lmCall[c].safe
        /\ lmCall'[c].left = less(lmCall[c].left) /\ lmCall'[c].owed = less(lmCall[c].owed)
    BY <1>9, <1>11
  <2>2. lmCall[c].left \in Nat /\ lmCall[c].owed \in Nat
    BY <1>8 DEF Calls
  <2>3. CASE lmCall[c].at = "sleep"
    BY <1>1, <1>6, <2>1, <2>2, <2>3 DEF Patient
  <2>4. CASE lmCall[c].at # "sleep"
    BY <1>1, <1>7, <2>1, <2>4 DEF Patient
  <2>. QED BY <2>3, <2>4
<1>14. TurnsApart' /\ RoomForAll'
  BY <1>1, TicksQueue
<1>15. LateIsOut'
  <2>1. lmLate' = lmLate /\ lmLate \subseteq LmCallers
    BY <1>1 DEF LmTick, Typed
  <2>. QED BY <1>1, <1>5, <1>9, <1>11, <2>1 DEF LateIsOut
<1>. QED BY <1>12, <1>13, <1>14, <1>15 DEF LmInv

LEMMA StepInv ==
  ASSUME NoShortWrap, LmInv, [LmNext]_lmVars
  PROVE  LmInv'
<1>1. CASE UNCHANGED lmVars
  <2>1. UNCHANGED <<lmTokens, lmUntil, lmFailed, lmProbing, lmOpen, lmCall, lmRoom, lmLate>>
    BY <1>1 DEF lmVars
  <2>2. Typed' /\ Patient' /\ LateIsOut'
    BY <2>1 DEF LmInv, Typed, Patient, LateIsOut
  <2>3. Queued' = Queued /\ \A t : Ripe(t)' = Ripe(t)
    BY <2>1 DEF Queued, Ripe
  <2>4. TurnsApart' /\ RoomForAll'
    BY <2>1, <2>3 DEF LmInv, TurnsApart, RoomForAll
  <2>. QED BY <2>2, <2>4 DEF LmInv
<1>2. CASE LmTick
  BY <1>2, TickKeeps
<1>3. ASSUME NEW c \in LmCallers, LmMoves(c) PROVE LmInv'
  <2>1. CASE LmSend(c)
    BY <2>1, SendKeeps
  <2>2. CASE LmRetry(c)
    BY <2>2, RetryKeeps
  <2>3. CASE \E a \in Answers, n \in LmNamed, s \in LmSpent : LmAnswer(c, a, n, s)
    BY <2>3, AnswerKeeps
  <2>. QED BY <1>3, <2>1, <2>2, <2>3 DEF LmMoves
<1>4. ASSUME NEW c \in LmCallers, LmCancel(c) PROVE LmInv'
  BY <1>4, Ends DEF LmCancel
<1>5. ASSUME NEW c \in LmCallers, NEW safe \in BOOLEAN, LmBegin(c, safe) PROVE LmInv'
  BY <1>5, BeginKeeps
<1>. QED BY <1>1, <1>2, <1>3, <1>4, <1>5 DEF LmNext

-----------------------------------------------------------------------------
(* The theorems.                                                           *)

\* Whatever the source answers, no request goes out before the time a refusal
\* named, none is retried without a wait or beyond the count, and a quota policed
\* with the same burst is never exceeded, counted over every request that no wall
\* held back (Limiter.reserve, transport.RoundTrip and backoff).
THEOREM LimitsAreHeld ==
  ASSUME NoShortWrap
  PROVE  LmSpec => []LimitsHold
<1>1. LmInv => LimitsHold
  <2>. SUFFICES ASSUME LmInv PROVE LimitsHold
    OBVIOUS
  <2>1. Typed /\ Patient /\ RoomForAll
    BY DEF LmInv
  <2>2. LmTypeOK
    BY <2>1 DEF Typed, LmTypeOK
  <2>3. RateHolds
    <3>1. 0 \in Nat /\ lmRoom \in Int /\ Cardinality(Ripe(0)) \in Nat
      BY <2>1, QueuedFinite DEF Typed
    <3>. QED BY <2>1, <3>1 DEF RoomForAll, RateHolds
  <2>4. NotBeforeNamed
    BY <2>1 DEF Patient, NotBeforeNamed
  <2>5. RetriesWait
    <3>. SUFFICES ASSUME NEW c \in LmCallers, NEW a \in Answers, verdict(c, a),
                         NEW n \in LmNamed, NEW d \in backoff(lmCall[c].try, n)
                  PROVE  d >= LmMinBackoff \div 2
      BY DEF RetriesWait
    <3>1. lmCall[c].try \in 0 .. (LmMaxRetries - 1) /\ n \in Nat
      BY <2>1, Consts DEF verdict, Typed, Calls
    <3>. QED BY <3>1, Waits
  <2>. QED BY <2>2, <2>3, <2>4, <2>5 DEF LimitsHold
<1>2. LmInv /\ [LmNext]_lmVars => LmInv'
  BY StepInv
<1>. QED BY <1>1, <1>2, InitInv, PTL DEF LmSpec

\* A source that is not answering is left alone while its circuit is open: each
\* caller sends at most the one request it had queued already (breaker.closed and
\* breaker.record).
THEOREM SourceIsLeftAlone ==
  ASSUME NoShortWrap
  PROVE  LmSpec => LeftAlone
<1>1. LmInv /\ [LmNext]_lmVars =>
        [\A c \in LmCallers : lmOpen > 0 /\ c \in lmLate => ~(lmCall[c].at = "wait" /\ lmCall'[c].at = "out")]_lmVars
  BY DEF LmInv, LateIsOut
<1>2. LmInv /\ [LmNext]_lmVars => LmInv'
  BY StepInv
<1>. QED BY <1>1, <1>2, InitInv, PTL DEF LmSpec, LeftAlone
=============================================================================
