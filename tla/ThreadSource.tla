---------------------------- MODULE ThreadSource ----------------------------
(***************************************************************************)
(* The crawl chat, ticket trackers and wikis share                         *)
(* (connector/threadsource/threadsource.go): containers walked in a fixed  *)
(* order, a cursor that carries how far an interrupted run got, and a      *)
(* permission refresh that reads nothing.  The product behind it keeps the *)
(* contract of Service: Threads hands over what changed at or after a      *)
(* time, oldest change first, and List is complete or fails.               *)
(*                                                                         *)
(* A container's rule is reported to have changed at the start of the      *)
(* current refresh interval, which is what all three adapters do.  Times   *)
(* are the product's timestamps; one conversation never changes twice in   *)
(* the same instant, while two conversations may.                          *)
(***************************************************************************)
EXTENDS Integers, FiniteSets

CONSTANTS
  TsConts,      \* the containers, 1 .. TsConts, numbered in the order of their ids
  TsConvs,      \* the conversations, numbered in the order of their ids
  TsHome,       \* the container each conversation is in
  TsOwn,        \* the conversations that carry a rule of their own
  TsEvery,      \* the refresh interval
  TsMaxTime,    \* bound on the clock
  TsMaxEdits,   \* bound on the changes to conversations
  TsMaxRewrites,\* bound on the changes to rules
  TsMaxFails    \* bound on the runs that do not finish

ASSUME TsAssumption ==
  /\ TsConts \in Nat \ {0} /\ TsConvs \subseteq Nat \ {0} /\ TsEvery \in Nat \ {0}
  /\ TsHome \in [TsConvs -> 1 .. TsConts] /\ TsOwn \subseteq TsConvs

VARIABLES
  tsNow, tsConv,   \* the clock; when each conversation last changed, 0 before it exists
  tsRule, tsThen,  \* the version of each container's rule, now and at the start of the interval
  tsIdx,           \* what the index holds of each conversation: its change and its rule
  tsCk,            \* the saved cursor
  tsRun,           \* the run under way
  tsSpent,         \* edits, rewrites and failed runs so far
  tsRaced,         \* changed where the unfinished crawl had already been
  tsFresh,         \* changed since the last run that finished
  tsBound,         \* the rules in force when the interval of the last finished run began
  tsPassed,        \* containers whose refresh was due and that a resuming run skipped
  tsMisfiled       \* a refresh left its container's name beside another container's progress

tsVars == <<tsNow, tsConv, tsRule, tsThen, tsIdx, tsCk, tsRun, tsSpent, tsRaced, tsFresh, tsBound, tsPassed, tsMisfiled>>

\* The rule of a conversation that has one of its own, in the index.
OwnRule == -1

\* syncPoint: cont is 0 unless the run it was written by did not finish.
syncPoint(since, edge, perms, cont, at) ==
  [since |-> since, edge |-> edge, perms |-> perms, cont |-> cont, at |-> at]
ZeroPoint == syncPoint(0, {}, 0, 0, 0)
tsNoRun == [on |-> FALSE]

\* aclTick, tick: the start of the current refresh interval.
tick == (tsNow \div TsEvery) * TsEvery

\* The conversations a container holds.
held(c) == {x \in TsConvs : TsHome[x] = c /\ tsConv[x] > 0}

\* access: a conversation's own rule wins over its container's.
access(x, r) == IF x \in TsOwn THEN OwnRule ELSE r[TsHome[x]]

\* resume: the cursor a change carries keeps the finished run's point and
\* records the progress beside it.
resume(start, cont, at) == syncPoint(start.since, start.edge, start.perms, cont, at)

TsInit ==
  /\ tsNow = 1
  /\ tsConv \in [TsConvs -> {0, 1}]
  /\ tsRule = [c \in 1 .. TsConts |-> 0] /\ tsThen = tsRule /\ tsBound = tsRule
  /\ tsIdx = [x \in TsConvs |-> [at |-> 0, rule |-> 0]]
  /\ tsCk = ZeroPoint
  /\ tsRun = tsNoRun
  /\ tsSpent = [edits |-> 0, rewrites |-> 0, fails |-> 0]
  /\ tsRaced = {} /\ tsFresh = {} /\ tsPassed = {}
  /\ tsMisfiled = FALSE

tsKeepsSource == UNCHANGED <<tsNow, tsConv, tsRule, tsThen, tsFresh>>
tsKeepsCrawl == UNCHANGED <<tsIdx, tsCk, tsRun, tsBound, tsPassed, tsMisfiled>>

\* Where the unfinished crawl is: the container its run is in, or the one the
\* saved cursor names; 0 when the last run finished.
tsReached == IF tsRun.on THEN tsRun.c ELSE tsCk.cont

-----------------------------------------------------------------------------
\* The product: somebody writes, somebody rewrites a rule, time passes.
TsWrite(x) ==
  /\ tsSpent.edits < TsMaxEdits
  /\ tsConv[x] < tsNow
  /\ tsConv' = [tsConv EXCEPT ![x] = tsNow]
  /\ tsSpent' = [tsSpent EXCEPT !.edits = @ + 1]
  /\ tsFresh' = tsFresh \union {x}
  \* the crawl is past the container, or in it and past this place in the instant
  /\ tsRaced' = IF \/ TsHome[x] < tsReached
                   \/ tsRun.on /\ TsHome[x] = tsRun.c /\ tsRun.pos[1] = tsNow /\ x <= tsRun.pos[2]
                THEN tsRaced \union {x} ELSE tsRaced \ {x}
  /\ tsKeepsCrawl
  /\ UNCHANGED <<tsNow, tsRule, tsThen>>

TsRewrite(c) ==
  /\ tsSpent.rewrites < TsMaxRewrites
  /\ tsRule' = [tsRule EXCEPT ![c] = @ + 1]
  /\ tsSpent' = [tsSpent EXCEPT !.rewrites = @ + 1]
  /\ tsKeepsCrawl
  /\ UNCHANGED <<tsNow, tsConv, tsThen, tsFresh, tsRaced>>

TsTick ==
  /\ tsNow < TsMaxTime
  /\ tsNow' = tsNow + 1
  /\ tsThen' = IF (tsNow + 1) % TsEvery = 0 THEN tsRule ELSE tsThen
  /\ tsKeepsCrawl
  /\ UNCHANGED <<tsConv, tsRule, tsSpent, tsFresh, tsRaced>>

-----------------------------------------------------------------------------
\* Sync, entering a container: the ones the interrupted run finished are
\* skipped, a rule that moved is refreshed before the walk.
enters(r, c) ==
  [r EXCEPT !.c = c, !.pos = <<0, 0>>,
            !.since = IF c = r.start.cont /\ r.start.at > r.start.since THEN r.start.at ELSE r.start.since,
            !.left = IF ~r.full /\ r.tick > r.start.perms THEN held(c) ELSE {}]

\* Sync begins: the cursor is parsed, the containers and their rules are listed
\* once and sorted, and those before the cursor's container are passed over.
first(start) == IF start.cont = 0 THEN 1 ELSE start.cont

TsSync ==
  /\ ~tsRun.on
  /\ LET r == [on |-> TRUE, start |-> tsCk, full |-> tsCk = ZeroPoint, rules |-> tsRule, tick |-> tick,
               bound |-> tsThen, c |-> first(tsCk), since |-> 0, pos |-> <<0, 0>>, left |-> {},
               high |-> tsCk.since, edge |-> tsCk.edge]
     IN tsRun' = enters(r, first(tsCk))
  /\ tsKeepsSource
  /\ UNCHANGED <<tsIdx, tsCk, tsSpent, tsRaced, tsBound, tsPassed, tsMisfiled>>

\* What ingestion does with a change: it is applied, and its cursor is saved
\* with it or with a later one.
saves(cursor) == tsCk' \in {tsCk, cursor}

\* refresh: one conversation of a rewritten container gets the rule again,
\* and nothing of it is read.  The index has no row to change for one it
\* never held.
TsRefresh(x) ==
  /\ tsRun.on /\ x \in tsRun.left
  /\ tsIdx' = IF tsIdx[x].at = 0 THEN tsIdx ELSE [tsIdx EXCEPT ![x].rule = access(x, tsRun.rules)]
  /\ saves(resume(tsRun.start, tsRun.c, tsRun.start.at))
  /\ tsRun' = [tsRun EXCEPT !.left = @ \ {x}]
  \* the container is caught up on when the last of it is
  /\ tsPassed' = IF tsRun.left = {x} THEN tsPassed \ {tsRun.c} ELSE tsPassed
  /\ tsMisfiled' = (tsMisfiled \/ (tsRun.start.at > tsRun.start.since /\ tsRun.c # tsRun.start.cont))
  /\ tsKeepsSource
  /\ UNCHANGED <<tsSpent, tsRaced, tsBound>>

\* Threads: what is still to be handed over, and which of it comes next.
walk == {x \in held(tsRun.c) : /\ tsConv[x] >= tsRun.since
                               /\ \/ tsConv[x] > tsRun.pos[1]
                                  \/ tsConv[x] = tsRun.pos[1] /\ x > tsRun.pos[2]}
next == CHOOSE x \in walk : \A y \in walk : tsConv[x] < tsConv[y] \/ (tsConv[x] = tsConv[y] /\ x <= y)

\* wanted: not what was already emitted at the instant the cursor sits on.
\* Mutant of wanted: what changed at the instant of the cursor is dropped.
wantedAfter(x, start) == tsConv[x] # start.since
wanted(x, start) == ~(tsConv[x] = start.since /\ x \in start.edge)

\* The mark the run will leave: the newest instant, and who was seen at it.
marked(r, x) ==
  CASE tsConv[x] > r.high -> [r EXCEPT !.high = tsConv[x], !.edge = {x}]
    [] tsConv[x] = r.high -> [r EXCEPT !.edge = @ \union {x}]
    [] OTHER -> r

\* One conversation more of the container, the oldest change first, as Service
\* asks of a product; Slack's does not keep to it, and Slack models its paging.
TsWalk ==
  /\ tsRun.on /\ tsRun.left = {} /\ walk # {}
  /\ LET x == next
         on == [tsRun EXCEPT !.pos = <<tsConv[x], x>>]
     IN IF wanted(x, tsRun.start)
        THEN /\ tsIdx' = [tsIdx EXCEPT ![x] = [at |-> tsConv[x], rule |-> access(x, tsRun.rules)]]
             /\ saves(resume(tsRun.start, tsRun.c, tsConv[x]))
             /\ tsRun' = marked(on, x)
             /\ tsRaced' = tsRaced \ {x}
        ELSE tsRun' = on /\ UNCHANGED <<tsIdx, tsCk, tsRaced>>
  /\ tsKeepsSource
  /\ UNCHANGED <<tsSpent, tsBound, tsPassed, tsMisfiled>>

\* The container is walked; the next one is entered.
TsNextContainer ==
  /\ tsRun.on /\ tsRun.left = {} /\ walk = {} /\ tsRun.c < TsConts
  /\ tsRun' = enters(tsRun, tsRun.c + 1)
  /\ tsKeepsSource
  /\ UNCHANGED <<tsIdx, tsCk, tsSpent, tsRaced, tsBound, tsPassed, tsMisfiled>>

\* Sync returns the cursor of a finished run.  A run that never saw a change
\* or a rule returns the one it was given.
TsFinish ==
  /\ tsRun.on /\ tsRun.left = {} /\ walk = {} /\ tsRun.c = TsConts
  /\ LET latest == IF tsRun.tick > tsRun.start.perms THEN tsRun.tick ELSE tsRun.start.perms
     IN tsCk' = IF tsRun.high = 0 /\ latest = 0 THEN tsRun.start
                ELSE syncPoint(tsRun.high, tsRun.edge, latest, 0, 0)
  /\ tsRun' = tsNoRun
  /\ tsFresh' = {}
  /\ tsBound' = tsRun.bound
  /\ tsPassed' = tsPassed \union
       (IF tsRun.tick > tsRun.start.perms THEN 1 .. (tsRun.start.cont - 1) ELSE {})
  /\ UNCHANGED <<tsNow, tsConv, tsRule, tsThen, tsIdx, tsSpent, tsRaced, tsMisfiled>>

\* The context ends, the service or the pipeline fails, the process dies: the
\* run returns no cursor and the last saved one stands.
TsFail ==
  /\ tsRun.on /\ tsSpent.fails < TsMaxFails
  /\ tsRun' = tsNoRun
  /\ tsSpent' = [tsSpent EXCEPT !.fails = @ + 1]
  \* what the run had walked past and saved nothing about is walked again,
  \* so only what lies behind the saved cursor stays behind
  /\ tsKeepsSource
  /\ UNCHANGED <<tsIdx, tsCk, tsRaced, tsBound, tsPassed, tsMisfiled>>

\* Fetch: the sweep repairs one conversation, its rule resolved from the
\* containers as they are now.
TsFetch(x) ==
  /\ ~tsRun.on /\ tsConv[x] > 0 /\ tsIdx[x].at # tsConv[x]
  /\ tsIdx' = [tsIdx EXCEPT ![x] = [at |-> tsConv[x], rule |-> access(x, tsRule)]]
  /\ tsRaced' = tsRaced \ {x}
  /\ tsKeepsSource
  /\ UNCHANGED <<tsCk, tsRun, tsSpent, tsBound, tsPassed, tsMisfiled>>

TsNext ==
  \/ \E x \in TsConvs : TsWrite(x) \/ TsRefresh(x) \/ TsFetch(x)
  \/ \E c \in 1 .. TsConts : TsRewrite(c)
  \/ TsTick \/ TsSync \/ TsWalk \/ TsNextContainer \/ TsFinish \/ TsFail

TsSpec == TsInit /\ [][TsNext]_tsVars

-----------------------------------------------------------------------------
\* The crawl has no run and no unfinished business.
tsSettled == ~tsRun.on /\ tsCk.cont = 0 /\ tsCk # ZeroPoint

\* Type invariant: the cursor never runs ahead of the clock, its edge is never
\* empty of what its instant was taken from, and a conversation is indexed at a
\* change it really had.
TsTypeOK ==
  /\ tsCk.since <= tsNow /\ tsCk.at <= tsNow /\ tsCk.perms <= tsNow /\ tsCk.cont \in 0 .. TsConts
  /\ (tsCk.since > 0 => tsCk.edge # {}) /\ tsCk.edge \subseteq TsConvs
  /\ \A x \in TsConvs : tsIdx[x].at <= tsConv[x]

\* When a run has finished, every conversation that changed before it did is in
\* the index as it now is, however many runs were cut short on the way: all
\* but those that changed where the crawl had already been, which are left to
\* the sweep (Sync, resume).
NothingLost ==
  tsSettled => \A x \in TsConvs \ (tsFresh \union tsRaced) : tsIdx[x].at = tsConv[x] \/ tsMisfiled

\* The same without the exception for a resumed refresh.  resume promises that
\* a cursor never skips "everything in them that changed in between".
ResumeSkipsNothing ==
  tsSettled => \A x \in TsConvs \ (tsFresh \union tsRaced) : tsIdx[x].at = tsConv[x]

\* A conversation restricted out of its container is never given the
\* container's rule, by a refresh or by anything else (refresh, access).
OwnRuleKept == \A x \in TsOwn : tsIdx[x].at > 0 => tsIdx[x].rule = OwnRule

\* When a run has finished, no conversation is indexed under a rule that had
\* been replaced before the refresh interval the run started in: a revocation
\* is never older than the interval.  Left out are the containers a resuming run
\* began behind while their refresh was due (tsPassed): it records the refresh as
\* done, so they wait another interval, and may again, although "it bounds how
\* long a removed member keeps seeing" them (DefaultACLRefresh; Sync, refresh).
RevocationBounded ==
  tsSettled => \A x \in TsConvs \ TsOwn :
    tsIdx[x].at > 0 /\ TsHome[x] \notin tsPassed => tsIdx[x].rule >= tsBound[TsHome[x]]

=============================================================================
