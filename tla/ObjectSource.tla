---------------------------- MODULE ObjectSource ----------------------------
(***************************************************************************)
(* A bucket of object storage (connector/objectsource): a listing in key   *)
(* order, a cursor in the store's own seconds, and a policy that reads the *)
(* bucket's access control list once per sync.  The store is external: a   *)
(* write files an object under the current second, a page describes the    *)
(* objects as they are when it is asked for.                               *)
(*                                                                         *)
(* The content of an object is the number of its write, which is also its  *)
(* entity tag; a list is the number of its rewrite.  Runs of one source    *)
(* start in different seconds, as the supervisor's interval has it.        *)
(***************************************************************************)
EXTENDS Integers, FiniteSets, FiniteSetsExt

CONSTANTS
  OsKeys,       \* the keys of the bucket, numbered in their order
  OsWanted,     \* the keys that are no folder marker, not filtered out and not too large
  OsPage,       \* how many objects a page describes
  OsUnmapped,   \* the lists that grant to somebody no directory can name
  OsMaxTime, OsMaxWrites, OsMaxLists, OsMaxFaults  \* bounds on the environment

ASSUME OsAssumption == OsKeys \subseteq Nat \ {0} /\ OsWanted \subseteq OsKeys /\ OsPage \in Nat \ {0} /\ OsMaxLists \in Nat

VARIABLES
  osNow,      \* the store's clock, in seconds
  osObj,      \* the bucket: each key's tag and modification time, tag 0 for no object
  osAcl,      \* which access control list the bucket has
  osIdx,      \* the index: each key's content, the tag filed with it, its rule
  osCk,       \* the saved cursor
  osPol,      \* BucketPolicy
  osRun,      \* the sync under way
  osSpent,    \* writes and faults so far
  osEnded,    \* when the last run ended
  osBehind,   \* written where the unfinished listing had already been
  osSkipped,  \* could not be read and were reported
  osMissed,   \* not under the rule in force when the policy learnt of it too late
  osBound     \* the list in force when the last finished run that resolved it began

osVars == <<osNow, osObj, osAcl, osIdx, osCk, osPol, osRun, osSpent, osEnded, osBehind, osSkipped, osMissed, osBound>>

Unresolved == -1
Unseen == -1
\* object.version: the entity tag says which revision of an object this is.
version(o) == o.tag

osPoint(since, perms, after) == [since |-> since, perms |-> perms, after |-> after]
osZero == osPoint(0, 0, 0)
osNoRun == [on |-> FALSE]
osAbsent == [ver |-> 0, tag |-> 0, rule |-> Unresolved]
osNoPolicy == [loaded |-> FALSE, err |-> FALSE, rule |-> Unresolved, seen |-> Unseen, changed |-> 0]

OsInit ==
  /\ osNow = 2
  /\ osObj \in [OsKeys -> {[tag |-> 0, lm |-> 0], [tag |-> 1, lm |-> 1]}]
  /\ osAcl = 0
  /\ osIdx = [k \in OsKeys |-> osAbsent]
  /\ osCk = osZero /\ osPol = osNoPolicy /\ osRun = osNoRun
  /\ osSpent = [writes |-> 1, faults |-> 0]
  /\ osEnded = 0 /\ osBound = 0
  /\ osBehind = {} /\ osSkipped = {} /\ osMissed = {}

osKeepsStore == UNCHANGED <<osNow, osObj, osAcl>>
osKeepsSource == UNCHANGED <<osIdx, osCk, osPol, osRun, osEnded, osSkipped, osMissed, osBound>>

\* How far along the keys the unfinished listing is: 0 when the last run finished.
osReached == IF osRun.on THEN (IF osRun.more THEN osRun.pos ELSE 0) ELSE osCk.after

-----------------------------------------------------------------------------
\* The store, which is external.
OsWrite(k, gone) ==
  /\ osSpent.writes < OsMaxWrites
  /\ gone => osObj[k].tag # 0
  /\ osObj' = [osObj EXCEPT ![k] = IF gone THEN [tag |-> 0, lm |-> 0]
                                   ELSE [tag |-> osSpent.writes + 1, lm |-> osNow]]
  /\ osSpent' = [osSpent EXCEPT !.writes = @ + 1]
  /\ osBehind' = IF k <= osReached /\ ~gone THEN osBehind \union {k} ELSE osBehind \ {k}
  /\ osKeepsSource /\ UNCHANGED <<osNow, osAcl>>

OsRewriteList ==
  /\ osAcl < OsMaxLists /\ osAcl' = osAcl + 1
  /\ osKeepsSource /\ UNCHANGED <<osNow, osObj, osSpent, osBehind>>

OsTick ==
  /\ osNow < OsMaxTime /\ osNow' = osNow + 1
  /\ osKeepsSource /\ UNCHANGED <<osObj, osAcl, osSpent, osBehind>>

-----------------------------------------------------------------------------
\* BucketPolicy.load: the list is read at most once per sync.  A list that
\* differs from the one remembered moves changed, whether or not it maps.
load(p, fails) ==
  IF p.loaded THEN p
  ELSE IF fails THEN [p EXCEPT !.loaded = TRUE, !.err = TRUE, !.rule = Unresolved]
  ELSE [loaded |-> TRUE, err |-> osAcl \in OsUnmapped,
        rule |-> IF osAcl \in OsUnmapped THEN Unresolved ELSE osAcl,
        seen |-> osAcl,
        changed |-> IF p.seen \notin {Unseen, osAcl} THEN osNow ELSE p.changed]

\* Reload: the list is forgotten, when it changed is not.
Reload(p) == [p EXCEPT !.loaded = FALSE]

\* What a new process cannot tell: its first list is no change, and the
\* documents indexed under another one are not looked at.
missedBy(p, q) == {k \in OsKeys : p.seen = Unseen /\ ~q.err /\ osIdx[k].ver # 0 /\ osIdx[k].rule # q.rule}

-----------------------------------------------------------------------------
\* Sync begins: the cursor is parsed and the policy is told.  Assumed: a later
\* second than the last run ended in, which an interval gives and a sync that is
\* asked for (SyncNow) need not.
OsSync ==
  /\ ~osRun.on /\ osNow > osEnded
  /\ osRun' = [on |-> TRUE, start |-> osCk, pos |-> osCk.after, page |-> {}, more |-> TRUE, acl |-> osAcl,
               high |-> osCk.since, latest |-> osCk.perms, clock |-> 0]
  /\ osPol' = Reload(osPol)
  \* whatever is listed again is no longer behind
  /\ LET again(k) == osObj[k].lm > osCk.since /\ k > osCk.after
     IN osBehind' = {k \in osBehind : ~again(k)} /\ osSkipped' = {k \in osSkipped : ~again(k)}
  /\ osKeepsStore /\ UNCHANGED <<osIdx, osCk, osSpent, osEnded, osMissed, osBound>>

\* list: one page of what is there now, in key order past the last key, and
\* the store's clock.
onePage(keys, rest) ==
  /\ \A k \in keys, l \in rest \ keys : k < l
  /\ (keys = rest /\ Cardinality(keys) <= OsPage) \/ Cardinality(keys) = OsPage
listed(k) == [key |-> k, lm |-> osObj[k].lm, tag |-> version(osObj[k])]

OsList ==
  /\ osRun.on /\ osRun.page = {} /\ osRun.more
  /\ LET rest == {k \in OsKeys : k > osRun.pos /\ osObj[k].tag # 0}
     IN \E keys \in SUBSET rest, last \in rest \union {osRun.pos} :
          /\ onePage(keys, rest)
          /\ last \in keys \/ (keys = {} /\ last = osRun.pos)
          /\ \A k \in keys : k <= last
          /\ osRun' = [osRun EXCEPT !.page = {listed(k) : k \in keys}, !.pos = last,
                                    !.more = keys # rest, !.clock = osNow]
  /\ osKeepsStore
  /\ UNCHANGED <<osIdx, osCk, osPol, osSpent, osEnded, osBehind, osSkipped, osMissed, osBound>>

\* resume: the cursor one change carries holds its key, and the marks of the
\* run that is still going.
osResume(start, o) == osPoint(start.since, start.perms, o.key)

osSaves(cursor) == osCk' \in {osCk, cursor}

\* One object of the page.  The policy may fail the first time it is asked.
\* Sync, refresh: an object no newer than the cursor gets the rule again when
\* the rule has moved, and nothing of it is read.
osRefreshes(o, p) ==
  /\ IF ~p.err /\ p.changed > osRun.start.perms
     THEN /\ osIdx' = IF osIdx[o.key].ver = 0 THEN osIdx ELSE [osIdx EXCEPT ![o.key].rule = p.rule]
          /\ osSaves(osResume(osRun.start, o))
          /\ osMissed' = (osMissed \union missedBy(osPol, p)) \ {o.key}
     ELSE osMissed' = osMissed \union missedBy(osPol, p) /\ UNCHANGED <<osIdx, osCk>>
  /\ UNCHANGED <<osBehind, osSkipped>>

\* Sync, read, document: a newer one is fetched and filed under the listing's
\* tag; one that cannot be read is reported and the run goes on.
osReads(o, p, fails) ==
  IF fails \/ osObj[o.key].tag = 0
  THEN /\ osSkipped' = osSkipped \union {o.key}
       /\ osMissed' = osMissed \union missedBy(osPol, p)
       /\ UNCHANGED <<osIdx, osCk, osBehind>>
  ELSE /\ osIdx' = [osIdx EXCEPT ![o.key] = [ver |-> osObj[o.key].tag, tag |-> version(o), rule |-> p.rule]]
       /\ osSaves(osResume(osRun.start, o))
       /\ osMissed' = (osMissed \union missedBy(osPol, p)) \ {o.key}
       /\ osBehind' = osBehind \ {o.key} /\ osSkipped' = osSkipped \ {o.key}

\* Sync: the next object of the page, in key order.
OsObject(listFails, readFails) ==
  /\ osRun.on /\ (listFails => ~osPol.loaded)
  /\ \E o \in osRun.page :
       LET p == load(osPol, listFails)
           old == osRun.start.since # 0 /\ o.lm <= osRun.start.since
           on == [osRun EXCEPT !.page = @ \ {o}]
       IN /\ \A later \in osRun.page : o.key <= later.key
          /\ IF o.key \notin OsWanted
             THEN /\ ~listFails /\ ~readFails
                  /\ osRun' = on /\ UNCHANGED <<osIdx, osCk, osPol, osSpent, osBehind, osSkipped, osMissed>>
             ELSE /\ old => ~readFails
                  /\ IF old THEN osRefreshes(o, p) ELSE osReads(o, p, readFails)
                  /\ osPol' = p
                  /\ osRun' = [on EXCEPT !.high = Max({@, o.lm}), !.latest = IF p.err THEN @ ELSE Max({@, p.changed})]
                  /\ LET n == (IF listFails THEN 1 ELSE 0) + (IF readFails THEN 1 ELSE 0)
                     IN osSpent.faults + n <= OsMaxFaults /\ osSpent' = [osSpent EXCEPT !.faults = @ + n]
  /\ osKeepsStore /\ UNCHANGED <<osEnded, osBound>>

\* What was written behind the last page of a run that leaves the cursor at a key.
osLeft(after) ==
  {k \in OsWanted : /\ osRun.on /\ ~osRun.more /\ k <= after
                    /\ osObj[k].tag # 0 /\ osObj[k].lm >= osRun.clock /\ osIdx[k].ver # osObj[k].tag}

\* Sync returns: the cursor is held a second behind the store's clock.
heldBack(r) == Min({r.high, r.clock - 1})

OsFinish ==
  /\ osRun.on /\ osRun.page = {} /\ ~osRun.more
  /\ LET since == heldBack(osRun)
     IN osCk' = IF since = 0 /\ osRun.latest = 0 THEN osRun.start ELSE osPoint(since, osRun.latest, 0)
  /\ osRun' = osNoRun /\ osEnded' = osNow
  /\ osBound' = IF osPol.loaded /\ ~osPol.err THEN osRun.acl ELSE osBound
  \* a run that saw nothing returns the cursor it was given, key and all
  /\ osBehind' = osBehind \union osLeft(osCk'.after)
  \* and one that resumed did not come past the keys before its own
  /\ osMissed' = osMissed \union {k \in OsKeys : k <= osRun.start.after /\ osIdx[k].rule # osPol.rule}
  /\ osKeepsStore /\ UNCHANGED <<osIdx, osPol, osSpent, osSkipped>>

\* The run is cancelled or a page fails: it returns no cursor.
OsFail ==
  /\ osRun.on /\ osSpent.faults < OsMaxFaults
  /\ osRun' = osNoRun /\ osEnded' = osNow
  /\ osSpent' = [osSpent EXCEPT !.faults = @ + 1]
  /\ osKeepsStore /\ osBehind' = osBehind \union osLeft(osCk.after)
  /\ UNCHANGED <<osIdx, osCk, osPol, osSkipped, osMissed, osBound>>

\* The process ends and another one starts: the policy is new.
OsRestart ==
  /\ osPol # osNoPolicy /\ osSpent.faults < OsMaxFaults
  /\ osRun' = osNoRun /\ osPol' = osNoPolicy
  /\ osEnded' = IF osRun.on THEN osNow ELSE osEnded
  /\ osSpent' = [osSpent EXCEPT !.faults = @ + 1]
  /\ osKeepsStore /\ osBehind' = osBehind \union osLeft(osCk.after)
  /\ UNCHANGED <<osIdx, osCk, osSkipped, osMissed, osBound>>

-----------------------------------------------------------------------------
\* apiError.gone: only the store's word for a missing key deletes a document.
\* Mutant of gone: every answer that something was not found does.
goneWhenNotFound(answer) == answer \in {"NoSuchKey", "NoSuchBucket"}
gone(answer) == answer = "NoSuchKey"

\* Fetch, asked by the sweep for an object whose tag differs from the index's:
\* read it and file it, drop it when it is gone, leave it when the store fails.
\* The policy answers from what the last sync resolved.
OsFetch(k, answer) ==
  /\ ~osRun.on /\ k \in OsWanted /\ osIdx[k].tag # version(osObj[k])
  /\ answer = "ok" => osObj[k].tag # 0
  /\ answer = "NoSuchKey" => osObj[k].tag = 0
  /\ answer = "NoSuchBucket" => osSpent.faults < OsMaxFaults
  /\ osSpent' = [osSpent EXCEPT !.faults = @ + (IF answer = "NoSuchBucket" THEN 1 ELSE 0)]
  /\ CASE answer = "ok" ->
            LET p == load(osPol, FALSE)
            IN /\ osIdx' = [osIdx EXCEPT ![k] = [ver |-> osObj[k].tag, tag |-> version(osObj[k]), rule |-> p.rule]]
               /\ osPol' = p
               /\ osMissed' = (osMissed \union missedBy(osPol, p)) \ {k}
               /\ osBehind' = osBehind \ {k} /\ osSkipped' = osSkipped \ {k}
       [] gone(answer) ->
            /\ osIdx' = [osIdx EXCEPT ![k] = osAbsent] /\ osMissed' = osMissed \ {k}
            /\ UNCHANGED <<osPol, osBehind, osSkipped>>
       [] OTHER -> UNCHANGED <<osIdx, osPol, osMissed, osBehind, osSkipped>>
  /\ osKeepsStore /\ UNCHANGED <<osCk, osRun, osEnded, osBound>>

OsNext ==
  \/ \E k \in OsKeys, b \in BOOLEAN : OsWrite(k, b)
  \/ \E k \in OsKeys, a \in {"ok", "NoSuchKey", "NoSuchBucket"} : OsFetch(k, a)
  \/ \E b, c \in BOOLEAN : OsObject(b, c)
  \/ OsRewriteList \/ OsTick \/ OsSync \/ OsList \/ OsFinish \/ OsFail \/ OsRestart

OsSpec == OsInit /\ [][OsNext]_osVars

-----------------------------------------------------------------------------
osSettled == ~osRun.on /\ osCk.after = 0

\* Type invariant: the cursor is always behind the store's clock, and an
\* interrupted one names a key of the bucket's.
OsTypeOK ==
  /\ osCk.since < osNow /\ osCk.perms <= osNow /\ osCk.after \in OsKeys \union {0}
  /\ osPol.changed <= osNow /\ osBound \in 0 .. OsMaxLists

\* When a run has finished, every object the index does not have as it is lies
\* ahead of the cursor, where the next run reads it: all but those written
\* where the listing had already been, and those that could not be read and
\* were reported (Sync, resume).
AheadOfCursor ==
  osSettled => \A k \in OsWanted \ (osBehind \union osSkipped) :
    osObj[k].tag # 0 /\ osIdx[k].ver # osObj[k].tag => osObj[k].lm > osCk.since

\* Content filed under the tag the store has is the content the store has, so
\* the sweep, which compares tags alone, repairs whatever is not (merge).
TagNeverAhead == \A k \in OsWanted : osObj[k].tag # 0 /\ osIdx[k].tag = version(osObj[k]) => osIdx[k].ver = osObj[k].tag

\* When a run has finished, no document is served under a list that had been
\* replaced before the run that last resolved one began, unless its object lies
\* ahead of the cursor and is read again.  Left out are the documents a change of
\* the list does not reach: those a new process finds under an older list, for it
\* takes the first one it reads for no change, and those before the key a run
\* resumed at (osMissed); those whose object could not be read and was reported
\* (osSkipped) or was written where the listing had already been (osBehind).  So
\* this is about one process whose runs finish (refresh, BucketPolicy.load).
ListApplied ==
  osSettled => \A k \in OsWanted \ (osMissed \union osSkipped \union osBehind) :
    osIdx[k].ver # 0 /\ osObj[k].tag # 0 /\ osObj[k].lm <= osCk.since =>
      osIdx[k].rule = Unresolved \/ osIdx[k].rule >= osBound

\* The same without leaving out what a change did not reach: "the change is applied
\* on the first sync after it was made" (BucketPolicy.ChangedAt).
ChangeAlwaysApplied ==
  osSettled => \A k \in OsWanted \ (osSkipped \union osBehind) :
    osIdx[k].ver # 0 /\ osObj[k].tag # 0 /\ osObj[k].lm <= osCk.since =>
      osIdx[k].rule = Unresolved \/ osIdx[k].rule >= osBound

\* A document is dropped only when its object is gone, whatever the store
\* answers (apiError.gone).
DropsOnlyGone ==
  [][\A k \in OsKeys : osIdx[k].ver # 0 /\ osIdx'[k].ver = 0 => osObj[k].tag = 0]_osVars

\* When a run has finished and the bucket's list did not resolve in it, no
\* document is still served under the list before it, with the same left out as in
\* ListApplied.  refresh says of a rule
\* that stopped resolving that "quarantining is the only safe reading".
UnresolvedQuarantines ==
  osSettled /\ osCk # osZero /\ osPol.loaded /\ osPol.seen \in OsUnmapped =>
    \A k \in OsWanted \ (osMissed \union osSkipped \union osBehind) :
      osIdx[k].ver # 0 /\ osObj[k].tag # 0 /\ osObj[k].lm <= osCk.since => osIdx[k].rule = Unresolved

=============================================================================
