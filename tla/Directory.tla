----------------------------- MODULE Directory -----------------------------
(* Who is in which group: the directories (directory/static.go stands for   *)
(* every provider), the walk that expands a subject over one of them        *)
(* (expand.go), the union of several (multi.go) and the cache over the      *)
(* union (cached.go).  A directory changes while it is being walked, a      *)
(* lookup can fail, and the request that leads an expansion can go away.    *)
EXTENDS Cache, FiniteSets, Functions

CONSTANTS
  Dirs,             \* the names of the directories in the union, in order
  DirIds, DirGroups, \* subjects and groups, by id
  DirFiles,         \* the files each directory may be read from
  MaxGroups, DirTTL, DirCap, DirCallers,
  MaxEdits, DirMaxTime, MaxForgets
ASSUME DirAssumption ==
  /\ MaxGroups \in Nat \ {0} /\ DirTTL \in Nat \ {0} /\ DirCap \in Nat \ {0}
  /\ IsInjective(Dirs) /\ \A d \in ToSet(Dirs) : d # ""

VARIABLES
  dirHeld,   \* what each directory holds
  dirWalk,   \* the expansion in flight for each subject, or None
  dirShard,  \* the cached expansions, most recently used first
  dirCall,   \* what each caller is doing
  dirNow, dirEdits, dirForgets
dirVars == <<dirHeld, dirWalk, dirShard, dirCall, dirNow, dirEdits, dirForgets>>

DirNames == ToSet(Dirs)
NoGroups == [g \in {} |-> None]
dirIdle == [at |-> "idle"]

\* A directory is a map of subjects and a map of groups; None is an id it does
\* not hold.
DirPossible(h) ==
  /\ \A i \in DirIds : h.subjects[i] # None => h.subjects[i].memberOf \subseteq DirGroups
  /\ \A g \in DirGroups : h.groups[g] # None => h.groups[g].memberOf \subseteq DirGroups

\* file.go: a directory written down is refused whole for a missing or a
\* repeated id, a membership of a group it does not define, or an identity
\* that is not source:value.
ReadStatic(f) ==
  LET ids(seq) == [n \in DOMAIN seq |-> seq[n].id]
      ok(seq) == IsInjective(ids(seq)) /\ "" \notin ToSet(ids(seq))
      defined == ToSet(ids(f.groups))
      find(seq, id) == LET at == {n \in DOMAIN seq : seq[n].id = id}
                       IN IF at = {} THEN None ELSE seq[CHOOSE n \in at : TRUE]
  IN IF /\ f.name # "" /\ ok(f.groups) /\ ok(f.subjects)
        /\ \A x \in ToSet(f.groups) \cup ToSet(f.subjects) : x.memberOf \subseteq defined
        /\ \A x \in ToSet(f.subjects) : \A ref \in x.identities : "" \notin {ref.source, ref.value}
     THEN [subjects |-> [i \in DirIds |-> find(f.subjects, i)],
           groups |-> [g \in DirGroups |-> find(f.groups, g)]]
     ELSE None
Readable(d) == {ReadStatic(f) : f \in DirFiles[d]} \ {None}

DirInit ==
  /\ dirHeld \in {h \in [DirNames -> UNION {Readable(d) : d \in DirNames}] :
                    \A d \in DirNames : h[d] \in Readable(d)}
  /\ dirWalk = [i \in DirIds |-> None]
  /\ dirShard = <<>>
  /\ dirCall = [c \in DirCallers |-> dirIdle]
  /\ dirNow = 0 /\ dirEdits = 0
  /\ dirForgets = [i \in DirIds |-> 0]

-----------------------------------------------------------------------------
(* static.go: the directory is written while it is read.  A walk remembers  *)
(* that its directory moved; the code does not.                              *)

dirMoved(d) ==
  [i \in DirIds |-> IF dirWalk[i] = None THEN None
                    ELSE [dirWalk[i] EXCEPT !.still = @ \ {d}]]
dirEdit(d, new) ==
  /\ dirEdits < MaxEdits /\ new # dirHeld[d]
  /\ dirEdits' = dirEdits + 1
  /\ dirHeld' = [dirHeld EXCEPT ![d] = new]
  /\ dirWalk' = dirMoved(d)
  /\ UNCHANGED <<dirShard, dirCall, dirNow, dirForgets>>

\* Deactivating somebody is a Put; deleting them is a Remove.
DirPut(d, i) ==
  /\ dirHeld[d].subjects[i] # None
  /\ dirEdit(d, [dirHeld[d] EXCEPT !.subjects[i].disabled = TRUE])
DirRemove(d, i) == dirEdit(d, [dirHeld[d] EXCEPT !.subjects[i] = None])
DirPutGroup(d, g, parents) ==
  /\ dirHeld[d].groups[g] # None
  /\ dirEdit(d, [dirHeld[d] EXCEPT !.groups[g].memberOf = parents])
\* Nothing rewrites the memberships that named the group.
DirRemoveGroup(d, g) == dirEdit(d, [dirHeld[d] EXCEPT !.groups[g] = None])
DirLoad(d, c) == dirEdit(d, c)

-----------------------------------------------------------------------------
(* expand.go: one directory's share of an expansion.                        *)

newPart == [at |-> "subject", sub |-> None, frontier |-> {}, got |-> NoGroups,
            seen |-> NoGroups, unknown |-> {}]
DirEnded == {"held", "missing", "failed", "disabled", "toomany", "canceled"}
dirEnds(part, how) == [part EXCEPT !.at = how, !.frontier = {}, !.got = NoGroups]

\* What follows once every group of a level has answered, or at once for a
\* subject in no group: refuse past the bound, stop at an empty frontier.
dirOnward(part, next) ==
  IF Cardinality(DOMAIN part.seen) > MaxGroups THEN dirEnds(part, "toomany")
  ELSE IF next = {} THEN dirEnds(part, "held")
  ELSE [part EXCEPT !.at = "level", !.frontier = next, !.got = NoGroups]

subjectAnswered(part, sub) ==
  IF sub = None THEN dirEnds(part, "missing")
  ELSE IF sub.disabled THEN dirEnds(part, "disabled")
  ELSE dirOnward([part EXCEPT !.sub = sub, !.seen = [g \in sub.memberOf |-> None]], sub.memberOf)

\* A level's answers.  A group scheduled is a group seen, so none is asked for
\* twice; a group the directory does not hold is kept, and its parents are
\* not walked.
levelAnswered(part) ==
  LET known == {g \in part.frontier : part.got[g] # None}
      up == UNION {part.got[g].memberOf : g \in known}
      next == up \ DOMAIN part.seen
      seen == [g \in DOMAIN part.seen \cup next |->
                 IF g \in known THEN part.got[g].version
                 ELSE IF g \in DOMAIN part.seen THEN part.seen[g] ELSE None]
  IN dirOnward([part EXCEPT !.seen = seen, !.unknown = @ \cup (part.frontier \ known)], next)

\* A walk's context ends with the request that leads it, and with the first
\* part of the union that fails.
dirCtxDone(w) == w.canceled \/ \E d \in DirNames : w.parts[d].at \in DirEnded \ {"held", "missing"}
dirStep(i, d, part) ==
  /\ dirWalk' = [dirWalk EXCEPT ![i].parts[d] = part]
  /\ UNCHANGED <<dirHeld, dirShard, dirCall, dirNow, dirEdits, dirForgets>>
dirWalking(i, d, at) == dirWalk[i] # None /\ dirWalk[i].parts[d].at = at

LookSubject(i, d) ==
  /\ dirWalking(i, d, "subject")
  /\ dirStep(i, d, subjectAnswered(dirWalk[i].parts[d], dirHeld[d].subjects[i]))
LookGroup(i, d, g) ==
  /\ dirWalking(i, d, "level")
  /\ LET part == dirWalk[i].parts[d]
         got == [part EXCEPT !.got = @ @@ (g :> dirHeld[d].groups[g])]
     IN /\ g \in part.frontier \ DOMAIN part.got
        /\ dirStep(i, d, IF DOMAIN got.got = part.frontier THEN levelAnswered(got) ELSE got)
\* Any other error of a lookup fails the walk: its other lookups are canceled,
\* waited for, and thrown away.
LookFails(i, d) ==
  /\ dirWalking(i, d, "subject") \/ dirWalking(i, d, "level")
  /\ dirStep(i, d, dirEnds(dirWalk[i].parts[d], "failed"))
\* A context that is done stops a part, in the adapter or between two levels.
PartCanceled(i, d) ==
  /\ dirWalking(i, d, "subject") \/ dirWalking(i, d, "level")
  /\ dirCtxDone(dirWalk[i])
  /\ dirStep(i, d, dirEnds(dirWalk[i].parts[d], "canceled"))

-----------------------------------------------------------------------------
(* multi.go: the union, once every part has ended.                          *)

\* In order, and a real failure ahead of a cancellation.
FirstAt(w, hows) ==
  LET at == {n \in DOMAIN Dirs : w.parts[Dirs[n]].at \in hows}
  IN w.parts[Dirs[CHOOSE n \in at : \A m \in at : n <= m]].at
dirRefusal(w) ==
  LET how == {w.parts[d].at : d \in DirNames}
  IN IF how \cap {"failed", "disabled", "toomany"} # {}
       THEN FirstAt(w, {"failed", "disabled", "toomany"})
     ELSE IF "canceled" \in how THEN "canceled"
     ELSE IF how = {"missing"} THEN "missing" ELSE None

\* Mutant of fingerprint: the groups' own names are left out.
fingerprintOfSubject(w) ==
  [d \in {e \in DirNames : w.parts[e].at = "held"} |-> <<w.parts[d].sub.version, NoGroups>>]
\* The version is a fingerprint of the answer: each directory that holds the
\* subject, its revision of them, and every group with its revision.
fingerprint(w) ==
  [d \in {e \in DirNames : w.parts[e].at = "held"} |->
     <<w.parts[d].sub.version, w.parts[d].seen>>]

expansion(w, i) ==
  [members |-> UNION {{<<d, g>> : g \in DOMAIN w.parts[d].seen} : d \in DirNames},
   unknown |-> UNION {{<<d, g>> : g \in w.parts[d].unknown} : d \in DirNames},
   version |-> fingerprint(w),
   \* History: what the directories held when asked, which of them did not
   \* move meanwhile, when it was ready and after how many forgets.
   of |-> w.of, still |-> w.still, ready |-> dirNow, forgets |-> dirForgets[i]]

-----------------------------------------------------------------------------
(* cached.go over cache.Do: one caller leads, the others wait for it.       *)

dirAnswered(i, x) == [at |-> "answered", id |-> i, got |-> x, forgets |-> dirForgets[i], when |-> dirNow]
DirAsk(c, i) ==
  /\ dirCall[c].at = "idle"
  /\ dirShard' = get(dirShard, i, dirNow)
  /\ \/ /\ live(dirShard, i, dirNow)
        /\ dirCall' = [dirCall EXCEPT ![c] = dirAnswered(i, entryIn(dirShard, i).val)]
        /\ UNCHANGED dirWalk
     \/ /\ ~live(dirShard, i, dirNow) /\ dirWalk[i] # None
        /\ dirCall' = [dirCall EXCEPT ![c] = [at |-> "waiting", id |-> i, forgets |-> dirForgets[i]]]
        /\ UNCHANGED dirWalk
     \/ /\ ~live(dirShard, i, dirNow) /\ dirWalk[i] = None
        /\ dirCall' = [dirCall EXCEPT ![c] = [at |-> "leading", id |-> i, forgets |-> dirForgets[i]]]
        /\ dirWalk' = [dirWalk EXCEPT ![i] =
             [parts |-> [d \in DirNames |-> newPart], canceled |-> FALSE, of |-> dirHeld,
              still |-> DirNames]]
  /\ UNCHANGED <<dirHeld, dirNow, dirEdits, dirForgets>>

DirGoAway(c) ==
  /\ dirCall[c].at = "leading" /\ ~dirWalk[dirCall[c].id].canceled
  /\ dirWalk' = [dirWalk EXCEPT ![dirCall[c].id].canceled = TRUE]
  /\ UNCHANGED <<dirHeld, dirShard, dirCall, dirNow, dirEdits, dirForgets>>

\* Mutant of DirFinish: the result is handed to the leader and nobody is
\* woken.
DirFinishAlone(i) ==
  /\ dirWalk[i] # None
  /\ \A d \in DirNames : dirWalk[i].parts[d].at \in DirEnded
  /\ dirCall' = [c \in DirCallers |->
       IF dirCall[c].at = "leading" /\ dirCall[c].id = i THEN dirIdle ELSE dirCall[c]]
  /\ dirWalk' = [dirWalk EXCEPT ![i] = None]
  /\ UNCHANGED <<dirShard, dirHeld, dirNow, dirEdits, dirForgets>>
\* The call ends for everybody waiting on it; an error is not stored.
DirFinish(i) ==
  /\ dirWalk[i] # None
  /\ \A d \in DirNames : dirWalk[i].parts[d].at \in DirEnded
  /\ LET w == dirWalk[i]
         x == expansion(w, i)
         on(c) == dirCall[c].at \in {"leading", "waiting"} /\ dirCall[c].id = i
     IN \/ /\ dirRefusal(w) = None
           /\ dirShard' = put(dirShard, i, x, expiry(DirTTL, dirNow), DirCap)
           /\ dirCall' = [c \in DirCallers |->
                IF on(c) THEN [dirAnswered(i, x) EXCEPT !.forgets = dirCall[c].forgets] ELSE dirCall[c]]
        \/ /\ dirRefusal(w) # None
           /\ dirCall' = [c \in DirCallers |->
                IF on(c) THEN [at |-> "refused", why |-> dirRefusal(w), canceled |-> w.canceled] ELSE dirCall[c]]
           /\ UNCHANGED dirShard
  /\ dirWalk' = [dirWalk EXCEPT ![i] = None]
  /\ UNCHANGED <<dirHeld, dirNow, dirEdits, dirForgets>>

DirDone(c) ==
  /\ dirCall[c].at \in {"answered", "refused"}
  /\ dirCall' = [dirCall EXCEPT ![c] = dirIdle]
  /\ UNCHANGED <<dirHeld, dirWalk, dirShard, dirNow, dirEdits, dirForgets>>

\* An expansion already in flight is not forgotten with the entry.
DirForget(i) ==
  /\ dirForgets[i] < MaxForgets
  /\ dirForgets' = [dirForgets EXCEPT ![i] = @ + 1]
  /\ dirShard' = remove(dirShard, i)
  /\ UNCHANGED <<dirHeld, dirWalk, dirCall, dirNow, dirEdits>>
\* A sweep empties the shard and keeps the calls in flight.
DirClear ==
  /\ dirShard # <<>>
  /\ dirShard' = <<>>
  /\ UNCHANGED <<dirHeld, dirWalk, dirCall, dirNow, dirEdits, dirForgets>>
DirTick ==
  /\ dirNow < DirMaxTime
  /\ dirNow' = dirNow + 1
  /\ UNCHANGED <<dirHeld, dirWalk, dirShard, dirCall, dirEdits, dirForgets>>

DirEdits ==
  \E d \in DirNames :
    \/ \E i \in DirIds : DirPut(d, i) \/ DirRemove(d, i)
    \/ \E g \in DirGroups : DirRemoveGroup(d, g) \/ DirPutGroup(d, g, {})
    \/ \E c \in Readable(d) : DirLoad(d, c)
DirWalks ==
  \E i \in DirIds, d \in DirNames :
    \/ LookSubject(i, d) \/ LookFails(i, d) \/ PartCanceled(i, d)
    \/ \E g \in DirGroups : LookGroup(i, d, g)
DirNext ==
  \/ DirEdits \/ DirWalks \/ DirClear \/ DirTick
  \/ \E c \in DirCallers : DirGoAway(c) \/ DirDone(c) \/ \E i \in DirIds : DirAsk(c, i)
  \/ \E i \in DirIds : DirFinish(i) \/ DirForget(i)

\* A lookup answers or fails in the end, and a finished call is handed out.
DirFairness == \A i \in DirIds : WF_dirVars(DirFinish(i) \/ \E d \in DirNames :
  LookSubject(i, d) \/ LookFails(i, d) \/ PartCanceled(i, d) \/ \E g \in DirGroups : LookGroup(i, d, g))
DirSpec == DirInit /\ [][DirNext]_dirVars /\ DirFairness

-----------------------------------------------------------------------------
\* Type invariant: what a directory holds is something an edit can have left, and
\* a walk has asked for the groups of its frontier only, which it has all seen.
DirTypeOK ==
  /\ \A d \in DirNames : DirPossible(dirHeld[d])
  /\ \A i \in DirIds : dirWalk[i] # None =>
       \A d \in DirNames : LET p == dirWalk[i].parts[d] IN
         /\ p.at \in DirEnded \cup {"subject", "level"}
         /\ DOMAIN p.got \subseteq p.frontier /\ p.frontier \subseteq DOMAIN p.seen
         /\ p.unknown \subseteq DOMAIN p.seen /\ DOMAIN p.seen \subseteq DirGroups
  /\ Len(dirShard) <= DirCap
  /\ \A c \in DirCallers : dirCall[c].at \in {"idle", "waiting", "leading", "answered", "refused"}

\* The groups a directory puts a subject in: the least set that holds the
\* subject's own and, for each group the directory holds, that group's.
Closure(held, i) ==
  IF held.subjects[i] = None THEN {}
  ELSE {g \in DirGroups : \A S \in SUBSET DirGroups :
          (/\ held.subjects[i].memberOf \subseteq S
           /\ \A h \in S : held.groups[h] # None => held.groups[h].memberOf \subseteq S) => g \in S}

\* An expansion handed out holds, for each directory that did not change
\* meanwhile, exactly the groups it puts the subject in, cycles and all, and
\* reports those it does not hold: never a part of them, whatever failed.
ExpandsToClosure ==
  \A c \in DirCallers : dirCall[c].at = "answered" =>
    \A d \in dirCall[c].got.still :
      LET x == dirCall[c].got
          mine == {g \in DirGroups : <<d, g>> \in x.members}
      IN /\ mine = Closure(x.of[d], dirCall[c].id)
         /\ {g \in DirGroups : <<d, g>> \in x.unknown} = {g \in mine : x.of[d].groups[g] = None}

\* A directory as it was written down puts nobody in a group it does not hold.
FilesHaveNoUnknown ==
  \A c \in DirCallers : dirCall[c].at = "answered" /\ dirEdits = 0 => dirCall[c].got.unknown = {}

\* Two expansions in use with one version hold the same groups, so whatever is
\* keyed by the version is never read under another group set.
SameVersionSameGroups ==
  LET known == {dirCall[c].got : c \in {c \in DirCallers : dirCall[c].at = "answered"}}
                 \cup {dirShard[n].val : n \in DOMAIN dirShard}
  IN \A x, y \in known : x.version = y.version => x.members = y.members

\* A group set handed out was put together less than a lifetime ago.  It was read
\* before that, by however long its walk took, which is not counted in what
\* Staleness calls "the most out of date any group set this returns can be".
StalenessBounded ==
  \A c \in DirCallers : dirCall[c].at = "answered" => dirCall[c].when < dirCall[c].got.ready + DirTTL

\* An expansion that had ended when a subject was forgotten is not handed to a
\* request that came after.  One still under way is: it is stored when it ends and
\* served for its lifetime, although it was read before the Forget and "the next
\* request for one of them asks the directory" (Forget, Do).
ForgottenNotServed ==
  \A c \in DirCallers : dirCall[c].at = "answered" => dirCall[c].got.forgets >= dirCall[c].forgets

\* Everybody refused is told what went wrong; a cancellation only when the
\* request that led the expansion went away.
RefusalNamesTheCause ==
  \A c \in DirCallers : dirCall[c].at = "refused" /\ dirCall[c].why = "canceled" => dirCall[c].canceled

\* One expansion of a subject at a time: exactly one caller leads each.
OneWalkPerSubject ==
  \A i \in DirIds : Cardinality({c \in DirCallers : dirCall[c].at = "leading" /\ dirCall[c].id = i})
                      = (IF dirWalk[i] = None THEN 0 ELSE 1)

\* Nobody who asks waits for ever, the followers of a leader that goes away
\* included.
CallersAreAnswered ==
  \A c \in DirCallers : []<>(dirCall[c].at \notin {"waiting", "leading"})
=============================================================================
