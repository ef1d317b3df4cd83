-------------------------------- MODULE Jira --------------------------------
(***************************************************************************)
(* One project of a Jira site as the adapter reads it                      *)
(* (connector/jirasource): a query for what changed, paged by offset while *)
(* the project moves, the listing the sweep compares, the comments under   *)
(* an issue, and the two kinds of rule: the project's permission scheme    *)
(* and an issue's security level.                                          *)
(*                                                                         *)
(* The site is external.  It caps the size of a page at what it likes and  *)
(* ends a listing by a total, by a flag, or by a short page.  An issue's   *)
(* updated time moves with anything about it, one change an instant; JQL   *)
(* compares whole minutes.                                                 *)
(***************************************************************************)
EXTENDS Integers, Sequences, SequencesExt, FiniteSets, FiniteSetsExt, Functions

CONSTANTS
  JrMaxKeys,   \* bound on the issues, numbered in the order of their keys
  JrPage,      \* the page size the adapter asks for
  JrCaps,      \* the page sizes a site may grant
  JrInline,    \* how many comments a search carries
  JrMinute,    \* instants to the minute
  JrLevels,    \* what a security level may hold: sets of [type, who] holders
  JrSchemes,   \* what a permission scheme may grant: sets of [type, who, permit]
  JrRole,      \* who is in the project role the schemes name
  JrMaxTime, JrMaxWalks, JrMaxEdits  \* bounds

ASSUME JrAssumption == JrMaxKeys \in Nat /\ JrPage \in Nat \ {0} /\ JrCaps \subseteq Nat \ {0} /\ JrMinute \in Nat \ {0}
\* No person and no group has one of the names that stand for a rule.
ASSUME JrNames == "everybody" \notin JrRole /\ \A s \in JrSchemes : \A g \in s : g.who # "everybody"

VARIABLES
  jrNow,     \* the last instant something changed at
  jrIssue,   \* the project: its issues, by key
  jrFiled,   \* the last key given out; none is given out twice
  jrIdx,     \* the index: what is filed of an issue
  jrWalk,    \* the query under way
  jrLevel,   \* the holders of the security level
  jrCache,   \* security.by: the rule resolved for the level, empty until asked
  jrPast,    \* every membership the level had since the process started
  jrScheme,  \* the project's scheme
  jrRule,    \* the project's rule as last read
  jrEdits    \* changes to level and scheme so far

jrSite == <<jrNow, jrFiled, jrIssue, jrLevel, jrPast, jrScheme, jrEdits>>
jrVars == <<jrSite, jrIdx, jrWalk, jrCache, jrRule>>

jrNoWalk == [at |-> "none", n |-> 0]
\* Rules are sets of names; these three are nobody's.
Quarantine == {"unresolved"}
Everybody == {"everybody"}
Project == {"project"}

JrInit ==
  /\ jrNow = 0 /\ jrFiled = 0 /\ jrIssue = <<>> /\ jrIdx = <<>> /\ jrEdits = 0
  /\ jrWalk = jrNoWalk
  /\ jrLevel \in JrLevels /\ jrPast = {jrLevel} /\ jrCache = <<>>
  /\ jrScheme \in JrSchemes /\ jrRule = <<>>

-----------------------------------------------------------------------------
\* The site, which is external.
jrWith(f, k, v) == [x \in DOMAIN f \union {k} |-> IF x = k THEN v ELSE f[x]]
jrChanges == jrNow < JrMaxTime /\ jrNow' = jrNow + 1 /\ UNCHANGED <<jrIdx, jrLevel, jrCache, jrPast, jrScheme, jrRule, jrEdits>>

\* What is in front of the query's offset has moved, so the rest is shifted.
jrShifts(k) ==
  jrWalk' = IF jrWalk.at = "pages" /\ k \in jrWalk.seen THEN [jrWalk EXCEPT !.shifted = TRUE] ELSE jrWalk

JrFile(secured) ==
  /\ jrChanges /\ jrFiled < JrMaxKeys /\ jrFiled' = jrFiled + 1
  /\ jrIssue' = jrWith(jrIssue, jrFiled + 1, [updated |-> jrNow + 1, comments |-> 0, secured |-> secured])
  /\ UNCHANGED jrWalk
JrComment(k) ==
  /\ jrChanges
  /\ jrIssue' = [jrIssue EXCEPT ![k].comments = @ + 1, ![k].updated = jrNow + 1]
  /\ IF jrWalk.at = "pages" /\ jrWalk.kind = "list" THEN UNCHANGED jrWalk ELSE jrShifts(k)
  /\ UNCHANGED jrFiled
JrDelete(k) == jrChanges /\ jrIssue' = Restrict(jrIssue, DOMAIN jrIssue \ {k}) /\ jrShifts(k) /\ UNCHANGED jrFiled

JrRegroup ==
  /\ jrEdits < JrMaxEdits /\ jrEdits' = jrEdits + 1
  /\ jrLevel' \in JrLevels \ {jrLevel} /\ jrPast' = jrPast \union {jrLevel'}
  /\ UNCHANGED <<jrNow, jrFiled, jrIssue, jrIdx, jrWalk, jrCache, jrScheme, jrRule>>
JrRescheme ==
  /\ jrEdits < JrMaxEdits /\ jrEdits' = jrEdits + 1
  /\ jrScheme' \in JrSchemes \ {jrScheme}
  /\ UNCHANGED <<jrNow, jrFiled, jrIssue, jrIdx, jrWalk, jrLevel, jrCache, jrPast, jrRule>>

-----------------------------------------------------------------------------
\* pages: what was granted, not what was asked for, says whether a page is short.
pageSize(cap) == IF cap < JrPage THEN cap ELSE JrPage

\* A listing of n items ends after a page of got items at an offset.
ends(end, cap, at, got, n) ==
  \/ got = 0 \/ got < pageSize(cap)
  \/ end = "total" /\ n > 0 /\ at + got >= n
  \/ end = "flag" /\ at + got >= n

\* How much of a listing that stands still the pages bring: a page at a time,
\* whatever ends it.
got(cap, at, n) == Max({0, Min({cap, JrPage, n - at})})
whole(end, cap, n) ==
  LET upTo[i \in 0 .. n] ==
        LET g == got(cap, i, n) IN IF ends(end, cap, i, g, n) THEN i + g ELSE upTo[i + g]
  IN upTo[0]

\* comments: the ones a search carried, or all of them when there are more.
comments(n, end, cap) == IF n <= JrInline THEN n ELSE whole(end, cap, n)

\* security.resolve: a level this account cannot list, a level granted to a
\* role, and a level of nobody are all quarantined.
resolve(fails) ==
  IF fails \/ jrLevel = {} \/ \E h \in jrLevel : h.type = "role" THEN Quarantine ELSE {h.who : h \in jrLevel}

\* security.level: what was resolved once is the answer from then on.
level(fails) == IF jrCache # <<>> THEN jrCache[1] ELSE resolve(fails)

\* build: the level, where there is one, replaces the project's rule.
jrBuild(is, end, cap, fails) ==
  [updated |-> is.updated, comments |-> comments(is.comments, end, cap),
   rule |-> IF is.secured THEN level(fails) ELSE Project, secured |-> is.secured]

\* The level is asked for when an issue that has one is built.
jrAsks(S, fails) == jrCache' = IF \E k \in S : jrIssue[k].secured THEN <<level(fails)>> ELSE jrCache

-----------------------------------------------------------------------------
\* jqlTime: the minute a time is in, rounded down.
jqlTime(t) == (t \div JrMinute) * JrMinute

\* Threads and List, through search.
JrSearch(kind, since, end, cap) ==
  /\ jrWalk.at = "none" /\ jrWalk.n < JrMaxWalks
  /\ kind = "list" => since = 0
  /\ jrWalk' = [at |-> "pages", n |-> jrWalk.n + 1, kind |-> kind, since |-> since, end |-> end, cap |-> cap,
                offset |-> 0, seen |-> {}, shifted |-> FALSE, held |-> jrIssue, out |-> <<>>]
  /\ UNCHANGED <<jrSite, jrIdx, jrCache, jrRule>>

\* What the query matches now, in its order.
hits ==
  LET older(a, b) == jrIssue[a].updated < jrIssue[b].updated
  IN IF jrWalk.kind = "list" THEN SetToSortSeq(DOMAIN jrIssue, <)
     ELSE SetToSortSeq({k \in DOMAIN jrIssue : jrIssue[k].updated >= jqlTime(jrWalk.since)}, older)

\* One page: what JQL rounded in is dropped, the rest is built and handed over.
JrPageOf(fails) ==
  /\ jrWalk.at = "pages"
  /\ LET g == got(jrWalk.cap, jrWalk.offset, Len(hits))
         page == ToSet(SubSeq(hits, jrWalk.offset + 1, jrWalk.offset + g))
         fresh == {k \in page : jrIssue[k].updated >= jrWalk.since}
         done == ends(jrWalk.end, jrWalk.cap, jrWalk.offset, g, Len(hits))
     IN /\ jrWalk' = [jrWalk EXCEPT !.at = IF done THEN "done" ELSE @, !.offset = @ + g, !.seen = @ \union page,
                        !.out = [k \in DOMAIN @ \union fresh |-> IF k \in fresh THEN jrIssue[k].updated ELSE @[k]]]
        /\ jrIdx' = IF jrWalk.kind = "list" THEN jrIdx
                    ELSE [k \in DOMAIN jrIdx \union fresh |->
                            IF k \in fresh THEN jrBuild(jrIssue[k], jrWalk.end, jrWalk.cap, fails) ELSE jrIdx[k]]
        /\ jrAsks(fresh, fails)
        /\ fails => jrCache' # jrCache
  /\ UNCHANGED <<jrSite, jrRule>>

\* The query is over.  The sweep drops what a listing did not name and reads
\* again what it named under another version.
JrDone(fails) ==
  /\ jrWalk.at = "done"
  /\ jrWalk' = [jrNoWalk EXCEPT !.n = jrWalk.n]
  /\ LET stale == {k \in DOMAIN jrWalk.out \intersect DOMAIN jrIssue : k \notin DOMAIN jrIdx \/ jrIdx[k].updated # jrWalk.out[k]}
         kept == (DOMAIN jrIdx \intersect DOMAIN jrWalk.out) \ stale
     IN IF jrWalk.kind = "list"
        THEN /\ jrIdx' = [k \in kept \union stale |-> IF k \in stale THEN jrBuild(jrIssue[k], jrWalk.end, jrWalk.cap, fails) ELSE jrIdx[k]]
             /\ jrAsks(stale, fails)
        ELSE UNCHANGED <<jrIdx, jrCache>>
  /\ fails => jrCache' # jrCache
  /\ UNCHANGED <<jrSite, jrRule>>

-----------------------------------------------------------------------------
\* access: what grants browse, roles resolved to who is in them.  Browse for
\* every licence is the tenant, browse for nobody is not understood.
jrAccess(refused, roleFails) ==
  LET browse == {g \in jrScheme : g.permit = "browse"}
      who == UNION {IF g.type = "projectRole" THEN (IF roleFails THEN {} ELSE JrRole) ELSE {g.who} : g \in browse}
  IN CASE refused -> Quarantine
       [] ~refused /\ (\E g \in browse : g.type = "anyone") -> Everybody
       [] OTHER -> IF who = {} THEN Quarantine ELSE who

\* Containers: the scheme is read, as far as this account may.
JrContainers(refused, roleFails) ==
  /\ jrRule' = <<[scheme |-> jrScheme, rule |-> jrAccess(refused, roleFails)]>>
  /\ UNCHANGED <<jrSite, jrIdx, jrWalk, jrCache>>

JrNext ==
  \/ \E b \in BOOLEAN : JrFile(b)
  \/ \E k \in DOMAIN jrIssue : JrComment(k) \/ JrDelete(k)
  \/ \E kind \in {"threads", "list"}, since \in 0 .. jrNow, end \in {"total", "flag", "short"}, cap \in JrCaps :
       JrSearch(kind, since, end, cap)
  \/ \E b \in BOOLEAN : JrPageOf(b) \/ JrDone(b)
  \/ \E b, c \in BOOLEAN : JrContainers(b, c)
  \/ JrRegroup \/ JrRescheme

JrSpec == JrInit /\ [][JrNext]_jrVars

-----------------------------------------------------------------------------
\* A query that ends has brought every issue it matched when it began and that
\* is still there, however the site pages it and whatever is filed meanwhile:
\* unless one it had already brought moved or left, which shifts the offsets
\* (pages, search, Threads, List, jqlTime).
PagesWhole ==
  jrWalk.at = "done" /\ ~jrWalk.shifted =>
    \A k \in DOMAIN jrWalk.held \intersect DOMAIN jrIssue :
      jrWalk.held[k].updated >= jrWalk.since => k \in DOMAIN jrWalk.out

\* An issue filed under the updated time it has is filed with every comment it
\* has (comments, build).
CommentsWhole ==
  \A k \in DOMAIN jrIdx \intersect DOMAIN jrIssue :
    jrIdx[k].updated = jrIssue[k].updated => jrIdx[k].comments = jrIssue[k].comments

\* An issue with a security level is served to the whole of a membership the
\* level has had, or to nobody: never to the project, and never to the part of
\* a level that could be named (level, resolve, build).
LevelNeverGuessed ==
  \A k \in DOMAIN jrIdx : jrIdx[k].secured =>
    \/ jrIdx[k].rule = Quarantine
    \/ \E m \in jrPast : m # {} /\ (\A h \in m : h.type # "role") /\ jrIdx[k].rule = {h.who : h \in m}

\* The project's rule admits nobody its scheme does not grant browse to
\* (Containers, access, role).
RuleNeverWider ==
  jrRule # <<>> =>
    LET browse == {g \in jrRule[1].scheme : g.permit = "browse"}
        rule == jrRule[1].rule
    IN \/ rule = Quarantine
       \/ \E g \in browse : g.type = "anyone"
       \/ rule # Everybody /\ rule \subseteq {g.who : g \in browse} \union (IF \E g \in browse : g.type = "projectRole" THEN JrRole ELSE {})

=============================================================================
