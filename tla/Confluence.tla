----------------------------- MODULE Confluence -----------------------------
(***************************************************************************)
(* One space of a Confluence site as the adapter reads it                  *)
(* (connector/confluencesource): a query over pages and comments together, *)
(* because a comment does not date the page it is on; the restrictions     *)
(* that replace the space's rule and inherit down the tree of pages; the   *)
(* cache of them that lasts one crawl.                                     *)
(*                                                                         *)
(* The site is external.  Everything changes at an instant of its own, and *)
(* a next link stands for the last hit of its page.  A restriction is a    *)
(* number, a new one for every rewrite, 0 for none.                        *)
(***************************************************************************)
EXTENDS Integers, FiniteSets, FiniteSetsExt

CONSTANTS
  CfParent,    \* the tree: the page above each page, 0 at the top
  CfLegacy,    \* the pages the old editor wrote
  CfInline,    \* how many comments a search carries
  CfSize,      \* how many hits a page of results has
  CfMinute,    \* instants to the minute
  CfGrants,    \* what the permissions of a space may be: sets of [op, target, who]
  CfMaxTime, CfMaxCrawls, CfMaxRestricts, CfMaxFaults  \* bounds

CfPages == DOMAIN CfParent
ASSUME CfAssumption ==
  /\ CfPages \subseteq Nat \ {0} /\ IsFiniteSet(CfPages) /\ CfSize \in Nat \ {0}
  /\ \A p \in CfPages : CfParent[p] \in CfPages \union {0} /\ CfParent[p] # p

VARIABLES
  cfNow,    \* the last instant something changed at
  cfSite,   \* each page: when it was last edited, 0 before it is written and -1 once it is gone,
            \* and when it was commented on
  cfOwn,    \* each page's own read restriction
  cfSpace,  \* the permissions of the space
  cfIdx,    \* the index, by page
  cfCache,  \* restrictions.by: what is known of each page's own restriction
  cfCrawl,  \* the crawl under way
  cfHad,    \* every restriction each page had since the crawl began
  cfSpent   \* crawls, rewrites of restrictions and faults so far

cfVars == <<cfNow, cfSite, cfOwn, cfSpace, cfIdx, cfCache, cfCrawl, cfHad, cfSpent>>

cfNone == -1        \* the page inherits the space's rule
cfUnresolved == -2  \* quarantined
cfNoCrawl == [at |-> "none"]

CfInit ==
  /\ cfNow = 0
  /\ cfSite = [p \in CfPages |-> [edited |-> 0, comments |-> {}]]
  /\ cfOwn = [p \in CfPages |-> 0] /\ cfHad = [p \in CfPages |-> {0}]
  /\ cfSpace \in CfGrants
  /\ cfIdx = <<>> /\ cfCache = <<>> /\ cfCrawl = cfNoCrawl
  /\ cfSpent = [crawls |-> 0, restricts |-> 0, faults |-> 0]

-----------------------------------------------------------------------------
\* The site.
cfPut(f, k, v) == [x \in DOMAIN f \union {k} |-> IF x = k THEN v ELSE f[x]]
cfChanges == cfNow < CfMaxTime /\ cfNow' = cfNow + 1 /\ UNCHANGED <<cfOwn, cfSpace, cfIdx, cfCache, cfCrawl, cfHad, cfSpent>>
live(p) == cfSite[p].edited > 0

CfEdit(p) == cfChanges /\ cfSite[p].edited >= 0 /\ (CfParent[p] # 0 => live(CfParent[p])) /\ cfSite' = [cfSite EXCEPT ![p].edited = cfNow + 1]
CfComment(p) == cfChanges /\ live(p) /\ cfSite' = [cfSite EXCEPT ![p].comments = @ \union {cfNow + 1}]
CfArchive(p) == cfChanges /\ live(p) /\ (\A q \in CfPages : CfParent[q] = p => ~live(q)) /\ cfSite' = [cfSite EXCEPT ![p] = [edited |-> -1, comments |-> {}]]
CfRestrict(p, lift) ==
  /\ cfSpent.restricts < CfMaxRestricts /\ live(p) /\ (lift => cfOwn[p] # 0)
  /\ cfSpent' = [cfSpent EXCEPT !.restricts = @ + 1]
  /\ cfOwn' = [cfOwn EXCEPT ![p] = IF lift THEN 0 ELSE cfSpent.restricts + 1]
  /\ cfHad' = [cfHad EXCEPT ![p] = @ \union {cfOwn'[p]}]
  /\ UNCHANGED <<cfNow, cfSite, cfSpace, cfIdx, cfCache, cfCrawl>>

-----------------------------------------------------------------------------
\* forget: the cache lasts one crawl.
\* Mutant of forget: it lasts as long as the process.
forgetNothing == cfCache
forget == <<>>

\* Containers: every crawl begins here.
CfContainers ==
  /\ cfCrawl.at = "none" /\ cfSpent.crawls < CfMaxCrawls
  /\ cfCrawl' = [at |-> "listed"]
  /\ cfSpent' = [cfSpent EXCEPT !.crawls = @ + 1]
  /\ cfCache' = forget
  /\ cfHad' = [p \in CfPages |-> {cfOwn[p]}]
  /\ UNCHANGED <<cfNow, cfSite, cfOwn, cfSpace, cfIdx>>

\* cqlTime: the minute a time is in, rounded down.
cqlTime(t) == (t \div CfMinute) * CfMinute

\* Threads asks for pages and comments by time, List for pages by id.
CfSearch(kind, since) ==
  /\ cfCrawl.at = "listed" /\ (kind = "list" => since = 0)
  /\ cfCrawl' = [at |-> "search", kind |-> kind, since |-> since, pos |-> 0, more |-> TRUE, page |-> {},
                 built |-> <<>>, held |-> cfSite, out |-> <<>>]
  /\ UNCHANGED <<cfNow, cfSite, cfOwn, cfSpace, cfIdx, cfCache, cfHad, cfSpent>>

\* pageOf: a hit is about its page, or about the page the comment is on.  The
\* time is the hit's own.
\* Mutant of threadHits: comments are not asked for.
threadHitsPages == {[page |-> p, type |-> "page", at |-> cfSite[p].edited] : p \in {q \in CfPages : live(q)}}
threadHits ==
  UNION {{[page |-> p, type |-> "page", at |-> cfSite[p].edited]}
         \union {[page |-> p, type |-> "comment", at |-> c] : c \in cfSite[p].comments} : p \in {q \in CfPages : live(q)}}
listHits == {[page |-> p, type |-> "page", at |-> p] : p \in {q \in CfPages : live(q)}}

\* search, pages: the next results, with what came inline: the page as it is
\* now, its own restriction and its comments.
firstOf(page, rest) ==
  /\ \A h \in page, later \in rest \ page : h.at < later.at
  /\ (page = rest /\ Cardinality(page) <= CfSize) \/ Cardinality(page) = CfSize
full(h) == [page |-> h.page, type |-> h.type, at |-> h.at, edited |-> cfSite[h.page].edited,
            comments |-> cfSite[h.page].comments, own |-> cfOwn[h.page]]
CfResults ==
  /\ cfCrawl.at = "search" /\ cfCrawl.page = {} /\ cfCrawl.more
  /\ LET all == IF cfCrawl.kind = "list" THEN listHits ELSE {h \in threadHits : h.at >= cqlTime(cfCrawl.since)}
         rest == {h \in all : h.at > cfCrawl.pos}
     IN \E page \in SUBSET rest :
          /\ firstOf(page, rest)
          /\ cfCrawl' = [cfCrawl EXCEPT !.page = {full(h) : h \in page}, !.more = page # rest,
                                        !.pos = IF page = {} THEN @ ELSE Max({h.at : h \in page})]
  /\ UNCHANGED <<cfNow, cfSite, cfOwn, cfSpace, cfIdx, cfCache, cfHad, cfSpent>>

-----------------------------------------------------------------------------
\* The pages above a page: those in every set that holds the page above it and,
\* with a page, the one above that.
holdsAbove(S, p) == CfParent[p] \in S \union {0}
ancestors(p) == {a \in CfPages : \A S \in SUBSET CfPages : holdsAbove(S, p) /\ (\A q \in S : holdsAbove(S, q)) => a \in S}

\* of, fetch, remember: an ancestor's own restriction, from the cache or from
\* the site.  One that is gone restricts nothing, one the site will not show or
\* shows in part is quarantined, and either answer is kept.
ofSite(a, fails) == CASE fails -> cfUnresolved [] ~fails /\ live(a) -> cfOwn[a] [] OTHER -> 0
cacheAfter(p, own, fails) ==
  LET asked == ancestors(p) \ DOMAIN cfCache
      known == cfPut(cfCache, p, own)
  IN [a \in DOMAIN known \union asked |-> IF a \in DOMAIN known THEN known[a] ELSE ofSite(a, fails)]

\* rule: the one restriction on the page or above it, or a quarantine when
\* there are two.
combined(p, c) ==
  LET found == {a \in {p} \union ancestors(p) : c[a] # 0}
  IN CASE found = {} -> cfNone [] Cardinality(found) = 1 -> c[CHOOSE a \in found : TRUE] [] OTHER -> cfUnresolved

\* text, legacy: a page with no document in the new format is asked for in the old.
text(p) == p \notin CfLegacy \/ live(p)

\* comments: what came inline, or all of them when there are more.
cfComments(h) == IF Cardinality(h.comments) <= CfInline \/ ~live(h.page) THEN h.comments ELSE cfSite[h.page].comments

\* build, from a hit that is a page.
cfBuild(h, rule) == [edited |-> h.edited, comments |-> cfComments(h), text |-> text(h.page), rule |-> rule]

\* One hit, in order.  What CQL rounded in is dropped, a page read for an earlier hit of
\* this walk is handed over again, one that is gone is left to the sweep.
CfHit(fails) ==
  /\ cfCrawl.at = "search"
  /\ \E hit \in cfCrawl.page :
     LET p == hit.page
         on == [cfCrawl EXCEPT !.page = @ \ {hit}]
         \* Read, for a comment: the page as it is now
         h == IF hit.type = "page" THEN hit
              ELSE [hit EXCEPT !.edited = cfSite[p].edited, !.comments = cfSite[p].comments, !.own = cfOwn[p]]
         cache == cacheAfter(p, h.own, fails)
         th == cfBuild(h, combined(p, cache))
         dropped == (cfCrawl.kind = "threads" /\ hit.at < cfCrawl.since) \/ (hit.type = "comment" /\ ~live(p) /\ p \notin DOMAIN cfCrawl.built)
     IN /\ \A later \in cfCrawl.page : hit.at <= later.at
        /\ CASE dropped -> cfCrawl' = on /\ ~fails /\ UNCHANGED <<cfIdx, cfCache, cfSpent>>
          [] ~dropped /\ p \in DOMAIN cfCrawl.built ->
               /\ ~fails
               /\ cfCrawl' = [on EXCEPT !.out = cfPut(@, p, cfCrawl.built[p])]
               /\ cfIdx' = cfPut(cfIdx, p, cfCrawl.built[p])
               /\ UNCHANGED <<cfCache, cfSpent>>
          [] OTHER ->
               /\ fails => cfSpent.faults < CfMaxFaults /\ ~(ancestors(p) \subseteq DOMAIN cfCache)
               /\ cfSpent' = [cfSpent EXCEPT !.faults = @ + (IF fails THEN 1 ELSE 0)]
               /\ cfCache' = cache
               /\ cfCrawl' = [on EXCEPT !.out = cfPut(@, p, th), !.built = cfPut(@, p, th)]
               \* a refresh writes the rule of a page the index has
               /\ cfIdx' = IF cfCrawl.kind = "threads" THEN cfPut(cfIdx, p, th)
                           ELSE IF p \in DOMAIN cfIdx THEN [cfIdx EXCEPT ![p].rule = th.rule] ELSE cfIdx
  /\ UNCHANGED <<cfNow, cfSite, cfOwn, cfSpace, cfHad>>

CfDone ==
  /\ cfCrawl.at = "search" /\ cfCrawl.page = {} /\ ~cfCrawl.more
  /\ cfCrawl' = cfNoCrawl
  /\ UNCHANGED <<cfNow, cfSite, cfOwn, cfSpace, cfIdx, cfCache, cfHad, cfSpent>>

-----------------------------------------------------------------------------
\* access: who may read the space, from the permissions that came with the
\* listing.  None at all were not shown; read for nobody is not understood.
cfAccess(grants) ==
  LET reads == {g \in grants : g.op = "read" /\ g.target \in {"", "space"}}
  IN IF reads = {} THEN {"unresolved"} ELSE IF \E g \in reads : g.who = "anonymous" THEN {"everybody"} ELSE {g.who : g \in reads}

CfNext ==
  \/ \E p \in CfPages : CfEdit(p) \/ CfComment(p) \/ CfArchive(p)
  \/ \E p \in CfPages, b \in BOOLEAN : CfRestrict(p, b)
  \/ \E kind \in {"threads", "list"}, since \in 0 .. cfNow : CfSearch(kind, since)
  \/ \E b \in BOOLEAN : CfHit(b)
  \/ CfContainers \/ CfResults \/ CfDone

CfSpec == CfInit /\ [][CfNext]_cfVars

-----------------------------------------------------------------------------
\* A query that ends has brought every page that was edited or commented on
\* since the time it asked for, and what it brought carries everything that was
\* said there when it began, in whichever format (Threads, pageOf, comments,
\* text, cqlTime).
CommentMovesPage ==
  cfCrawl.at = "search" /\ cfCrawl.page = {} /\ ~cfCrawl.more =>
    \A p \in CfPages :
      LET was == cfCrawl.held[p]
      IN was.edited > 0 /\ live(p) /\ Max({was.edited} \union was.comments) >= cfCrawl.since
         /\ was.comments \subseteq cfSite[p].comments =>
           p \in DOMAIN cfCrawl.out
           /\ (cfCrawl.kind = "threads" =>
                 /\ cfCrawl.out[p].edited >= was.edited /\ was.comments \subseteq cfCrawl.out[p].comments
                 /\ cfCrawl.out[p].text)

\* The rule a crawl gives a page is one the page and the pages above it really
\* had since the crawl began: the space's when none was restricted, a page's
\* when one was, a quarantine when two were or the site would not say (rule, of,
\* forget, Containers).
CrawlSeesRestrictions ==
  cfCrawl.at = "search" =>
    \A p \in DOMAIN cfCrawl.out :
      \/ cfCrawl.out[p].rule = cfUnresolved /\ cfSpent.faults > 0
      \/ \E f \in [{p} \union ancestors(p) -> (UNION {cfHad[a] : a \in CfPages}) \union {0}] :
           /\ \A a \in DOMAIN f : f[a] \in cfHad[a] \/ (~live(a) /\ f[a] = 0)
           /\ cfCrawl.out[p].rule = combined(p, f)

\* A page two pages of whose chain were restricted all through the crawl is
\* never served under one of the two restrictions (rule).
IntersectionQuarantined ==
  cfCrawl.at = "search" =>
    \A p \in DOMAIN cfCrawl.out :
      Cardinality({a \in {p} \union ancestors(p) : live(a) /\ 0 \notin cfHad[a]}) > 1 => cfCrawl.out[p].rule = cfUnresolved

\* The space's rule names nobody who was not given read over the space, and
\* nothing readable is taken for everything (access).
SpaceNeverWider ==
  LET rule == cfAccess(cfSpace)
      readers == {g.who : g \in {h \in cfSpace : h.op = "read" /\ h.target \in {"", "space"}}}
  IN \/ rule = {"unresolved"} \/ rule \subseteq readers
     \/ rule = {"everybody"} /\ "anonymous" \in readers

=============================================================================
