------------------------------ MODULE Recheck ------------------------------
(* The query time recheck (recheck/recheck.go): a page of results is put to *)
(* the sources that can say whether the asker may still read each row,      *)
(* before it is shown.  The sources share one deadline, their answers are   *)
(* reused for a while, and a row nobody answered for is not shown.          *)
EXTENDS Cache, FiniteSets

CONSTANTS
  RcPages,              \* requests in flight: each has an asker of its own
  RcAsker,              \* the asker of a page
  RcSources,
  RcItems,              \* the rows of a page, in order: records [id, source]
  RcTTL, RcTimeout, RcCap,
  RcMaxTime, RcMaxChanges, RcMaxPages
ASSUME RcAssumption ==
  /\ RcTTL \in Nat \ {0} /\ RcTimeout \in Nat \ {0} /\ RcCap \in Nat \ {0}
  /\ RcMaxTime \in Nat /\ None \notin Nat /\ IsFiniteSet(RcPages)
  /\ RcItems \in Seq(ToSet(RcItems)) /\ \A it \in ToSet(RcItems) : it.source \in RcSources

VARIABLES
  rcCheckers,  \* the sources with a checker
  rcRevoked,   \* when each asker lost each row at its source, or None
  rcShard,     \* the answers held, most recently used first
  rcCounts,    \* per source: checked, denied and failed
  rcHidden,    \* history: rows of each source a page was shown without
  rcUnchecked, \* history: the sources that were ever without a checker
  rcPage, rcNow, rcChanges, rcBegun
rcVars == <<rcCheckers, rcUnchecked, rcRevoked, rcShard, rcCounts, rcHidden, rcPage, rcNow, rcChanges, rcBegun>>

RcAskers == {RcAsker[g] : g \in RcPages}
RcIds == {it.id : it \in ToSet(RcItems)}
sourceOf(id) == (CHOOSE it \in ToSet(RcItems) : it.id = id).source
\* A cached answer is about one person and one row of one source.
rcKey(p, id) == <<p, sourceOf(id), id>>
mayRead(p, id) == rcRevoked[p, id] = None
rcIdle == [at |-> "idle"]

\* A deployment names the sources it checks before it serves.
RcInit ==
  /\ rcCheckers \in SUBSET RcSources /\ rcUnchecked = RcSources \ rcCheckers /\ rcShard = <<>>
  /\ rcRevoked = [x \in RcAskers \X RcIds |-> None]
  /\ rcCounts = [s \in RcSources |-> [checked |-> 0, denied |-> 0, failed |-> 0]]
  /\ rcHidden = [s \in RcSources |-> 0]
  /\ rcPage = [g \in RcPages |-> rcIdle]
  /\ rcNow = 0 /\ rcChanges = 0 /\ rcBegun = 0

\* A checker comes and goes while the server is serving.
RcAdd(s) ==
  /\ rcChanges < RcMaxChanges
  /\ rcChanges' = rcChanges + 1
  /\ rcCheckers' = IF s \in rcCheckers THEN rcCheckers \ {s} ELSE rcCheckers \cup {s}
  /\ rcUnchecked' = rcUnchecked \cup {s}
  /\ UNCHANGED <<rcRevoked, rcShard, rcCounts, rcHidden, rcPage, rcNow, rcBegun>>
\* At the source, somebody loses a row.
RcRevoke(p, id) ==
  /\ mayRead(p, id)
  /\ rcRevoked' = [rcRevoked EXCEPT ![<<p, id>>] = rcNow]
  /\ UNCHANGED <<rcCheckers, rcUnchecked, rcShard, rcCounts, rcHidden, rcPage, rcNow, rcChanges, rcBegun>>

-----------------------------------------------------------------------------
record(counts, s, allowed) ==
  [counts EXCEPT ![s].checked = @ + 1, ![s].denied = IF allowed THEN @ ELSE @ + 1]
fail(counts, s) == [counts EXCEPT ![s].checked = @ + 1, ![s].failed = @ + 1]

\* A page is handed back.
rcHides(page, s) == {id \in RcIds : sourceOf(id) = s /\ ~page.out[id]}
rcReturn(g, page) ==
  /\ rcPage' = [rcPage EXCEPT ![g] = [page EXCEPT !.at = "shown", !.ready = {}, !.when = rcNow]]
  /\ rcHidden' = [s \in RcSources |-> rcHidden[s] + Cardinality(rcHides(page, s))]
rcGoesOn(g, page) == rcPage' = [rcPage EXCEPT ![g] = page] /\ UNCHANGED rcHidden

\* Mutant of undecided: a row stands until its source says otherwise.
undecidedStands(asked) == TRUE
\* What a row is worth before its source has spoken.
undecided(asked) == ~asked
RcAllowed(g) ==
  /\ rcPage[g].at = "idle" /\ rcBegun < RcMaxPages
  /\ rcBegun' = rcBegun + 1
  /\ rcPage' = [rcPage EXCEPT ![g] =
       [at |-> "grouping", todo |-> RcIds, out |-> [id \in RcIds |-> FALSE], ask |-> {}, launched |-> {},
        left |-> {}, ready |-> {}, hand |-> None, deadline |-> rcNow, when |-> 0]]
  /\ UNCHANGED <<rcCheckers, rcUnchecked, rcRevoked, rcShard, rcCounts, rcHidden, rcNow, rcChanges>>
\* The rows are grouped by source: one nobody checks stands, one with an answer
\* in hand is decided, and every other is denied until somebody says otherwise.
\* When they all are, those to ask about have their deadline.
RcGroup(g, id) ==
  /\ rcPage[g].at = "grouping" /\ id \in rcPage[g].todo
  /\ LET page == rcPage[g]
         s == sourceOf(id)
         key == rcKey(RcAsker[g], id)
         checked == s \in rcCheckers
         hit == checked /\ live(rcShard, key, rcNow)
         asked == checked /\ ~hit
         said == entryIn(rcShard, key).val
         grouped == [page EXCEPT !.todo = @ \ {id},
                       !.out = [@ EXCEPT ![id] = IF hit THEN said ELSE undecided(asked)],
                       !.ask = IF asked THEN @ \cup {id} ELSE @,
                       !.left = IF asked THEN @ \cup {s} ELSE @]
     IN /\ rcShard' = IF checked THEN get(rcShard, key, rcNow) ELSE rcShard
        /\ rcCounts' = IF hit THEN record(rcCounts, s, said) ELSE rcCounts
        /\ \/ grouped.todo # {} /\ rcGoesOn(g, grouped)
           \/ grouped.todo = {} /\ grouped.ask = {} /\ rcReturn(g, grouped)
           \/ grouped.todo = {} /\ grouped.ask # {}
              /\ rcGoesOn(g, [grouped EXCEPT !.at = "asking", !.deadline = rcNow + RcTimeout])
  /\ UNCHANGED <<rcCheckers, rcUnchecked, rcRevoked, rcNow, rcChanges, rcBegun>>

rcRows(page, s) == {id \in page.ask : sourceOf(id) = s}
\* The question is put; a checker removed meanwhile lets its rows stand.
RcLaunch(g, s) ==
  /\ rcPage[g].at = "asking" /\ s \in rcPage[g].left \ rcPage[g].launched
  /\ rcPage' = [rcPage EXCEPT
       ![g].launched = @ \cup {s},
       ![g].ready = IF s \in rcCheckers THEN @
                    ELSE @ \cup {[source |-> s, allowed |-> [id \in rcRows(rcPage[g], s) |-> TRUE]]}]
  /\ UNCHANGED <<rcCheckers, rcUnchecked, rcRevoked, rcShard, rcCounts, rcHidden, rcNow, rcChanges, rcBegun>>
\* A checker answers from what its source holds now, for the rows it can; an
\* error is an answer about none of them.
RcAnswer(g, s, about) ==
  /\ rcPage[g].at = "asking"
  /\ s \in (rcPage[g].launched \cap rcPage[g].left) \ {r.source : r \in rcPage[g].ready}
  /\ about \subseteq rcRows(rcPage[g], s)
  /\ rcPage' = [rcPage EXCEPT ![g].ready = @ \cup
       {[source |-> s, allowed |-> [id \in about |-> mayRead(RcAsker[g], id)]]}]
  /\ UNCHANGED <<rcCheckers, rcUnchecked, rcRevoked, rcShard, rcCounts, rcHidden, rcNow, rcChanges, rcBegun>>

rcAsked(g) == rcPage[g].at = "asking" /\ rcPage[g].left \subseteq rcPage[g].launched
\* One source's answers are taken from the channel, and applied row by row; one
\* the source spoke of is remembered.
RcReceive(g, r) ==
  /\ rcAsked(g) /\ r \in rcPage[g].ready
  /\ rcGoesOn(g, [rcPage[g] EXCEPT !.at = "applying", !.hand = r, !.ready = @ \ {r}, !.left = @ \ {r.source},
                                   !.todo = rcRows(rcPage[g], r.source)])
  /\ UNCHANGED <<rcCheckers, rcUnchecked, rcRevoked, rcShard, rcCounts, rcNow, rcChanges, rcBegun>>
RcApply(g, id) ==
  /\ rcPage[g].at = "applying" /\ id \in rcPage[g].todo
  /\ LET page == rcPage[g]
         s == page.hand.source
         said == id \in DOMAIN page.hand.allowed
         allowed == said /\ page.hand.allowed[id]
         applied == [page EXCEPT !.todo = @ \ {id}, !.out = [@ EXCEPT ![id] = allowed]]
     IN /\ rcShard' = IF said THEN put(rcShard, rcKey(RcAsker[g], id), allowed, expiry(RcTTL, rcNow), RcCap) ELSE rcShard
        /\ rcCounts' = IF said THEN record(rcCounts, s, allowed) ELSE fail(rcCounts, s)
        /\ \/ applied.todo # {} /\ rcGoesOn(g, applied)
           \/ applied.todo = {} /\ applied.left = {} /\ rcReturn(g, applied)
           \/ applied.todo = {} /\ applied.left # {} /\ rcGoesOn(g, [applied EXCEPT !.at = "asking"])
  /\ UNCHANGED <<rcCheckers, rcUnchecked, rcRevoked, rcNow, rcChanges, rcBegun>>
\* Past the deadline, every asked row that is not allowed counts as failed, the
\* ones a source did deny included.
rcOver(page, s) == Cardinality(rcRows(page, s) \cap rcHides(page, s))
RcExpire(g) ==
  /\ rcAsked(g) /\ rcNow >= rcPage[g].deadline
  /\ rcCounts' = [s \in RcSources |-> [rcCounts[s] EXCEPT !.checked = @ + rcOver(rcPage[g], s),
                                                          !.failed = @ + rcOver(rcPage[g], s)]]
  /\ rcReturn(g, rcPage[g])
  /\ UNCHANGED <<rcCheckers, rcUnchecked, rcRevoked, rcShard, rcNow, rcChanges, rcBegun>>
RcDone(g) ==
  /\ rcPage[g].at = "shown"
  /\ rcPage' = [rcPage EXCEPT ![g] = rcIdle]
  /\ UNCHANGED <<rcCheckers, rcUnchecked, rcRevoked, rcShard, rcCounts, rcHidden, rcNow, rcChanges, rcBegun>>

\* A page whose deadline has come is woken before the clock moves on, and one
\* that is looking at its rows waits for nothing.
RcTick ==
  /\ rcNow < RcMaxTime
  /\ \A g \in RcPages : rcPage[g].at \in {"grouping", "asking", "applying"} => rcNow < rcPage[g].deadline
  /\ rcNow' = rcNow + 1
  /\ UNCHANGED <<rcCheckers, rcUnchecked, rcRevoked, rcShard, rcCounts, rcHidden, rcPage, rcChanges, rcBegun>>

RcNext ==
  \/ RcTick
  \/ \E s \in RcSources : RcAdd(s)
  \/ \E p \in RcAskers, id \in RcIds : RcRevoke(p, id)
  \/ \E g \in RcPages :
       \/ RcAllowed(g) \/ RcExpire(g) \/ RcDone(g)
       \/ \E id \in RcIds : RcGroup(g, id) \/ RcApply(g, id)
       \/ \E s \in RcSources : RcLaunch(g, s) \/ \E about \in SUBSET RcIds : RcAnswer(g, s, about)
       \/ rcPage[g].at = "asking" /\ \E r \in rcPage[g].ready : RcReceive(g, r)
RcSpec == RcInit /\ [][RcNext]_rcVars
\* The page's own goroutine runs and time passes while it waits; no checker
\* owes an answer.
RcFairness ==
  WF_rcVars(\/ RcTick /\ \E g \in RcPages : rcPage[g].at = "asking"
            \/ \E g \in RcPages : \/ RcExpire(g) \/ \E s \in RcSources : RcLaunch(g, s)
                                  \/ \E id \in RcIds : RcGroup(g, id) \/ RcApply(g, id))

-----------------------------------------------------------------------------
\* Type invariant: a page asks about rows it has, and only sources it still waits
\* for have an answer ready; the shard keeps to its capacity.
RcTypeOK ==
  /\ rcCheckers \subseteq RcSources /\ rcNow \in 0..RcMaxTime
  /\ Len(rcShard) <= RcCap
  /\ \A g \in RcPages : rcPage[g].at # "idle" =>
       /\ rcPage[g].out \in [RcIds -> BOOLEAN] /\ rcPage[g].ask \subseteq RcIds
       /\ {r.source : r \in rcPage[g].ready} \subseteq rcPage[g].left

\* A row is shown past its revocation at the source for less than the lifetime
\* of an answer and two deadlines (the one the answer was given under and the
\* one of the page it is reused on), whoever asked before, whichever checker
\* was slow and whatever failed.  A source without a checker lets its rows stand,
\* and that answer is reused too, so the source is one that always had its own.
RevocationSeen ==
  \A g \in RcPages : rcPage[g].at = "shown" =>
    \A id \in RcIds :
      LET t == rcRevoked[RcAsker[g], id]
      IN rcPage[g].out[id] /\ sourceOf(id) \notin rcUnchecked /\ t # None
           => rcPage[g].when < t + RcTTL + 2 * RcTimeout

\* No row is hidden without the counters of its source saying so: a source too
\* slow to be asked is seen as one.
NoQuietRefusal ==
  \A s \in RcSources : rcHidden[s] <= rcCounts[s].denied + rcCounts[s].failed

\* A withdrawal at the source is seen within the lifetime of an answer and two
\* deadlines, and whatever is hidden is counted (recheck.go).
RevocationsAreSeen == RcTypeOK /\ RevocationSeen /\ NoQuietRefusal

\* A page comes back though no checker ever answers.
PagesReturn ==
  \A g \in RcPages : []<>(rcPage[g].at = "asking" => rcPage[g].deadline > RcMaxTime)
=============================================================================
