------------------------------- MODULE Slack -------------------------------
(***************************************************************************)
(* One channel of a Slack workspace as the adapter reads it                *)
(* (connector/slacksource): the walk of what changed, back to the reply    *)
(* window; the listing and the read the sweep compares; who may read it.   *)
(*                                                                         *)
(* A message is named by its timestamp, and no two things happen at one.   *)
(* The workspace is external: a cursor of its listings stands for the      *)
(* timestamp it stopped at.  The replies of one thread are read in one     *)
(* step; a walk reads many threads, and everything moves between them.     *)
(***************************************************************************)
EXTENDS Integers, Sequences, SequencesExt, FiniteSets, FiniteSetsExt, Functions

CONSTANTS
  SlPage,      \* how many messages a page holds
  SlWindow,    \* how far back a parent is looked at for late replies
  SlMaxTime,   \* bound on the timestamps
  SlMaxWalks   \* bound on the walks

ASSUME SlAssumption == SlPage \in Nat \ {0} /\ SlWindow \in Nat

VARIABLES
  slNow,     \* the last timestamp given out
  slChan,    \* the channel: its top level messages, by timestamp
  slIdx,     \* the index: the revision filed and the thread it stands for, by timestamp
  slWalk,    \* the walk under way
  slMute     \* threads with a reply edited since they were indexed

slVars == <<slNow, slChan, slIdx, slWalk, slMute>>

slNoWalk == [at |-> "none", n |-> 0]
newest(S) == IF S = {} THEN 0 ELSE Max(S)

SlInit ==
  /\ slNow = 0 /\ slChan = <<>> /\ slIdx = <<>> /\ slMute = {}
  /\ slWalk = slNoWalk

-----------------------------------------------------------------------------
\* The workspace.  A parent knows how many replies it has and when the last
\* one came; neither moves when a reply is edited.
slHappens == slNow < SlMaxTime /\ slNow' = slNow + 1 /\ UNCHANGED <<slIdx, slWalk>>
slThread(edited, replies, noise) == [edited |-> edited, replies |-> replies, noise |-> noise]
slWith(p, th) == [x \in DOMAIN slChan \union {p} |-> IF x = p THEN th ELSE slChan[x]]

SlPost(noise) == slHappens /\ slChan' = slWith(slNow + 1, slThread(0, {}, noise)) /\ UNCHANGED slMute
SlReply(p) == slHappens /\ slChan' = [slChan EXCEPT ![p].replies = @ \union {slNow + 1}] /\ UNCHANGED slMute
SlEdit(p) == slHappens /\ slChan' = [slChan EXCEPT ![p].edited = slNow + 1] /\ UNCHANGED slMute
SlEditReply(p) == slHappens /\ slChan[p].replies # {} /\ slMute' = slMute \union {p} /\ UNCHANGED slChan
SlDeleteReply(p, r) == slHappens /\ slChan' = [slChan EXCEPT ![p].replies = @ \ {r}] /\ UNCHANGED slMute
SlDelete(p) == slHappens /\ slChan' = Restrict(slChan, DOMAIN slChan \ {p}) /\ UNCHANGED slMute

-----------------------------------------------------------------------------
\* What a listing says of a message: its own time, its edit, its last reply
\* and how many there are.
parent(p) == [ts |-> p, edited |-> slChan[p].edited, latest |-> newest(slChan[p].replies), count |-> Cardinality(slChan[p].replies)]

\* top: replies are not listed, and what the channel says of itself is no thread.
slTop(p) == ~slChan[p].noise

changedAt(m) == Max({m.ts, m.edited, m.latest})

\* revision, version: a time and a count, so that a listing and a read agree.
revision(at, count) == <<at, count>>
slVersion(m) == revision(changedAt(m), m.count)

\* replies: the thread a page at a time, the parent first on every page, and
\* the repeats dropped.
dedupe(msgs) == FoldLeft(LAMBDA out, m : IF Contains(out, m) THEN out ELSE Append(out, m), <<>>, msgs)

replies(p) ==
  LET rest == SetToSortSeq(slChan[p].replies, <)
      page(i) == <<p>> \o SubSeq(rest, (i - 1) * SlPage + 1, Min({i * SlPage, Len(rest)}))
      count == IF rest = <<>> THEN 1 ELSE (Len(rest) - 1) \div SlPage + 1
  IN dedupe(FlattenSeq([i \in 1 .. count |-> page(i)]))

\* build: the replies in hand count as well as what the parent says of them.
build(m, rs) ==
  LET at == Max({changedAt(m)} \union Range(rs))
  IN [at |-> at, rev |-> revision(at, Max({m.count, Len(rs)})), edited |-> m.edited, replies |-> ToSet(rs)]

\* Read: one thread, parent and replies.
slRead(p) == build(parent(p), Tail(replies(p)))

\* assemble: a message listed without replies is already whole.
assemble(m) == IF m.count = 0 THEN build(m, <<>>) ELSE slRead(m.ts)

-----------------------------------------------------------------------------
\* oldest: back to the cursor, and to the reply window if that is further.
oldest(since) == IF since = 0 THEN 0 ELSE Min({since, slNow - SlWindow})

\* Threads begins: the history is read from the newest message back.
SlThreads(since) ==
  /\ slWalk.at = "none" /\ slWalk.n < SlMaxWalks
  /\ slWalk' = [at |-> "history", n |-> slWalk.n + 1, since |-> since, oldest |-> oldest(since),
                before |-> slNow + 1, found |-> {}, held |-> slChan, window |-> slNow - SlWindow]
  /\ UNCHANGED <<slNow, slChan, slIdx, slMute>>

\* history: one page, and after the last one the threads that changed, oldest
\* change first.
SlHistory ==
  /\ slWalk.at = "history"
  /\ LET rest == SetToSortSeq({p \in DOMAIN slChan : p < slWalk.before /\ p >= slWalk.oldest}, >)
         page == SubSeq(rest, 1, Min({SlPage, Len(rest)}))
         found == slWalk.found \union {parent(p) : p \in {q \in ToSet(page) : slTop(q)}}
         changed == {m \in found : changedAt(m) >= slWalk.since}
         before(a, b) == changedAt(a) < changedAt(b) \/ (changedAt(a) = changedAt(b) /\ a.ts < b.ts)
     IN slWalk' = IF Len(rest) > SlPage THEN [slWalk EXCEPT !.found = found, !.before = Last(page)]
                  ELSE [at |-> "threads", n |-> slWalk.n, since |-> slWalk.since, window |-> slWalk.window,
                        held |-> slWalk.held, left |-> SetToSortSeq(changed, before), out |-> <<>>]
  /\ UNCHANGED <<slNow, slChan, slIdx, slMute>>

\* The index takes a thread, or loses one.
slFile(p, th) == slIdx' = [x \in DOMAIN slIdx \union {p} |-> IF x = p THEN th ELSE slIdx[x]]

\* One thread is read and handed over.  One deleted since the listing is
\* reported; one listed without replies is not asked for again.
SlHandOver ==
  /\ slWalk.at = "threads" /\ slWalk.left # <<>>
  /\ LET m == Head(slWalk.left)
         on == [slWalk EXCEPT !.left = Tail(@)]
     IN IF m.count > 0 /\ m.ts \notin DOMAIN slChan
        THEN slWalk' = on /\ UNCHANGED <<slIdx, slMute>>
        ELSE LET th == assemble(m)
             IN /\ slFile(m.ts, th)
                /\ slWalk' = [on EXCEPT !.out = [x \in DOMAIN @ \union {m.ts} |-> IF x = m.ts THEN th.at ELSE @[x]]]
                /\ slMute' = slMute \ {m.ts}
  /\ UNCHANGED <<slNow, slChan>>

SlWalked ==
  /\ slWalk.at = "threads" /\ slWalk.left = <<>>
  /\ slWalk' = [slNoWalk EXCEPT !.n = slWalk.n]
  /\ UNCHANGED <<slNow, slChan, slIdx, slMute>>

\* List and Read, as the sweep uses them between walks: a thread whose version
\* differs is read again, one not listed is dropped.
SlSweep ==
  /\ slWalk.at = "none" /\ slWalk.n > 0
  /\ LET live == {p \in DOMAIN slChan : slTop(p)}
         same(p) == p \in DOMAIN slIdx /\ slIdx[p].rev = slVersion(parent(p))
     IN /\ slIdx' = [p \in live |-> IF same(p) THEN slIdx[p] ELSE slRead(p)]
        /\ slMute' = {p \in slMute \intersect live : same(p)}
  /\ UNCHANGED <<slNow, slChan, slWalk>>

SlNext ==
  \/ \E b \in BOOLEAN : SlPost(b)
  \/ \E p \in DOMAIN slChan : SlReply(p) \/ SlEdit(p) \/ SlEditReply(p) \/ SlDelete(p)
  \/ \E p \in DOMAIN slChan : \E r \in slChan[p].replies : SlDeleteReply(p, r)
  \/ \E since \in 0 .. slNow : SlThreads(since)
  \/ SlHistory \/ SlHandOver \/ SlWalked \/ SlSweep

-----------------------------------------------------------------------------
\* A walk hands over every thread of the reply window that had changed since
\* the cursor when the walk began, at least as new as it then was, however the
\* channel moves under it: unless it lost a reply in the meantime (Threads, oldest,
\* changedAt).
WindowCovers ==
  slWalk.at = "threads" /\ slWalk.left = <<>> =>
    \A p \in DOMAIN slWalk.held \intersect DOMAIN slChan :
      LET th == slWalk.held[p]
          at == Max({p, th.edited, newest(th.replies)})
      IN ~th.noise /\ at >= slWalk.since /\ p >= slWalk.window /\ th.replies \subseteq slChan[p].replies =>
           p \in DOMAIN slWalk.out /\ slWalk.out[p] >= at

\* A listing and a read of the same thread agree on its version, so the sweep
\* does not read again what it has (version, revision, build, replies).
VersionsAgree == \A p \in DOMAIN slChan : slTop(p) => slVersion(parent(p)) = slRead(p).rev

\* A thread whose version is the one the index has is the thread the index has,
\* but for a reply that was edited (version).
SameRevisionSameThread ==
  \A p \in DOMAIN slIdx \intersect DOMAIN slChan :
    slTop(p) /\ p \notin slMute /\ slIdx[p].rev = slVersion(parent(p)) =>
      slIdx[p].edited = slChan[p].edited /\ slIdx[p].replies = slChan[p].replies

=============================================================================
