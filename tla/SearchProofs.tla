---------------------------- MODULE SearchProofs ----------------------------
(***************************************************************************)
(* Proofs about what a search answers, for every number of people,         *)
(* documents, sources and requests at once: it shows what its asker may    *)
(* read and finds what was saved, whatever the four layers of its cache    *)
(* kept (Cache, Search); and a row its source withdrew is soon seen to be, *)
(* whoever asked before and whichever source is slow (Recheck).            *)
(***************************************************************************)
EXTENDS Search, Recheck, TLAPS, FiniteSetTheorems, SequenceTheorems

(***************************************************************************)
(* The cache: what a shard holds after each of its operations.             *)
(***************************************************************************)
EntriesOf(ll) == {ll[i] : i \in DOMAIN ll}
IsShard(ll, cap) == ll \in Seq(EntriesOf(ll)) /\ Len(ll) <= cap

LEMMA ShardOf ==
  ASSUME NEW S, NEW ll \in Seq(S), NEW cap, Len(ll) <= cap
  PROVE  IsShard(ll, cap) /\ EntriesOf(ll) \subseteq S
<1>1. ll \in [1..Len(ll) -> S] /\ Len(ll) \in Nat BY LenProperties
<1>2. ll \in [1..Len(ll) -> EntriesOf(ll)] BY <1>1 DEF EntriesOf
<1>3. ll \in Seq(EntriesOf(ll)) BY <1>1, <1>2, SeqDef
<1>4. EntriesOf(ll) \subseteq S BY <1>1 DEF EntriesOf
<1> QED BY <1>3, <1>4 DEF IsShard

LEMMA RemoveWell ==
  ASSUME NEW S, NEW ll \in Seq(S), NEW key
  PROVE  /\ remove(ll, key) \in Seq(S)
         /\ Len(remove(ll, key)) <= Len(ll)
         /\ cached(ll, key) => Len(remove(ll, key)) < Len(ll)
<1>1. Len(ll) \in Nat /\ DOMAIN ll = 1..Len(ll) /\ ll \in [1..Len(ll) -> S] BY LenProperties
<1>2. CASE ~cached(ll, key)
  BY <1>1, <1>2 DEF remove
<1>3. CASE cached(ll, key)
  <2>1. PICK i \in 1..Len(ll) : i = placeIn(ll, key) BY <1>1, <1>3 DEF cached, placeIn
  <2>2. remove(ll, key) = SubSeq(ll, 1, i - 1) \o SubSeq(ll, i + 1, Len(ll)) BY <1>3, <2>1 DEF remove, RemoveAt
  <2>3. /\ SubSeq(ll, 1, i - 1) \in Seq(S)
        /\ Len(SubSeq(ll, 1, i - 1)) = i - 1
    <3>1. \A j \in 1..(i - 1) : ll[j] \in S BY <1>1, <2>1
    <3>2. 1 \in Int /\ i - 1 \in Int /\ (1 <= i - 1 \/ i - 1 = 0) BY <1>1, <2>1
    <3> QED BY <3>1, <3>2, SubSeqProperties
  <2>4. /\ SubSeq(ll, i + 1, Len(ll)) \in Seq(S)
        /\ Len(SubSeq(ll, i + 1, Len(ll))) = Len(ll) - i
    <3>1. \A j \in (i + 1)..Len(ll) : ll[j] \in S BY <1>1, <2>1
    <3>2. i + 1 \in Int /\ Len(ll) \in Int /\ (i + 1 <= Len(ll) \/ Len(ll) = i) BY <1>1, <2>1
    <3> QED BY <3>1, <3>2, SubSeqProperties
  <2>5. PICK a \in Seq(S), b \in Seq(S) : remove(ll, key) = a \o b /\ Len(a) = i - 1 /\ Len(b) = Len(ll) - i
    BY <2>2, <2>3, <2>4
  <2>6. remove(ll, key) \in Seq(S) /\ Len(remove(ll, key)) = Len(a) + Len(b) BY <2>5, ConcatProperties
  <2> QED BY <1>1, <2>1, <2>5, <2>6
<1> QED BY <1>2, <1>3

LEMMA EntryFound ==
  ASSUME NEW S, NEW ll \in Seq(S), NEW key, cached(ll, key)
  PROVE  /\ entryIn(ll, key) \in EntriesOf(ll) /\ entryIn(ll, key) \in S
         /\ entryIn(ll, key).key = key
<1>1. DOMAIN ll = 1..Len(ll) /\ ll \in [1..Len(ll) -> S] BY LenProperties
<1>2. placeIn(ll, key) \in DOMAIN ll /\ ll[placeIn(ll, key)].key = key BY DEF cached, placeIn
<1> QED BY <1>1, <1>2 DEF entryIn, EntriesOf

\* A lookup leaves nothing new.
LEMMA GetWell ==
  ASSUME NEW cap \in Nat, NEW ll, IsShard(ll, cap), NEW key, NEW now
  PROVE  /\ IsShard(get(ll, key, now), cap)
         /\ EntriesOf(get(ll, key, now)) \subseteq EntriesOf(ll)
<1> DEFINE S == EntriesOf(ll)
<1>1. ll \in Seq(S) /\ Len(ll) <= cap /\ Len(ll) \in Nat BY LenProperties DEF IsShard
<1>2. /\ remove(ll, key) \in Seq(S) /\ Len(remove(ll, key)) <= Len(ll) /\ Len(remove(ll, key)) \in Nat
      /\ cached(ll, key) => Len(remove(ll, key)) < Len(ll)
  BY <1>1, RemoveWell, LenProperties
<1>3. get(ll, key, now) \in Seq(S) /\ Len(get(ll, key, now)) <= Len(ll)
  <2>1. CASE live(ll, key, now)
    <3>1. cached(ll, key) BY <2>1 DEF live
    <3>2. entryIn(ll, key) \in S BY <1>1, <3>1, EntryFound
    <3>3. <<entryIn(ll, key)>> \in Seq(S) /\ Len(<<entryIn(ll, key)>>) = 1 BY <3>2
    <3>4. get(ll, key, now) = <<entryIn(ll, key)>> \o remove(ll, key) BY <2>1 DEF get
    <3>5. get(ll, key, now) \in Seq(S) /\ Len(get(ll, key, now)) = 1 + Len(remove(ll, key))
      BY <1>2, <3>3, <3>4, ConcatProperties
    <3> QED BY <1>1, <1>2, <3>1, <3>5
  <2>2. CASE ~live(ll, key, now)
    <3>1. get(ll, key, now) = <<>> \o remove(ll, key) BY <2>2 DEF get
    <3>2. get(ll, key, now) = remove(ll, key) BY <1>2, <3>1, ConcatEmptySeq
    <3> QED BY <1>2, <3>2
  <2> QED BY <2>1, <2>2
<1>4. Len(get(ll, key, now)) <= cap BY <1>1, <1>3, LenProperties
<1> QED BY <1>3, <1>4, ShardOf

\* A store adds one entry, and never more than fit.
LEMMA PutWell ==
  ASSUME NEW cap \in Nat \ {0}, NEW ll, IsShard(ll, cap), NEW key, NEW val, NEW expires
  PROVE  /\ IsShard(put(ll, key, val, expires, cap), cap)
         /\ EntriesOf(put(ll, key, val, expires, cap)) \subseteq EntriesOf(ll) \cup {entry(key, val, expires)}
<1> DEFINE S == EntriesOf(ll) \cup {entry(key, val, expires)}
           new == <<entry(key, val, expires)>> \o remove(ll, key)
<1>1. ll \in Seq(S) /\ Len(ll) <= cap /\ Len(ll) \in Nat
  <2>1. ll \in Seq(EntriesOf(ll)) BY DEF IsShard
  <2>2. ll \in Seq(S) BY <2>1, SeqMonotonic
  <2> QED BY <2>2, LenProperties DEF IsShard
<1>2. remove(ll, key) \in Seq(S) /\ Len(remove(ll, key)) <= Len(ll) /\ Len(remove(ll, key)) \in Nat
  BY <1>1, RemoveWell, LenProperties
<1>3. new \in Seq(S) /\ Len(new) = 1 + Len(remove(ll, key))
  <2>1. <<entry(key, val, expires)>> \in Seq(S) /\ Len(<<entry(key, val, expires)>>) = 1 OBVIOUS
  <2> QED BY <1>2, <2>1, ConcatProperties
<1>4. Len(new) \in Nat /\ Len(new) <= cap + 1 BY <1>1, <1>2, <1>3
<1>5. put(ll, key, val, expires, cap) = IF Len(new) > cap THEN Front(new) ELSE new BY DEF put
<1>6. Front(new) \in Seq(S) /\ (Len(new) > cap => Len(Front(new)) <= cap)
  <2> HIDE DEF new
  <2>1. \A i \in 1..(Len(new) - 1) : new[i] \in S
    <3>1. new \in [1..Len(new) -> S] BY <1>3, LenProperties
    <3> QED BY <1>4, <3>1
  <2>2. 1 \in Int /\ Len(new) - 1 \in Int BY <1>4
  <2>3. /\ SubSeq(new, 1, Len(new) - 1) \in Seq(S)
        /\ Len(SubSeq(new, 1, Len(new) - 1)) = IF 1 <= Len(new) - 1 THEN Len(new) - 1 - 1 + 1 ELSE 0
    BY <2>1, <2>2, SubSeqProperties
  <2> QED BY <1>4, <2>3 DEF Front
<1> HIDE DEF new
<1>7. put(ll, key, val, expires, cap) \in Seq(S) /\ Len(put(ll, key, val, expires, cap)) <= cap
  BY <1>3, <1>4, <1>5, <1>6
<1> QED BY <1>7, ShardOf

-----------------------------------------------------------------------------
(***************************************************************************)
(* Search.  A value kept under a key of the current generation is what the *)
(* driver answers now, or answered before the write being told (IxFresh);  *)
(* one kept under an older key may still be handed to those who asked      *)
(* under it, and suits each of them (IxFits): what it holds was right at   *)
(* some moment since they asked.  A request that has its ordering keeps to *)
(* it (IxGranted), while its history only widens (IxGrown).                *)
(***************************************************************************)
IxOps == {"search", "recent", "filters"}
IxAsked == {"results", "corpus", "shape"}
IxAsking == {"want", "wait", "run", "made"}
IxPaged == {"page", "fetch", "keep", "shown"}

\* The store as it is and as it was before the write being told.
ixWasDocs == IF ixUntold = None THEN ixDocs ELSE [ixDocs EXCEPT ![ixUntold.id] = ixUntold.was]
IxWorld == [docs |-> ixDocs, was |-> ixWasDocs, gen |-> ixGen, blind |-> ixBlind]

IsReq(q) ==
  q = [at |-> q.at, layer |-> q.layer, key |-> q.key, p |-> q.p, op |-> q.op, cands |-> q.cands, count |-> q.count,
       shape |-> q.shape, val |-> q.val, have |-> q.have, left |-> q.left,
       may |-> q.may, must |-> q.must, counts |-> q.counts, versions |-> q.versions]
\* What a request may show, must find and may count covers the store as it is now.
IxStands(q, w) ==
  /\ readable(w.docs, q.p) \subseteq q.may /\ readable(w.was, q.p) \subseteq q.may
  /\ q.must \subseteq readable(w.docs, q.p) /\ q.must \subseteq readable(w.was, q.p)
  /\ stored(w.docs) \in q.counts /\ stored(w.was) \in q.counts
  /\ \A id \in IxIds : versionOf(w.docs, id) \in q.versions[id]
ixKeyAt(g, layer, p, op) ==
  CASE layer = "results" -> <<g, p, op>> [] layer = "corpus" -> <<g>> [] OTHER -> <<p>>
\* Where it can be.
IxPlaced(q, w) ==
  /\ q.at \in IxAsking \cup IxPaged /\ q.p \in IxAskers /\ q.op \in IxOps /\ q.layer \in IxAsked
  /\ q.op = "filters" <=> q.layer = "shape"
  /\ q.layer = "corpus" => q.op = "search"
  /\ q.op = "filters" => q.at \in IxAsking \cup {"shown"}
  /\ q.at \in IxAsking => \E g \in 0..w.gen : q.key = ixKeyAt(g, q.layer, q.p, q.op)
  /\ q.at \in IxAsking => DOMAIN q.have = {} /\ (q.layer # "corpus" => q.cands = {})
  /\ q.at \in IxPaged /\ q.op = "search" => q.layer = "corpus"
  /\ w.blind => q.at \notin {"page", "keep"}
\* The ordering it got, and the bodies it has of it.
IxGranted(q, w) ==
  /\ ~w.blind /\ q.op # "filters" /\ (q.layer = "corpus" \/ q.at \in IxPaged) => q.cands \subseteq q.may /\ q.must \subseteq q.cands
  /\ ~w.blind /\ q.op # "filters" /\ q.at \in {"keep", "shown"} => q.must \subseteq DOMAIN q.have
  /\ q.at \in IxPaged => DOMAIN q.have \subseteq q.cands
  /\ q.at = "page" => q.left \subseteq q.cands
  /\ w.blind /\ q.at = "fetch" => DOMAIN q.have = {}
  /\ w.blind /\ q.at = "shown" => \A id \in DOMAIN q.have : id \in IxIds /\ q.have[id] \in q.versions[id] /\ id \in q.may
\* The numbers, or the shape, it got.
IxAnswered(q) ==
  /\ q.op = "search" /\ q.at \in IxPaged => q.count \in q.counts
  /\ q.op = "filters" /\ q.at = "shown" => q.shape.asker = q.p
IxBelongs(q, w) == IsReq(q) /\ IxStands(q, w) /\ IxPlaced(q, w) /\ IxGranted(q, w) /\ IxAnswered(q)
\* A value that may be given to it where it waits for one.
IxSuits(q, val, w) ==
  /\ q.layer = "results" /\ ~w.blind => val \subseteq q.may /\ q.must \subseteq val
  /\ q.layer = "corpus" => val \in q.counts
  /\ q.layer = "shape" => val.asker = q.p
IxWell(q, w) == IxBelongs(q, w) /\ (q.at = "made" => IxSuits(q, q.val, w))

\* A value under a key of the generation is what the driver answers now, or
\* answered before the write being told.
IxFresh(l, key, val, w) ==
  /\ l = "results" => \E g \in 0..w.gen, p \in IxAskers, op \in IxOps :
       /\ key = <<g, p, op>>
       /\ g = w.gen /\ ~w.blind => val \in {readable(w.docs, p), readable(w.was, p)}
  /\ l = "corpus" => \E g \in 0..w.gen :
       /\ key = <<g>>
       /\ g = w.gen /\ ~w.blind => val \in {stored(w.docs), stored(w.was)}
  /\ l = "shape" => key = <<val.asker>>
\* What is kept under a layer's keys, and what is about to be.
IxHeldIn(l, cache, reqs) ==
  {[key |-> e.key, val |-> e.val] : e \in EntriesOf(cache[l])}
  \cup {[key |-> reqs[r].key, val |-> reqs[r].val] : r \in {q \in IxReaders : reqs[q].at = "made" /\ reqs[q].layer = l}}
IxFits(l, h, reqs, w) ==
  /\ IxFresh(l, h.key, h.val, w)
  /\ \A q \in IxReaders : reqs[q].at \in IxAsking /\ reqs[q].layer = l /\ reqs[q].key = h.key => IxSuits(reqs[q], h.val, w)
IxHeldFits == \A l \in IxAsked : ~ixDirect(l) => \A h \in IxHeldIn(l, ixCache, ixReq) : IxFits(l, h, ixReq, IxWorld)
IxBusy(q) == q.at \in {"run", "made"}
IxFlightHolds ==
  /\ ixFlight = [l \in Layers |-> ixFlight[l]]
  /\ \A l \in Layers : ixFlight[l] =
       {ixReq[r].key : r \in {q \in IxReaders : IxBusy(ixReq[q]) /\ ixReq[q].layer = l /\ ~ixDirect(l)}}
  /\ \A q, r \in IxReaders :
       IxBusy(ixReq[q]) /\ IxBusy(ixReq[r]) /\ ixReq[q].layer = ixReq[r].layer /\ ixReq[q].key = ixReq[r].key
       /\ ~ixDirect(ixReq[q].layer) => q = r
IxStoreHolds ==
  /\ ixDocs \in [IxIds -> IxDocuments \cup {None}]
  /\ ixWrites \in 0..IxMaxWrites /\ ixNow \in 0..IxMaxTime /\ ixBlind \in BOOLEAN
  /\ ixGen \in 0..ixWrites
  /\ ixUntold \in IxTold \cup {None}
  /\ ixUntold # None => ixGen < ixWrites /\ ~ixBlind
IxCacheHolds ==
  /\ ixCache = [l \in Layers |-> ixCache[l]]
  /\ \A l \in Layers : IsShard(ixCache[l], IxCap)
IxReqsHold ==
  /\ ixReq = [r \in IxReaders |-> ixReq[r]]
  /\ \A r \in IxReaders : ixReq[r] = ixIdle \/ IxWell(ixReq[r], IxWorld)
IxInv == IxStoreHolds /\ IxCacheHolds /\ IxReqsHold /\ IxFlightHolds /\ IxHeldFits

-----------------------------------------------------------------------------
\* The same person's request, with the same history.
IxSame(x, q) ==
  x.p = q.p /\ x.op = q.op /\ x.may = q.may /\ x.must = q.must /\ x.counts = q.counts /\ x.versions = q.versions

LEMMA IxStandsSame ==
  ASSUME NEW q, NEW x, NEW w, IxSame(x, q), IxStands(q, w)
  PROVE  IxStands(x, w)
BY DEF IxSame, IxStands

\* A value under a current key suits whoever asks under that key.
LEMMA IxFreshSuits ==
  ASSUME NEW x, NEW w, NEW val, IxStands(x, w), x.layer \in IxAsked, w.gen \in Nat,
         x.key = ixKeyAt(w.gen, x.layer, x.p, x.op), IxFresh(x.layer, x.key, val, w),
         x.layer = "corpus" => ~w.blind
  PROVE  IxSuits(x, val, w)
<1>1. CASE x.layer = "results"
  <2>1. x.key = <<w.gen, x.p, x.op>> BY <1>1 DEF ixKeyAt
  <2>2. ~w.blind => val \in {readable(w.docs, x.p), readable(w.was, x.p)} BY <1>1, <2>1 DEF IxFresh
  <2> QED BY <1>1, <2>2 DEF IxSuits, IxStands
<1>2. CASE x.layer = "corpus"
  <2>1. x.key = <<w.gen>> BY <1>2 DEF ixKeyAt
  <2>2. val \in {stored(w.docs), stored(w.was)} BY <1>2, <2>1 DEF IxFresh
  <2> QED BY <1>2, <2>2 DEF IxSuits, IxStands
<1>3. CASE x.layer = "shape"
  <2>1. x.key = <<x.p>> BY <1>3 DEF ixKeyAt
  <2>2. x.key = <<val.asker>> BY <1>3 DEF IxFresh
  <2>3. x.p = val.asker BY <2>1, <2>2
  <2> QED BY <1>3, <2>3 DEF IxSuits
<1> QED BY <1>1, <1>2, <1>3 DEF IxAsked

LEMMA IxSuitsSame ==
  ASSUME NEW q, NEW x, NEW w, NEW val, IxSame(x, q), x.layer = q.layer, IxSuits(q, val, w)
  PROVE  IxSuits(x, val, w)
BY DEF IxSame, IxSuits

\* What the driver answers now suits, and is fresh.
LEMMA IxAskSuits ==
  ASSUME NEW q, NEW x, IxStands(x, IxWorld), q.layer \in IxAsked, x.layer = q.layer, x.p = q.p
  PROVE  IxSuits(x, ixAsk(q), IxWorld)
<1>1. IxWorld.docs = ixDocs BY DEF IxWorld
<1>2. CASE q.layer = "results" BY <1>1, <1>2 DEF IxSuits, IxStands, ixAsk
<1>3. CASE q.layer = "corpus" BY <1>1, <1>3 DEF IxSuits, IxStands, ixAsk
<1>4. CASE q.layer = "shape"
  <2>1. ixAsk(q) = [count |-> Cardinality(readable(ixDocs, q.p)), asker |-> q.p] BY <1>4 DEF ixAsk
  <2>2. ixAsk(q).asker = q.p BY <2>1
  <2> QED BY <1>4, <2>2 DEF IxSuits
<1> QED BY <1>2, <1>3, <1>4 DEF IxAsked

LEMMA IxAskFresh ==
  ASSUME NEW q, IxPlaced(q, IxWorld), q.at \in IxAsking
  PROVE  IxFresh(q.layer, q.key, ixAsk(q), IxWorld)
<1>1. IxWorld.docs = ixDocs BY DEF IxWorld
<1>2. PICK g \in 0..IxWorld.gen : q.key = ixKeyAt(g, q.layer, q.p, q.op) BY DEF IxPlaced
<1>3. q.layer \in IxAsked /\ q.p \in IxAskers /\ q.op \in IxOps BY DEF IxPlaced
<1>4. CASE q.layer = "results"
  <2>1. q.key = <<g, q.p, q.op>> BY <1>2, <1>4 DEF ixKeyAt
  <2>2. ixAsk(q) = readable(IxWorld.docs, q.p) BY <1>1, <1>4 DEF ixAsk
  <2> QED BY <1>3, <1>4, <2>1, <2>2 DEF IxFresh
<1>5. CASE q.layer = "corpus"
  <2>1. q.key = <<g>> BY <1>2, <1>5 DEF ixKeyAt
  <2>2. ixAsk(q) = stored(IxWorld.docs) BY <1>1, <1>5 DEF ixAsk
  <2> QED BY <1>3, <1>5, <2>1, <2>2 DEF IxFresh
<1>6. CASE q.layer = "shape"
  <2>1. q.key = <<q.p>> BY <1>2, <1>6 DEF ixKeyAt
  <2>2. ixAsk(q) = [count |-> Cardinality(readable(ixDocs, q.p)), asker |-> q.p] BY <1>6 DEF ixAsk
  <2>3. ixAsk(q).asker = q.p BY <2>2
  <2> QED BY <1>3, <1>6, <2>1, <2>3 DEF IxFresh
<1> QED BY <1>3, <1>4, <1>5, <1>6 DEF IxAsked

\* A request with its ordering, and its numbers, comes to its page.
LEMMA IxToPage ==
  ASSUME NEW y, NEW w, NEW x, IsReq(y), IxStands(y, w), w.blind = ixBlind, ixBlind \in BOOLEAN,
         y.p \in IxAskers, y.op \in {"search", "recent"}, y.layer = IF y.op = "search" THEN "corpus" ELSE "results",
         DOMAIN y.have = {}, ~w.blind => y.cands \subseteq y.may /\ y.must \subseteq y.cands,
         y.op = "search" => y.count \in y.counts,
         x = IF y.cands = {} THEN ixShown(y) ELSE ixPage(y)
  PROVE  IxWell(x, w) /\ IxSame(x, y) /\ x.at \in IxPaged
<1>1. /\ IsReq(x) /\ IxSame(x, y) /\ x.layer = y.layer /\ x.cands = y.cands /\ x.have = y.have /\ x.count = y.count
      /\ \/ x.at = "shown" /\ y.cands = {}
         \/ x.at = "page" /\ ~w.blind /\ x.left = y.cands
         \/ x.at = "fetch"
  <2>1. CASE y.cands = {}
    <3>1. x = [y EXCEPT !.at = "shown"] BY <2>1 DEF ixShown
    <3> QED BY <2>1, <3>1 DEF IsReq, IxSame
  <2>2. CASE y.cands # {} /\ ixBlind
    <3>1. x = [y EXCEPT !.at = "fetch"] BY <2>2 DEF ixPage, ixKeepsDocs
    <3> QED BY <3>1 DEF IsReq, IxSame
  <2>3. CASE y.cands # {} /\ ~ixBlind
    <3>1. x = [y EXCEPT !.at = "page", !.left = y.cands] BY <2>3 DEF ixPage, ixKeepsDocs, IsReq
    <3> QED BY <2>3, <3>1 DEF IsReq, IxSame
  <2> QED BY <2>1, <2>2, <2>3
<1>2. x.at \in IxPaged BY <1>1 DEF IxPaged
<1>3. IxStands(x, w) BY <1>1, IxStandsSame
<1>4. IxPlaced(x, w) BY <1>1 DEF IxPlaced, IxSame, IxAsking, IxPaged, IxAsked, IxOps
<1>5. IxGranted(x, w) BY <1>1 DEF IxGranted, IxSame
<1>6. IxAnswered(x) BY <1>1 DEF IxAnswered, IxSame
<1> QED BY <1>1, <1>2, <1>3, <1>4, <1>5, <1>6 DEF IxWell, IxBelongs

\* A request given the value it waited for goes on to the numbers, to its page or to
\* its answer.
LEMMA IxGoesOn ==
  ASSUME NEW q, NEW val, NEW w, IxBelongs(q, w), q.at \in IxAsking, IxSuits(q, val, w),
         w.gen = ixGen, w.blind = ixBlind, ixGen \in Nat, ixBlind \in BOOLEAN
  PROVE  LET x == ixOnward(q, val) IN
         /\ IxWell(x, w) /\ IxSame(x, q) /\ x.at \in {"want"} \cup IxPaged
         /\ x.at = "want" => x.layer = "corpus" /\ x.key = ixKeyAt(w.gen, x.layer, x.p, x.op)
<1> DEFINE x == ixOnward(q, val)
<1>1. IsReq(q) /\ IxStands(q, w) /\ IxPlaced(q, w) /\ IxGranted(q, w) /\ IxAnswered(q) BY DEF IxBelongs
<1>2. q.layer \in IxAsked /\ q.p \in IxAskers /\ q.op \in IxOps /\ DOMAIN q.have = {} BY <1>1 DEF IxPlaced
<1>3. 0..w.gen # {} /\ w.gen \in 0..w.gen OBVIOUS
<1> SUFFICES /\ IxWell(x, w) /\ IxSame(x, q) /\ x.at \in {"want"} \cup IxPaged
             /\ x.at = "want" => x.layer = "corpus" /\ x.key = ixKeyAt(w.gen, x.layer, x.p, x.op)
    OBVIOUS
<1>4. CASE q.layer = "results" /\ q.op = "search"
  <2>1. x = [q EXCEPT !.at = "want", !.layer = "corpus", !.key = <<ixGen>>, !.cands = val]
    BY <1>1, <1>4 DEF ixOnward, ixWants, ixKey, IsReq
  <2>2. /\ IsReq(x) /\ IxSame(x, q) /\ x.at = "want" /\ x.layer = "corpus" /\ x.key = <<w.gen>>
        /\ x.cands = val /\ x.have = q.have
    BY <1>1, <2>1 DEF IsReq, IxSame
  <2> HIDE DEF x
  <2>3. IxStands(x, w) BY <1>1, <2>2, IxStandsSame
  <2>4. x.key = ixKeyAt(w.gen, x.layer, x.p, x.op) BY <2>2 DEF ixKeyAt
  <2>5. IxPlaced(x, w) BY <1>2, <1>3, <1>4, <2>2, <2>4 DEF IxPlaced, IxAsking, IxPaged, IxAsked, IxSame
  <2>6. IxGranted(x, w) BY <1>4, <2>2 DEF IxGranted, IxSuits, IxSame, IxPaged
  <2>7. IxAnswered(x) BY <2>2 DEF IxAnswered, IxPaged
  <2> QED BY <2>2, <2>3, <2>4, <2>5, <2>6, <2>7 DEF IxWell, IxBelongs
<1>5. CASE q.layer = "results" /\ q.op # "search"
  <2>0. q.op = "recent" BY <1>1, <1>2, <1>5 DEF IxOps, IxPlaced
  <2>1. PICK y : y = [q EXCEPT !.cands = val] OBVIOUS
  <2>2. /\ IsReq(y) /\ IxSame(y, q) /\ y.layer = q.layer /\ y.cands = val /\ y.have = q.have
        /\ (val = {} => y = q)
    BY <1>1, <1>2, <1>5, <2>1 DEF IsReq, IxSame, IxPlaced
  <2>3. x = IF y.cands = {} THEN ixShown(y) ELSE ixPage(y) BY <1>5, <2>1, <2>2 DEF ixOnward
  <2> HIDE DEF x
  <2>4. IxStands(y, w) BY <1>1, <2>2, IxStandsSame
  <2>5. ~w.blind => y.cands \subseteq y.may /\ y.must \subseteq y.cands BY <1>5, <2>2 DEF IxSuits, IxSame
  <2>6. y.p \in IxAskers /\ y.op = "recent" /\ y.layer = "results" /\ DOMAIN y.have = {} BY <1>2, <1>5, <2>0, <2>2 DEF IxSame
  <2>7. IxWell(x, w) /\ IxSame(x, y) /\ x.at \in IxPaged BY <2>2, <2>3, <2>4, <2>5, <2>6, IxToPage
  <2> QED BY <2>2, <2>7 DEF IxSame, IxPaged
<1>6. CASE q.layer = "corpus"
  <2>0. q.op = "search" BY <1>1, <1>6 DEF IxPlaced
  <2>1. PICK y : y = [q EXCEPT !.count = val] OBVIOUS
  <2>2. /\ IsReq(y) /\ IxSame(y, q) /\ y.layer = q.layer /\ y.cands = q.cands /\ y.have = q.have /\ y.count = val
    BY <1>1, <2>1 DEF IsReq, IxSame
  <2>3. x = IF y.cands = {} THEN ixShown(y) ELSE ixPage(y) BY <1>6, <2>1, <2>2 DEF ixOnward
  <2> HIDE DEF x
  <2>4. IxStands(y, w) BY <1>1, <2>2, IxStandsSame
  <2>5. ~w.blind => y.cands \subseteq y.may /\ y.must \subseteq y.cands BY <1>1, <1>6, <2>0, <2>2 DEF IxGranted, IxSame
  <2>6. y.p \in IxAskers /\ y.op = "search" /\ y.layer = "corpus" /\ DOMAIN y.have = {} /\ y.count \in y.counts
    BY <1>2, <1>6, <2>0, <2>2 DEF IxSame, IxSuits
  <2>7. IxWell(x, w) /\ IxSame(x, y) /\ x.at \in IxPaged BY <2>2, <2>3, <2>4, <2>5, <2>6, IxToPage
  <2> QED BY <2>2, <2>7 DEF IxSame, IxPaged
<1>7. CASE q.layer = "shape"
  <2>0. q.op = "filters" /\ q.cands = {} BY <1>1, <1>7 DEF IxPlaced
  <2>1. x = [q EXCEPT !.at = "shown", !.shape = val] BY <1>1, <1>7 DEF ixOnward, ixShown, IsReq
  <2>2. /\ IsReq(x) /\ IxSame(x, q) /\ x.at = "shown" /\ x.layer = q.layer /\ x.shape = val /\ x.have = q.have
    BY <1>1, <2>1 DEF IsReq, IxSame
  <2> HIDE DEF x
  <2>3. IxStands(x, w) BY <1>1, <2>2, IxStandsSame
  <2>4. IxPlaced(x, w) BY <1>2, <1>7, <2>0, <2>2 DEF IxPlaced, IxAsking, IxPaged, IxAsked, IxSame
  <2>5. IxGranted(x, w) BY <1>2, <2>0, <2>2 DEF IxGranted, IxSame
  <2>6. IxAnswered(x) BY <1>7, <2>0, <2>2 DEF IxAnswered, IxSuits, IxSame
  <2> QED BY <2>2, <2>3, <2>4, <2>5, <2>6 DEF IxWell, IxBelongs, IxPaged
<1> QED BY <1>2, <1>4, <1>5, <1>6, <1>7 DEF IxAsked

-----------------------------------------------------------------------------
\* One request changes and the others stay.
IxBecomes(reqs, r, x, after) ==
  /\ reqs = [q \in IxReaders |-> reqs[q]] /\ after = [q \in IxReaders |-> after[q]]
  /\ \A q \in IxReaders : after[q] = IF q = r THEN x ELSE reqs[q]
\* What it asks for next is under a current key, or what it asked for already.
IxAsksOn(x, q, w) ==
  x.at \in IxAsking =>
    /\ x.layer \in IxAsked /\ IxStands(x, w)
    /\ \/ x.key = ixKeyAt(w.gen, x.layer, x.p, x.op)
       \/ q.at \in IxAsking /\ x.key = q.key /\ x.layer = q.layer /\ IxSame(x, q)

LEMMA IxStillFits ==
  ASSUME NEW reqs, NEW after, NEW w, NEW l \in IxAsked, NEW h, IxFits(l, h, reqs, w),
         \A q \in IxReaders : after[q] = reqs[q] \/ IxAsksOn(after[q], reqs[q], w),
         w.gen \in Nat, l = "corpus" => ~w.blind
  PROVE  IxFits(l, h, after, w)
<1> SUFFICES ASSUME NEW q \in IxReaders, after[q].at \in IxAsking, after[q].layer = l, after[q].key = h.key
             PROVE  IxSuits(after[q], h.val, w)
    BY DEF IxFits
<1>1. CASE after[q] = reqs[q] BY <1>1 DEF IxFits
<1>2. CASE IxAsksOn(after[q], reqs[q], w)
  <2>1. PICK x : x = after[q] OBVIOUS
  <2>2. x.layer \in IxAsked /\ IxStands(x, w) BY <1>2, <2>1 DEF IxAsksOn
  <2>3. CASE x.key = ixKeyAt(w.gen, x.layer, x.p, x.op)
    <3>1. IxFresh(x.layer, x.key, h.val, w) BY <2>1 DEF IxFits
    <3> QED BY <2>1, <2>2, <2>3, <3>1, IxFreshSuits
  <2>4. CASE reqs[q].at \in IxAsking /\ x.key = reqs[q].key /\ x.layer = reqs[q].layer /\ IxSame(x, reqs[q])
    <3>1. IxSuits(reqs[q], h.val, w) BY <2>1, <2>4 DEF IxFits
    <3> QED BY <2>1, <2>4, <3>1, IxSuitsSame
  <2> QED BY <1>2, <2>1, <2>3, <2>4 DEF IxAsksOn
<1> QED BY <1>1, <1>2

\* The store, the generation and the write being told stay.
IxWorldStays == ixDocs' = ixDocs /\ ixGen' = ixGen /\ ixUntold' = ixUntold /\ ixBlind' = ixBlind /\ ixWrites' = ixWrites

LEMMA IxSameWorld ==
  ASSUME IxWorldStays
  PROVE  IxWorld' = IxWorld /\ (\A l : ixDirect(l)' = ixDirect(l))
BY DEF IxWorldStays, IxWorld, ixWasDocs, ixDirect, ixTTL

LEMMA IxWorldIs ==
  ASSUME IxInv
  PROVE  /\ IxWorld.docs = ixDocs /\ IxWorld.was = ixWasDocs /\ IxWorld.gen = ixGen /\ IxWorld.blind = ixBlind
         /\ ixGen \in Nat /\ ixBlind \in BOOLEAN /\ IxWorld.gen \in Nat
         /\ \A l : l = "corpus" /\ ~ixDirect(l) => ~IxWorld.blind
BY IxAssumption DEF IxInv, IxWorld, IxStoreHolds, IxAssumption, ixDirect

\* Requests move, without a new value for anybody.
LEMMA IxRequestsMove ==
  ASSUME IxInv, ixReq' = [q \in IxReaders |-> ixReq'[q]], IxWorld' = IxWorld, ixBlind' = ixBlind,
         IxStoreHolds', IxCacheHolds', IxFlightHolds',
         \A l \in IxAsked : ~ixDirect(l) => IxHeldIn(l, ixCache', ixReq') \subseteq IxHeldIn(l, ixCache, ixReq),
         \A q \in IxReaders : \/ ixReq'[q] = ixReq[q]
                              \/ /\ ixReq'[q] = ixIdle \/ IxWell(ixReq'[q], IxWorld)
                                 /\ IxAsksOn(ixReq'[q], ixReq[q], IxWorld)
  PROVE  IxInv'
<1>1. \A l : ixDirect(l)' = ixDirect(l) BY DEF ixDirect, ixTTL
<1>2. IxReqsHold'
  <2>1. \A q \in IxReaders : ixReq'[q] = ixIdle \/ IxWell(ixReq'[q], IxWorld) BY DEF IxInv, IxReqsHold
  <2> QED BY <2>1 DEF IxReqsHold
<1>3. IxHeldFits'
  <2> SUFFICES ASSUME NEW l \in IxAsked, ~ixDirect(l)', NEW h \in IxHeldIn(l, ixCache', ixReq')
               PROVE  IxFits(l, h, ixReq', IxWorld)
      BY DEF IxHeldFits
  <2>1. ~ixDirect(l) BY <1>1
  <2>2. h \in IxHeldIn(l, ixCache, ixReq) BY <2>1
  <2>3. IxFits(l, h, ixReq, IxWorld) BY <2>1, <2>2 DEF IxInv, IxHeldFits
  <2>4. IxWorld.gen \in Nat /\ (l = "corpus" => ~IxWorld.blind) BY <2>1, IxWorldIs
  <2>5. \A q \in IxReaders : ixReq'[q] = ixReq[q] \/ IxAsksOn(ixReq'[q], ixReq[q], IxWorld) OBVIOUS
  <2> QED BY <2>3, <2>4, <2>5, IxStillFits
<1> QED BY <1>2, <1>3 DEF IxInv

\* One of them, whatever is dropped from the cache.
LEMMA IxRequestMoves ==
  ASSUME IxInv, NEW r \in IxReaders, NEW x, IxBecomes(ixReq, r, x, ixReq'), IxWorldStays, ixNow' = ixNow,
         IxCacheHolds', \A l \in IxAsked : EntriesOf(ixCache'[l]) \subseteq EntriesOf(ixCache[l]),
         x = ixIdle \/ (IxWell(x, IxWorld) /\ x.at # "made"), IxAsksOn(x, ixReq[r], IxWorld), IxFlightHolds'
  PROVE  IxInv'
<1>1. IxWorld' = IxWorld /\ ixBlind' = ixBlind BY IxSameWorld DEF IxWorldStays
<1>2. IxStoreHolds' BY DEF IxInv, IxStoreHolds, IxWorldStays
<1>3. ixReq' = [q \in IxReaders |-> ixReq'[q]] BY DEF IxBecomes
<1>4. \A q \in IxReaders : \/ ixReq'[q] = ixReq[q]
                           \/ /\ ixReq'[q] = ixIdle \/ IxWell(ixReq'[q], IxWorld)
                              /\ IxAsksOn(ixReq'[q], ixReq[q], IxWorld)
  BY DEF IxBecomes
<1>5. ASSUME NEW l \in IxAsked PROVE IxHeldIn(l, ixCache', ixReq') \subseteq IxHeldIn(l, ixCache, ixReq)
  <2> SUFFICES ASSUME NEW h \in IxHeldIn(l, ixCache', ixReq') PROVE h \in IxHeldIn(l, ixCache, ixReq) OBVIOUS
  <2>1. x.at # "made" BY DEF ixIdle
  <2>2. CASE \E e \in EntriesOf(ixCache'[l]) : h = [key |-> e.key, val |-> e.val] BY <2>2 DEF IxHeldIn
  <2>3. CASE \E q \in IxReaders : ixReq'[q].at = "made" /\ ixReq'[q].layer = l /\ h = [key |-> ixReq'[q].key, val |-> ixReq'[q].val]
    <3>1. PICK q \in IxReaders : ixReq'[q].at = "made" /\ ixReq'[q].layer = l /\ h = [key |-> ixReq'[q].key, val |-> ixReq'[q].val]
      BY <2>3
    <3>2. ixReq'[q] = ixReq[q] BY <2>1, <3>1 DEF IxBecomes
    <3> QED BY <3>1, <3>2 DEF IxHeldIn
  <2> QED BY <2>2, <2>3 DEF IxHeldIn
<1> QED BY <1>1, <1>2, <1>3, <1>4, <1>5, IxRequestsMove

LEMMA IxBecame ==
  ASSUME IxInv, NEW r \in IxReaders, NEW x, ixReq' = [ixReq EXCEPT ![r] = x]
  PROVE  IxBecomes(ixReq, r, x, ixReq')
<1>1. ixReq = [q \in IxReaders |-> ixReq[q]] BY DEF IxInv, IxReqsHold
<1>2. ixReq' = [q \in IxReaders |-> IF q = r THEN x ELSE ixReq[q]] BY <1>1
<1> QED BY <1>1, <1>2 DEF IxBecomes

\* Whoever produces a value goes on producing it, and nobody else begins.
LEMMA IxFlightSame ==
  ASSUME IxInv, ixBlind' = ixBlind, ixFlight' = ixFlight,
         \A q \in IxReaders : IxBusy(ixReq'[q]) <=> IxBusy(ixReq[q]),
         \A q \in IxReaders : IxBusy(ixReq[q]) => ixReq'[q].layer = ixReq[q].layer /\ ixReq'[q].key = ixReq[q].key
  PROVE  IxFlightHolds'
<1>1. \A l : ixDirect(l)' = ixDirect(l) BY DEF ixDirect, ixTTL
<1>2. IxFlightHolds BY DEF IxInv
<1>3. ixFlight' = [l \in Layers |-> ixFlight'[l]] BY <1>2 DEF IxFlightHolds
<1>4. ASSUME NEW l \in Layers
      PROVE  ixFlight'[l] = {ixReq'[q].key : q \in {z \in IxReaders : IxBusy(ixReq'[z]) /\ ixReq'[z].layer = l /\ ~ixDirect(l)'}}
  <2>1. ixFlight[l] = {ixReq[q].key : q \in {z \in IxReaders : IxBusy(ixReq[z]) /\ ixReq[z].layer = l /\ ~ixDirect(l)}}
    BY <1>2 DEF IxFlightHolds
  <2>2. {z \in IxReaders : IxBusy(ixReq'[z]) /\ ixReq'[z].layer = l /\ ~ixDirect(l)'}
        = {z \in IxReaders : IxBusy(ixReq[z]) /\ ixReq[z].layer = l /\ ~ixDirect(l)}
    BY <1>1
  <2>3. \A q \in {z \in IxReaders : IxBusy(ixReq[z]) /\ ixReq[z].layer = l /\ ~ixDirect(l)} : ixReq'[q].key = ixReq[q].key
    OBVIOUS
  <2> QED BY <2>1, <2>2, <2>3
<1>5. \A q, z \in IxReaders :
        IxBusy(ixReq'[q]) /\ IxBusy(ixReq'[z]) /\ ixReq'[q].layer = ixReq'[z].layer /\ ixReq'[q].key = ixReq'[z].key
        /\ ~ixDirect(ixReq[q].layer)' => q = z
  <2> SUFFICES ASSUME NEW q \in IxReaders, NEW z \in IxReaders, IxBusy(ixReq'[q]), IxBusy(ixReq'[z]),
                      ixReq'[q].layer = ixReq'[z].layer, ixReq'[q].key = ixReq'[z].key, ~ixDirect(ixReq[q].layer)'
               PROVE  q = z
      OBVIOUS
  <2>1. /\ IxBusy(ixReq[q]) /\ ixReq'[q].layer = ixReq[q].layer /\ ixReq'[q].key = ixReq[q].key
        /\ IxBusy(ixReq[z]) /\ ixReq'[z].layer = ixReq[z].layer /\ ixReq'[z].key = ixReq[z].key
    OBVIOUS
  <2>2. PICK l : l = ixReq'[q].layer OBVIOUS
  <2>3. ~ixDirect(l)' BY <2>2 DEF ixDirect, ixTTL
  <2>4. ~ixDirect(l) BY <1>1, <2>3
  <2> QED BY <1>2, <2>1, <2>2, <2>4 DEF IxFlightHolds
<1> QED BY <1>3, <1>4, <1>5 DEF IxFlightHolds

LEMMA IxFlightStays ==
  ASSUME IxInv, NEW r \in IxReaders, NEW x, IxBecomes(ixReq, r, x, ixReq'), IxWorldStays,
         ~IxBusy(x), ~IxBusy(ixReq[r]), ixFlight' = ixFlight
  PROVE  IxFlightHolds'
<1>1. \A q \in IxReaders : (IxBusy(ixReq'[q]) <=> IxBusy(ixReq[q])) /\ (IxBusy(ixReq[q]) => ixReq'[q] = ixReq[q])
  BY DEF IxBecomes
<1> QED BY <1>1, IxFlightSame DEF IxWorldStays

LEMMA IxThere ==
  ASSUME IxInv, NEW r \in IxReaders, ixReq[r].at # "idle"
  PROVE  IxWell(ixReq[r], IxWorld)
BY DEF IxInv, IxReqsHold, ixIdle

LEMMA IxDoneKeeps ==
  ASSUME IxInv, NEW r \in IxReaders, IxDone(r)
  PROVE  IxInv'
<1>1. /\ ixReq[r].at = "shown" /\ ixReq' = [ixReq EXCEPT ![r] = ixIdle]
      /\ UNCHANGED <<ixDocs, ixGen, ixUntold, ixCache, ixFlight, ixBlind, ixNow, ixWrites, ixBegun>> BY DEF IxDone
<1>2. IxBecomes(ixReq, r, ixIdle, ixReq') BY <1>1, IxBecame
<1>3. IxWorldStays BY <1>1 DEF IxWorldStays
<1>4. IxCacheHolds' BY <1>1 DEF IxInv, IxCacheHolds
<1>5. ~IxBusy(ixIdle) /\ ~IxBusy(ixReq[r]) BY <1>1 DEF IxBusy, ixIdle
<1>6. IxFlightHolds' BY <1>1, <1>2, <1>3, <1>5, IxFlightStays
<1>7. IxAsksOn(ixIdle, ixReq[r], IxWorld) BY DEF IxAsksOn, IxAsking, ixIdle
<1> QED BY <1>1, <1>2, <1>3, <1>4, <1>6, <1>7, IxRequestMoves

\* What a page is given meanwhile may go in any layer but the document's own.
LEMMA IxReadKeeps ==
  ASSUME IxInv, NEW r \in IxReaders, IxRead(r)
  PROVE  IxInv'
<1> DEFINE q == ixReq[r]
           ids == (q.cands \ DOMAIN q.have) \cap readable(ixDocs, q.p)
           keeps == IF ixKeepsDocs THEN ids ELSE {}
           have == [id \in DOMAIN q.have \cup ids |-> IF id \in ids THEN ixDocs[id].ver ELSE q.have[id]]
           at == IF keeps = {} THEN "shown" ELSE "keep"
<1>1. /\ q.at = "fetch" /\ UNCHANGED <<ixDocs, ixGen, ixUntold, ixCache, ixFlight, ixBlind, ixNow, ixWrites, ixBegun>>
      /\ ixReq' = [ixReq EXCEPT ![r] = [q EXCEPT !.have = have, !.left = keeps, !.at = at]]
  BY DEF IxRead
<1>2. PICK x : x = [q EXCEPT !.have = have, !.left = keeps, !.at = at] OBVIOUS
<1>3. IxBecomes(ixReq, r, x, ixReq') BY <1>1, <1>2, IxBecame
<1>4. IxWell(q, IxWorld) BY <1>1, IxThere
<1>5. IsReq(q) /\ IxStands(q, IxWorld) /\ IxPlaced(q, IxWorld) /\ IxGranted(q, IxWorld) /\ IxAnswered(q)
  BY <1>4 DEF IxWell, IxBelongs
<1>6. IsReq(x) /\ IxSame(x, q) /\ x.at = at /\ x.layer = q.layer /\ x.have = have /\ x.cands = q.cands /\ x.count = q.count
  BY <1>2, <1>5 DEF IsReq, IxSame
<1>7. DOMAIN have = DOMAIN q.have \cup ids /\ (\A id \in ids : have[id] = ixDocs[id].ver) OBVIOUS
<1>8. at \in {"keep", "shown"} /\ (ixBlind => at = "shown") BY DEF ixKeepsDocs
<1>9. IxWorld.docs = ixDocs /\ IxWorld.blind = ixBlind /\ ixBlind \in BOOLEAN BY IxWorldIs
<1>10. ids \subseteq q.cands /\ ids \subseteq readable(ixDocs, q.p) /\ q.must \subseteq readable(ixDocs, q.p)
       /\ readable(ixDocs, q.p) \subseteq q.may
  BY <1>5, <1>9 DEF IxStands
<1>11. \A id \in ids : id \in IxIds /\ ixDocs[id].ver \in q.versions[id]
  <2>1. \A id \in ids : id \in IxIds /\ ixDocs[id] # None BY <1>10 DEF readable
  <2>2. \A id \in IxIds : versionOf(ixDocs, id) \in q.versions[id] BY <1>5, <1>9 DEF IxStands
  <2> QED BY <2>1, <2>2 DEF versionOf
<1>12. ~ixBlind => q.must \subseteq DOMAIN q.have \cup ids
  <2>1. q.op # "filters" BY <1>1, <1>5 DEF IxPlaced, IxAsking
  <2>2. ~ixBlind => q.must \subseteq q.cands BY <1>1, <1>5, <1>9, <2>1 DEF IxGranted, IxPaged
  <2> QED BY <1>10, <2>2
<1>13. /\ DOMAIN q.have \subseteq q.cands /\ (ixBlind => DOMAIN q.have = {})
       /\ (~ixBlind /\ q.op # "filters" => q.cands \subseteq q.may /\ q.must \subseteq q.cands)
       /\ (q.op = "search" => q.count \in q.counts) /\ q.op # "filters"
  BY <1>1, <1>5, <1>9 DEF IxGranted, IxPlaced, IxAnswered, IxPaged, IxAsking
<1> HIDE DEF q, ids, keeps, have, at
<1>14. IxGranted(x, IxWorld) BY <1>6, <1>7, <1>8, <1>9, <1>10, <1>11, <1>12, <1>13 DEF IxGranted, IxSame
<1>15. IxPlaced(x, IxWorld)
  BY <1>1, <1>5, <1>6, <1>8, <1>9, <1>13 DEF IxPlaced, IxSame, IxAsking, IxPaged
<1>16. IxAnswered(x) BY <1>6, <1>13 DEF IxAnswered, IxSame
<1>17. IxStands(x, IxWorld) BY <1>5, <1>6, IxStandsSame
<1>18. x.at \notin IxAsking /\ ~IxBusy(x) /\ x.at # "made" BY <1>6, <1>8 DEF IxAsking, IxBusy
<1>19. IxWell(x, IxWorld) BY <1>6, <1>14, <1>15, <1>16, <1>17, <1>18 DEF IxWell, IxBelongs
<1>20. IxWorldStays /\ ixNow' = ixNow /\ ixCache' = ixCache /\ ixFlight' = ixFlight BY <1>1 DEF IxWorldStays
<1>21. IxCacheHolds' BY <1>20 DEF IxInv, IxCacheHolds
<1>22. IxFlightHolds'
  <2>1. ~IxBusy(ixReq[r]) BY <1>1 DEF q, IxBusy
  <2> QED BY <1>3, <1>18, <1>20, <2>1, IxFlightStays
<1>23. IxAsksOn(x, ixReq[r], IxWorld) BY <1>18 DEF IxAsksOn
<1> QED BY <1>3, <1>18, <1>19, <1>20, <1>21, <1>22, <1>23, IxRequestMoves

\* Any layer is a shard, and stays one.
LEMMA IxShards ==
  ASSUME IxInv, NEW l \in Layers
  PROVE  IsShard(ixCache[l], IxCap) /\ IxCap \in Nat \ {0}
BY IxAssumption DEF IxInv, IxCacheHolds, IxAssumption

LEMMA IxCacheEdit ==
  ASSUME IxInv, NEW l \in Layers, NEW ll, IsShard(ll, IxCap), ixCache' = [ixCache EXCEPT ![l] = ll]
  PROVE  /\ IxCacheHolds' /\ ixCache'[l] = ll
         /\ \A k \in Layers : k # l => ixCache'[k] = ixCache[k]
<1>1. ixCache = [k \in Layers |-> ixCache[k]] /\ \A k \in Layers : IsShard(ixCache[k], IxCap) BY DEF IxInv, IxCacheHolds
<1>2. ixCache' = [k \in Layers |-> IF k = l THEN ll ELSE ixCache[k]] BY <1>1
<1>3. \A k \in Layers : IsShard(ixCache'[k], IxCap) BY <1>1, <1>2
<1> QED BY <1>2, <1>3 DEF IxCacheHolds

LEMMA IxPutDocumentKeeps ==
  ASSUME IxInv, NEW r \in IxReaders, NEW id, IxPutDocument(r, id)
  PROVE  IxInv'
<1> DEFINE q == ixReq[r]
           left == q.left \ {id}
           at == IF left = {} THEN "shown" ELSE "keep"
           ll == put(ixCache["docs"], id, q.have[id], Never, IxCap)
<1>1. /\ q.at = "keep" /\ UNCHANGED <<ixDocs, ixGen, ixUntold, ixFlight, ixBlind, ixNow, ixWrites, ixBegun>>
      /\ ixReq' = [ixReq EXCEPT ![r].left = left, ![r].at = IF left = {} THEN "shown" ELSE @]
      /\ ixCache' = [ixCache EXCEPT !["docs"] = ll]
  BY DEF IxPutDocument
<1>2. IxWell(q, IxWorld) BY <1>1, IxThere
<1>3. IsReq(q) /\ IxStands(q, IxWorld) /\ IxPlaced(q, IxWorld) /\ IxGranted(q, IxWorld) /\ IxAnswered(q)
  BY <1>2 DEF IxWell, IxBelongs
<1>4. PICK x : x = [q EXCEPT !.left = left, !.at = at] OBVIOUS
<1>5. ixReq' = [ixReq EXCEPT ![r] = x]
  <2>1. ixReq = [z \in IxReaders |-> ixReq[z]] BY DEF IxInv, IxReqsHold
  <2> QED BY <1>1, <1>3, <1>4, <2>1 DEF IsReq
<1>6. IxBecomes(ixReq, r, x, ixReq') BY <1>5, IxBecame
<1>7. IsReq(x) /\ IxSame(x, q) /\ x.at = at /\ x.layer = q.layer /\ x.have = q.have /\ x.cands = q.cands /\ x.count = q.count
  BY <1>3, <1>4 DEF IsReq, IxSame
<1>8. IsShard(ll, IxCap) BY IxShards, PutWell DEF Layers
<1>9. IxCacheHolds' /\ \A k \in Layers : k # "docs" => ixCache'[k] = ixCache[k] BY <1>1, <1>8, IxCacheEdit DEF Layers
<1>10. at \in {"keep", "shown"} OBVIOUS
<1> HIDE DEF q, left, at, ll
<1>11. IxGranted(x, IxWorld)
  <2>1. ~IxWorld.blind
    <3>1. IxWorld.blind => q.at # "keep" BY <1>3 DEF IxPlaced
    <3> QED BY <1>1, <3>1
  <2> QED BY <1>1, <1>3, <1>7, <1>10, <2>1 DEF IxGranted, IxSame, IxPaged
<1>12. IxPlaced(x, IxWorld) BY <1>1, <1>3, <1>7, <1>10 DEF IxPlaced, IxSame, IxAsking, IxPaged
<1>13. IxAnswered(x)
  <2>1. q.op # "filters" BY <1>1, <1>3 DEF IxPlaced, IxAsking
  <2> QED BY <1>1, <1>3, <1>7, <2>1 DEF IxAnswered, IxSame, IxPaged
<1>14. IxStands(x, IxWorld) BY <1>3, <1>7, IxStandsSame
<1>15. x.at \notin IxAsking /\ ~IxBusy(x) /\ x.at # "made" BY <1>7, <1>10 DEF IxAsking, IxBusy
<1>16. IxWell(x, IxWorld) BY <1>7, <1>11, <1>12, <1>13, <1>14, <1>15 DEF IxWell, IxBelongs
<1>17. IxWorldStays /\ ixNow' = ixNow /\ ixFlight' = ixFlight BY <1>1 DEF IxWorldStays
<1>18. IxFlightHolds'
  <2>1. ~IxBusy(ixReq[r]) BY <1>1 DEF q, IxBusy
  <2> QED BY <1>6, <1>15, <1>17, <2>1, IxFlightStays
<1>19. IxAsksOn(x, ixReq[r], IxWorld) BY <1>15 DEF IxAsksOn
<1>20. \A l \in IxAsked : ixCache'[l] = ixCache[l] BY <1>9 DEF IxAsked, Layers
<1> QED BY <1>6, <1>9, <1>15, <1>16, <1>17, <1>18, <1>19, <1>20, IxRequestMoves

LEMMA IxDocumentKeeps ==
  ASSUME IxInv, NEW r \in IxReaders, NEW id, IxDocument(r, id)
  PROVE  IxInv'
<1> DEFINE q == ixReq[r]
           found == live(ixCache["docs"], id, ixNow)
           have == IF found THEN [z \in DOMAIN q.have \cup {id} |->
                                   IF z = id THEN entryIn(ixCache["docs"], id).val ELSE q.have[z]]
                   ELSE q.have
           left == q.left \ {id}
           at == IF left # {} THEN q.at ELSE IF DOMAIN have = q.cands THEN "shown" ELSE "fetch"
           ll == get(ixCache["docs"], id, ixNow)
<1>1. /\ q.at = "page" /\ id \in q.left
      /\ UNCHANGED <<ixDocs, ixGen, ixUntold, ixFlight, ixBlind, ixNow, ixWrites, ixBegun>>
      /\ ixReq' = [ixReq EXCEPT ![r] = [q EXCEPT !.have = have, !.left = left,
                     !.at = IF left # {} THEN @ ELSE IF DOMAIN have = q.cands THEN "shown" ELSE "fetch"]]
      /\ ixCache' = [ixCache EXCEPT !["docs"] = ll]
  BY DEF IxDocument
<1>2. IxWell(q, IxWorld) BY <1>1, IxThere
<1>3. IsReq(q) /\ IxStands(q, IxWorld) /\ IxPlaced(q, IxWorld) /\ IxGranted(q, IxWorld) /\ IxAnswered(q)
  BY <1>2 DEF IxWell, IxBelongs
<1>4. PICK x : x = [q EXCEPT !.have = have, !.left = left, !.at = IF left # {} THEN @ ELSE IF DOMAIN have = q.cands THEN "shown" ELSE "fetch"]
  OBVIOUS
<1>5. IxBecomes(ixReq, r, x, ixReq') BY <1>1, <1>4, IxBecame
<1>6. IsReq(x) /\ IxSame(x, q) /\ x.at = at /\ x.layer = q.layer /\ x.have = have /\ x.cands = q.cands /\ x.count = q.count /\ x.left = left
  BY <1>3, <1>4 DEF IsReq, IxSame
<1>7. IsShard(ll, IxCap) BY IxShards, GetWell DEF Layers
<1>8. IxCacheHolds' /\ \A k \in Layers : k # "docs" => ixCache'[k] = ixCache[k] BY <1>1, <1>7, IxCacheEdit DEF Layers
<1>9. at \in {"page", "fetch", "shown"} /\ (at = "shown" => DOMAIN have = q.cands) BY <1>1
<1>10. DOMAIN have \subseteq DOMAIN q.have \cup {id} OBVIOUS
<1> HIDE DEF q, found, have, left, at, ll
<1>11. left \subseteq q.left BY DEF left
<1>12. ~IxWorld.blind
  <2>1. IxWorld.blind => q.at # "page" BY <1>3 DEF IxPlaced
  <2> QED BY <1>1, <2>1
<1>13. q.op # "filters" /\ DOMAIN q.have \subseteq q.cands /\ q.cands \subseteq q.may /\ q.must \subseteq q.cands
       /\ (q.op = "search" => q.count \in q.counts) /\ id \in q.cands
  BY <1>1, <1>3, <1>12 DEF IxGranted, IxPlaced, IxAnswered, IxPaged, IxAsking
<1>14. IxGranted(x, IxWorld)
  <2>1. q.left \subseteq q.cands BY <1>1, <1>3 DEF IxGranted
  <2> QED BY <1>6, <1>9, <1>10, <1>11, <1>12, <1>13, <2>1 DEF IxGranted, IxSame
<1>15. IxPlaced(x, IxWorld) BY <1>1, <1>3, <1>6, <1>9, <1>12, <1>13 DEF IxPlaced, IxSame, IxAsking, IxPaged
<1>16. IxAnswered(x) BY <1>6, <1>13 DEF IxAnswered, IxSame
<1>17. IxStands(x, IxWorld) BY <1>3, <1>6, IxStandsSame
<1>18. x.at \notin IxAsking /\ ~IxBusy(x) /\ x.at # "made" BY <1>6, <1>9 DEF IxAsking, IxBusy
<1>19. IxWell(x, IxWorld) BY <1>6, <1>14, <1>15, <1>16, <1>17, <1>18 DEF IxWell, IxBelongs
<1>20. IxWorldStays /\ ixNow' = ixNow /\ ixFlight' = ixFlight BY <1>1 DEF IxWorldStays
<1>21. IxFlightHolds'
  <2>1. ~IxBusy(ixReq[r]) BY <1>1 DEF q, IxBusy
  <2> QED BY <1>5, <1>18, <1>20, <2>1, IxFlightStays
<1>22. IxAsksOn(x, ixReq[r], IxWorld) BY <1>18 DEF IxAsksOn
<1>23. \A l \in IxAsked : ixCache'[l] = ixCache[l] BY <1>8 DEF IxAsked, Layers
<1> QED BY <1>5, <1>8, <1>18, <1>19, <1>20, <1>21, <1>22, <1>23, IxRequestMoves

LEMMA IxBeginKeeps ==
  ASSUME IxInv, NEW r \in IxReaders, NEW p \in IxAskers, NEW op \in IxOps, IxBegin(r, p, op)
  PROVE  IxInv'
<1> DEFINE untold == IF ixUntold = None THEN {} ELSE {ixUntold.id}
           was == ixWasDocs
           layer == IF op = "filters" THEN "shape" ELSE "results"
           req == [at |-> "want", layer |-> "", key |-> <<>>, p |-> p, op |-> op, cands |-> {}, count |-> 0,
                   shape |-> None, val |-> None, have |-> noBody, left |-> {},
                   may |-> readable(ixDocs, p) \cup readable(was, p),
                   must |-> readable(ixDocs, p) \ untold,
                   counts |-> {stored(ixDocs), stored(was)},
                   versions |-> [id \in IxIds |-> {versionOf(ixDocs, id), versionOf(was, id)}]]
<1>1. /\ ixReq[r].at = "idle" /\ UNCHANGED <<ixDocs, ixGen, ixUntold, ixCache, ixFlight, ixBlind, ixNow, ixWrites>>
      /\ ixReq' = [ixReq EXCEPT ![r] = ixWants(req, layer)]
  BY DEF IxBegin, ixWasDocs
<1>2. PICK x : x = ixWants(req, layer) OBVIOUS
<1>3. IxBecomes(ixReq, r, x, ixReq') BY <1>1, <1>2, IxBecame
<1>4. x = [req EXCEPT !.at = "want", !.layer = layer, !.key = ixKey(layer, p, op)] BY <1>2 DEF ixWants
<1>5. /\ IsReq(x) /\ x.at = "want" /\ x.layer = layer /\ x.key = ixKey(layer, p, op) /\ x.p = p /\ x.op = op
      /\ x.cands = {} /\ x.have = noBody /\ x.may = readable(ixDocs, p) \cup readable(was, p)
      /\ x.must = readable(ixDocs, p) \ untold /\ x.counts = {stored(ixDocs), stored(was)}
      /\ \A id \in IxIds : x.versions[id] = {versionOf(ixDocs, id), versionOf(was, id)}
  BY <1>4 DEF IsReq
<1>6. IxWorld.docs = ixDocs /\ IxWorld.was = ixWasDocs /\ IxWorld.gen = ixGen /\ ixGen \in Nat BY IxWorldIs
<1>7. readable(ixDocs, p) \ untold \subseteq readable(was, p)
  <2>1. ixDocs \in [IxIds -> IxDocuments \cup {None}] BY DEF IxInv, IxStoreHolds
  <2>2. \A id \in IxIds \ untold : was[id] = ixDocs[id] BY <2>1 DEF ixWasDocs
  <2> QED BY <2>2 DEF readable
<1>8. DOMAIN noBody = {} BY DEF noBody
<1> HIDE DEF was, untold, req
<1>9. IxStands(x, IxWorld)
  <2>1. was = ixWasDocs BY DEF was
  <2> QED BY <1>5, <1>6, <1>7, <2>1 DEF IxStands
<1>10. layer \in IxAsked /\ (op = "filters" <=> layer = "shape") /\ layer # "corpus" BY DEF IxAsked
<1>11. x.key = ixKeyAt(IxWorld.gen, x.layer, x.p, x.op) BY <1>5, <1>6, <1>10 DEF ixKey, ixKeyAt, IxAsked
<1>12. ixGen \in 0..ixGen BY <1>6
<1> HIDE DEF layer
<1>13. IxPlaced(x, IxWorld)
  BY <1>5, <1>6, <1>8, <1>10, <1>11, <1>12 DEF IxPlaced, IxAsking, IxPaged
<1>14. IxGranted(x, IxWorld) /\ IxAnswered(x) BY <1>5, <1>10 DEF IxGranted, IxAnswered, IxPaged
<1>15. IxWell(x, IxWorld) /\ x.at # "made" /\ ~IxBusy(x) BY <1>5, <1>9, <1>13, <1>14 DEF IxWell, IxBelongs, IxBusy
<1>16. IxWorldStays /\ ixNow' = ixNow /\ ixFlight' = ixFlight /\ ixCache' = ixCache BY <1>1 DEF IxWorldStays
<1>17. IxCacheHolds' BY <1>16 DEF IxInv, IxCacheHolds
<1>18. IxFlightHolds'
  <2>1. ~IxBusy(ixReq[r]) BY <1>1 DEF IxBusy
  <2> QED BY <1>3, <1>15, <1>16, <2>1, IxFlightStays
<1>19. IxAsksOn(x, ixReq[r], IxWorld) BY <1>5, <1>9, <1>10, <1>11 DEF IxAsksOn
<1> QED BY <1>3, <1>15, <1>16, <1>17, <1>18, <1>19, IxRequestMoves

\* A request takes a key nobody is producing.
LEMMA IxFlightTakes ==
  ASSUME IxInv, NEW r \in IxReaders, NEW x, IxBecomes(ixReq, r, x, ixReq'), IxWorldStays,
         ~IxBusy(ixReq[r]), IxBusy(x), x.layer \in Layers,
         ixDirect(x.layer) \/ x.key \notin ixFlight[x.layer],
         ixFlight' = IF ixDirect(x.layer) THEN ixFlight ELSE [ixFlight EXCEPT ![x.layer] = @ \cup {x.key}]
  PROVE  IxFlightHolds'
<1>1. \A l : ixDirect(l)' = ixDirect(l) BY IxSameWorld
<1>2. \A q \in IxReaders : ixReq'[q] = IF q = r THEN x ELSE ixReq[q] BY DEF IxBecomes
<1>3. IxFlightHolds BY DEF IxInv
<1>4. ixFlight' = [l \in Layers |-> IF l = x.layer /\ ~ixDirect(l) THEN ixFlight[l] \cup {x.key} ELSE ixFlight[l]]
  <2>1. ixFlight = [l \in Layers |-> ixFlight[l]] BY <1>3 DEF IxFlightHolds
  <2>2. CASE ixDirect(x.layer) BY <2>1, <2>2
  <2>3. CASE ~ixDirect(x.layer)
    <3>1. ixFlight' = [ixFlight EXCEPT ![x.layer] = ixFlight[x.layer] \cup {x.key}] BY <2>1, <2>3
    <3> QED BY <2>1, <2>3, <3>1
  <2> QED BY <2>2, <2>3
<1>5. ASSUME NEW l \in Layers
      PROVE  ixFlight'[l] = {ixReq'[q].key : q \in {z \in IxReaders : IxBusy(ixReq'[z]) /\ ixReq'[z].layer = l /\ ~ixDirect(l)'}}
  <2> DEFINE old == {z \in IxReaders : IxBusy(ixReq[z]) /\ ixReq[z].layer = l /\ ~ixDirect(l)}
             new == {z \in IxReaders : IxBusy(ixReq'[z]) /\ ixReq'[z].layer = l /\ ~ixDirect(l)'}
  <2>1. ixFlight[l] = {ixReq[q].key : q \in old} BY <1>3 DEF IxFlightHolds
  <2>2. new = old \cup {z \in {r} : x.layer = l /\ ~ixDirect(l)} BY <1>1, <1>2
  <2>3. \A q \in old : q # r /\ ixReq'[q].key = ixReq[q].key BY <1>2
  <2>4. ixReq'[r].key = x.key BY <1>2
  <2> SUFFICES ixFlight'[l] = {ixReq'[q].key : q \in new} OBVIOUS
  <2> HIDE DEF old, new
  <2>6. {ixReq'[q].key : q \in old} = {ixReq[q].key : q \in old} BY <2>3
  <2>7. CASE x.layer = l /\ ~ixDirect(l)
    <3>1. new = old \cup {r} BY <2>2, <2>7
    <3>2. ixFlight'[l] = ixFlight[l] \cup {x.key} BY <1>4, <2>7
    <3>3. {ixReq'[q].key : q \in new} = {ixReq'[q].key : q \in old} \cup {x.key} BY <2>4, <3>1
    <3> QED BY <2>1, <2>6, <3>2, <3>3
  <2>8. CASE ~(x.layer = l /\ ~ixDirect(l))
    <3>1. new = old BY <2>2, <2>8
    <3>2. ixFlight'[l] = ixFlight[l] BY <1>4, <2>8
    <3> QED BY <2>1, <2>6, <3>1, <3>2
  <2> QED BY <2>7, <2>8
<1>6. \A q, z \in IxReaders :
        IxBusy(ixReq'[q]) /\ IxBusy(ixReq'[z]) /\ ixReq'[q].layer = ixReq'[z].layer /\ ixReq'[q].key = ixReq'[z].key
        /\ ~ixDirect(ixReq[q].layer)' => q = z
  <2> SUFFICES ASSUME NEW q \in IxReaders, NEW z \in IxReaders, IxBusy(ixReq'[q]), IxBusy(ixReq'[z]),
                      ixReq'[q].layer = ixReq'[z].layer, ixReq'[q].key = ixReq'[z].key, ~ixDirect(ixReq[q].layer)', q # z
               PROVE  FALSE
      OBVIOUS
  <2>1. PICK l : l = ixReq'[q].layer OBVIOUS
  <2>2. ~ixDirect(l)' BY <2>1 DEF ixDirect, ixTTL
  <2>3. ~ixDirect(l) BY <1>1, <2>2
  <2>4. ASSUME NEW a \in IxReaders, a # r, IxBusy(ixReq[a]), ixReq[a].layer = x.layer, ixReq[a].key = x.key, ~ixDirect(x.layer)
        PROVE  FALSE
    <3>1. ixFlight[x.layer] = {ixReq[b].key : b \in {y \in IxReaders : IxBusy(ixReq[y]) /\ ixReq[y].layer = x.layer /\ ~ixDirect(x.layer)}}
      BY <1>3 DEF IxFlightHolds
    <3>2. x.key \in ixFlight[x.layer] BY <2>4, <3>1
    <3> QED BY <2>4, <3>2
  <2>5. CASE q = r BY <1>2, <2>1, <2>3, <2>4, <2>5
  <2>6. CASE z = r BY <1>2, <2>1, <2>3, <2>4, <2>6
  <2>7. CASE q # r /\ z # r
    <3>1. ixReq'[q] = ixReq[q] /\ ixReq'[z] = ixReq[z] BY <1>2, <2>7
    <3> QED BY <1>3, <2>1, <2>3, <3>1 DEF IxFlightHolds
  <2> QED BY <2>5, <2>6, <2>7
<1>7. ixFlight' = [l \in Layers |-> ixFlight'[l]] BY <1>4
<1> QED BY <1>5, <1>6, <1>7 DEF IxFlightHolds

\* A request that asks as it did belongs where it did.
LEMMA IxAsksStill ==
  ASSUME NEW q, NEW x, NEW w, IxBelongs(q, w), q.at \in IxAsking, IsReq(x), IxSame(x, q), x.at \in IxAsking,
         x.layer = q.layer, x.key = q.key, x.cands = q.cands, x.have = q.have, x.left = q.left
  PROVE  IxBelongs(x, w) /\ IxAsksOn(x, q, w)
<1>1. IxStands(q, w) /\ IxPlaced(q, w) /\ IxGranted(q, w) BY DEF IxBelongs
<1>2. IxStands(x, w) BY <1>1, IxStandsSame
<1>3. x.at \notin IxPaged BY DEF IxAsking, IxPaged
<1>4. IxPlaced(x, w) BY <1>1, <1>3 DEF IxPlaced, IxSame, IxAsking, IxPaged
<1>5. IxGranted(x, w) BY <1>1, <1>3 DEF IxGranted, IxSame, IxPaged
<1>6. IxAnswered(x) BY <1>3 DEF IxAnswered, IxPaged
<1>7. IxAsksOn(x, q, w) BY <1>1, <1>2 DEF IxAsksOn, IxPlaced
<1> QED BY <1>2, <1>4, <1>5, <1>6, <1>7 DEF IxBelongs

\* What a live entry holds suits whoever asks under its key.
LEMMA IxHitSuits ==
  ASSUME IxInv, NEW r \in IxReaders, ixReq[r].at \in IxAsking, ixReq[r].layer \in IxAsked,
         ~ixDirect(ixReq[r].layer), cached(ixCache[ixReq[r].layer], ixReq[r].key)
  PROVE  IxSuits(ixReq[r], entryIn(ixCache[ixReq[r].layer], ixReq[r].key).val, IxWorld)
<1> DEFINE l == ixReq[r].layer
           e == entryIn(ixCache[l], ixReq[r].key)
           h == [key |-> e.key, val |-> e.val]
<1>1. IsShard(ixCache[l], IxCap) BY IxShards DEF IxAsked, Layers
<1>2. e \in EntriesOf(ixCache[l]) /\ e.key = ixReq[r].key BY <1>1, EntryFound DEF IsShard
<1>3. h \in IxHeldIn(l, ixCache, ixReq) BY <1>2 DEF IxHeldIn
<1>4. IxFits(l, h, ixReq, IxWorld) BY <1>3 DEF IxInv, IxHeldFits
<1>5. h.key = ixReq[r].key /\ h.val = e.val BY <1>2
<1> HIDE DEF h, e
<1>6. IxSuits(ixReq[r], h.val, IxWorld) BY <1>4, <1>5 DEF IxFits
<1> QED BY <1>5, <1>6 DEF e

LEMMA IxLookupKeeps ==
  ASSUME IxInv, NEW r \in IxReaders, IxLookup(r)
  PROVE  IxInv'
<1> DEFINE q == ixReq[r]
           l == q.layer
           hit == ~ixDirect(l) /\ live(ixCache[l], q.key, ixNow)
           ll == get(ixCache[l], q.key, ixNow)
<1>1. /\ q.at = "want" /\ UNCHANGED <<ixDocs, ixGen, ixUntold, ixBlind, ixNow, ixWrites, ixBegun>>
      /\ ixCache' = IF ixDirect(l) THEN ixCache ELSE [ixCache EXCEPT ![l] = ll]
      /\ \/ hit /\ ixReq' = [ixReq EXCEPT ![r] = ixOnward(q, entryIn(ixCache[l], q.key).val)] /\ UNCHANGED ixFlight
         \/ ~hit /\ ~ixDirect(l) /\ q.key \in ixFlight[l]
            /\ ixReq' = [ixReq EXCEPT ![r].at = "wait"] /\ UNCHANGED ixFlight
         \/ ~hit /\ (ixDirect(l) \/ q.key \notin ixFlight[l])
            /\ ixReq' = [ixReq EXCEPT ![r].at = "run"]
            /\ ixFlight' = IF ixDirect(l) THEN ixFlight ELSE [ixFlight EXCEPT ![l] = @ \cup {q.key}]
  BY DEF IxLookup
<1>2. IxWell(q, IxWorld) /\ IxBelongs(q, IxWorld) BY <1>1, IxThere DEF IxWell
<1>3. IsReq(q) /\ IxStands(q, IxWorld) /\ IxPlaced(q, IxWorld) BY <1>2 DEF IxBelongs
<1>4. l \in IxAsked /\ l \in Layers /\ q.at \in IxAsking BY <1>1, <1>3 DEF IxPlaced, IxAsked, IxAsking, Layers
<1>5. IsShard(ixCache[l], IxCap) /\ IxCap \in Nat BY <1>4, IxShards
<1>6. IsShard(ll, IxCap) /\ EntriesOf(ll) \subseteq EntriesOf(ixCache[l]) BY <1>5, GetWell
<1>7. IxWorldStays /\ ixNow' = ixNow BY <1>1 DEF IxWorldStays
<1>8. ~IxBusy(q) BY <1>1 DEF IxBusy
<1>9. IxWorld.gen = ixGen /\ IxWorld.blind = ixBlind /\ ixGen \in Nat /\ ixBlind \in BOOLEAN BY IxWorldIs
<1>10. PICK v : v = entryIn(ixCache[l], q.key).val OBVIOUS
<1>11. ASSUME hit PROVE IxSuits(q, v, IxWorld)
  <2>1. cached(ixCache[l], q.key) BY <1>11 DEF live
  <2> QED BY <1>4, <1>10, <1>11, <2>1, IxHitSuits
<1> HIDE DEF q, l, hit, ll
<1>12. IxCacheHolds' /\ \A k \in IxAsked : EntriesOf(ixCache'[k]) \subseteq EntriesOf(ixCache[k])
  <2>1. CASE ixDirect(l)
    <3>1. ixCache' = ixCache BY <1>1, <2>1
    <3> QED BY <3>1 DEF IxInv, IxCacheHolds
  <2>2. CASE ~ixDirect(l)
    <3>1. ixCache' = [ixCache EXCEPT ![l] = ll] BY <1>1, <2>2
    <3>2. IxCacheHolds' /\ ixCache'[l] = ll /\ \A k \in Layers : k # l => ixCache'[k] = ixCache[k]
      BY <1>4, <1>6, <3>1, IxCacheEdit
    <3> QED BY <1>6, <3>2 DEF IxAsked, Layers
  <2> QED BY <2>1, <2>2
<1>13. CASE hit /\ ixReq' = [ixReq EXCEPT ![r] = ixOnward(q, v)] /\ ixFlight' = ixFlight
  <2>1. IxSuits(q, v, IxWorld) BY <1>11, <1>13
  <2>2. PICK x : x = ixOnward(q, v) OBVIOUS
  <2>3. /\ IxWell(x, IxWorld) /\ IxSame(x, q) /\ x.at \in {"want"} \cup IxPaged
        /\ x.at = "want" => x.layer = "corpus" /\ x.key = ixKeyAt(IxWorld.gen, x.layer, x.p, x.op)
    BY <1>2, <1>4, <1>9, <2>1, <2>2, IxGoesOn
  <2>4. IxStands(x, IxWorld) BY <2>3 DEF IxWell, IxBelongs
  <2>5. IxAsksOn(x, q, IxWorld) BY <2>3, <2>4 DEF IxAsksOn, IxAsking, IxPaged, IxAsked
  <2>6. x.at # "made" /\ ~IxBusy(x) BY <2>3 DEF IxPaged, IxBusy
  <2>7. IxBecomes(ixReq, r, x, ixReq') BY <1>13, <2>2, IxBecame
  <2>8. IxFlightHolds' BY <1>7, <1>8, <1>13, <2>6, <2>7, IxFlightStays DEF q
  <2> QED BY <1>7, <1>12, <2>3, <2>5, <2>6, <2>7, <2>8, IxRequestMoves DEF q
<1>14. ASSUME NEW a \in {"wait", "run"}, ixReq' = [ixReq EXCEPT ![r].at = a]
       PROVE  \E x : /\ IxBecomes(ixReq, r, x, ixReq') /\ IxWell(x, IxWorld) /\ IxAsksOn(x, q, IxWorld)
                     /\ x.at = a /\ x.layer = l /\ x.key = q.key
  <2>1. PICK x : x = [q EXCEPT !.at = a] OBVIOUS
  <2>2. ixReq' = [ixReq EXCEPT ![r] = x] BY <1>14, <2>1 DEF q
  <2>3. IxBecomes(ixReq, r, x, ixReq') BY <2>2, IxBecame
  <2>4. /\ IsReq(x) /\ IxSame(x, q) /\ x.at = a /\ x.layer = q.layer /\ x.key = q.key
        /\ x.cands = q.cands /\ x.have = q.have /\ x.left = q.left
    BY <1>3, <2>1 DEF IsReq, IxSame
  <2>5. x.at \in IxAsking /\ x.at # "made" BY <2>4 DEF IxAsking
  <2>6. IxBelongs(x, IxWorld) /\ IxAsksOn(x, q, IxWorld) BY <1>2, <1>4, <2>4, <2>5, IxAsksStill
  <2> QED BY <2>3, <2>4, <2>5, <2>6 DEF IxWell, l
<1>15. CASE ixReq' = [ixReq EXCEPT ![r].at = "wait"] /\ ixFlight' = ixFlight
  <2>1. PICK x : /\ IxBecomes(ixReq, r, x, ixReq') /\ IxWell(x, IxWorld) /\ IxAsksOn(x, q, IxWorld)
                 /\ x.at = "wait" /\ x.layer = l /\ x.key = q.key
    BY <1>14, <1>15
  <2>2. IxFlightHolds' BY <1>7, <1>8, <1>15, <2>1, IxFlightStays DEF q, IxBusy
  <2> QED BY <1>7, <1>12, <2>1, <2>2, IxRequestMoves DEF q
<1>16. CASE /\ ixDirect(l) \/ q.key \notin ixFlight[l]
            /\ ixReq' = [ixReq EXCEPT ![r].at = "run"]
            /\ ixFlight' = IF ixDirect(l) THEN ixFlight ELSE [ixFlight EXCEPT ![l] = @ \cup {q.key}]
  <2>1. PICK x : /\ IxBecomes(ixReq, r, x, ixReq') /\ IxWell(x, IxWorld) /\ IxAsksOn(x, q, IxWorld)
                 /\ x.at = "run" /\ x.layer = l /\ x.key = q.key
    BY <1>14, <1>16
  <2>2. IxFlightHolds'
    <3>1. IxBusy(x) /\ ~IxBusy(ixReq[r]) /\ x.layer \in Layers BY <1>4, <1>8, <2>1 DEF q, IxBusy
    <3>2. ixDirect(x.layer) \/ x.key \notin ixFlight[x.layer] BY <1>16, <2>1
    <3>3. ixFlight' = IF ixDirect(x.layer) THEN ixFlight ELSE [ixFlight EXCEPT ![x.layer] = @ \cup {x.key}] BY <1>16, <2>1
    <3> QED BY <1>7, <2>1, <3>1, <3>2, <3>3, IxFlightTakes
  <2> QED BY <1>7, <1>12, <2>1, <2>2, IxRequestMoves DEF q
<1> QED BY <1>1, <1>10, <1>13, <1>15, <1>16

\* Two people asking under the same key of an ordering, or of a shape, are one.
LEMMA IxSameAsker ==
  ASSUME NEW q, NEW x, NEW w, IxPlaced(q, w), IxPlaced(x, w), q.at \in IxAsking, x.at \in IxAsking,
         x.layer = q.layer, x.key = q.key
  PROVE  x.p = q.p \/ q.layer = "corpus"
<1>1. PICK g \in 0..w.gen : q.key = ixKeyAt(g, q.layer, q.p, q.op) BY DEF IxPlaced
<1>2. PICK k \in 0..w.gen : x.key = ixKeyAt(k, x.layer, x.p, x.op) BY DEF IxPlaced
<1>3. q.layer \in IxAsked BY DEF IxPlaced
<1>4. CASE q.layer = "results"
  <2>1. q.key = <<g, q.p, q.op>> /\ x.key = <<k, x.p, x.op>> BY <1>1, <1>2, <1>4 DEF ixKeyAt
  <2> QED BY <2>1
<1>5. CASE q.layer = "shape"
  <2>1. q.key = <<q.p>> /\ x.key = <<x.p>> BY <1>1, <1>2, <1>5 DEF ixKeyAt
  <2> QED BY <2>1
<1> QED BY <1>3, <1>4, <1>5 DEF IxAsked

LEMMA IxProduceKeeps ==
  ASSUME IxInv, NEW r \in IxReaders, IxProduce(r)
  PROVE  IxInv'
<1> DEFINE q == ixReq[r]
<1>1. /\ q.at = "run" /\ UNCHANGED <<ixDocs, ixGen, ixUntold, ixCache, ixFlight, ixBlind, ixNow, ixWrites, ixBegun>>
      /\ ixReq' = [ixReq EXCEPT ![r].at = "made", ![r].val = ixAsk(q)]
  BY DEF IxProduce
<1>2. IxBelongs(q, IxWorld) BY <1>1, IxThere DEF IxWell
<1>3. IsReq(q) /\ IxStands(q, IxWorld) /\ IxPlaced(q, IxWorld) BY <1>2 DEF IxBelongs
<1>4. q.layer \in IxAsked /\ q.at \in IxAsking BY <1>1, <1>3 DEF IxPlaced, IxAsking
<1>5. PICK v : v = ixAsk(q) OBVIOUS
<1>6. PICK x : x = [q EXCEPT !.at = "made", !.val = v] OBVIOUS
<1>7. ixReq' = [ixReq EXCEPT ![r] = x]
  <2>1. ixReq = [z \in IxReaders |-> ixReq[z]] BY DEF IxInv, IxReqsHold
  <2> QED BY <1>1, <1>3, <1>5, <1>6, <2>1 DEF IsReq
<1>8. IxBecomes(ixReq, r, x, ixReq') BY <1>7, IxBecame
<1>9. /\ IsReq(x) /\ IxSame(x, q) /\ x.at = "made" /\ x.layer = q.layer /\ x.key = q.key
      /\ x.cands = q.cands /\ x.have = q.have /\ x.left = q.left /\ x.val = v
  BY <1>3, <1>6 DEF IsReq, IxSame
<1>10. x.at \in IxAsking BY <1>9 DEF IxAsking
<1>11. IxBelongs(x, IxWorld) /\ IxAsksOn(x, q, IxWorld) BY <1>2, <1>4, <1>9, <1>10, IxAsksStill
<1>12. ASSUME NEW z, IxBelongs(z, IxWorld), z.at \in IxAsking, z.layer = q.layer, z.key = q.key
       PROVE  IxSuits(z, v, IxWorld)
  <2>1. IxStands(z, IxWorld) /\ IxPlaced(z, IxWorld) BY <1>12 DEF IxBelongs
  <2>2. CASE q.layer = "corpus"
    <3>1. v = stored(IxWorld.docs) BY <1>5, <2>2, IxWorldIs DEF ixAsk
    <3> QED BY <1>12, <2>1, <2>2, <3>1 DEF IxSuits, IxStands
  <2>3. CASE q.layer # "corpus"
    <3>1. z.p = q.p BY <1>3, <1>4, <1>12, <2>1, <2>3, IxSameAsker
    <3> QED BY <1>4, <1>5, <1>12, <2>1, <3>1, IxAskSuits
  <2> QED BY <2>2, <2>3
<1>13. IxFresh(q.layer, q.key, v, IxWorld) BY <1>3, <1>4, <1>5, IxAskFresh
<1> HIDE DEF q
<1>14. IxWell(x, IxWorld) BY <1>9, <1>10, <1>11, <1>12 DEF IxWell
<1>15. /\ IxWorldStays /\ ixNow' = ixNow /\ ixCache' = ixCache /\ ixFlight' = ixFlight /\ ixBlind' = ixBlind
       /\ IxWorld' = IxWorld /\ (\A l : ixDirect(l)' = ixDirect(l))
  BY <1>1, IxSameWorld DEF IxWorldStays
<1>16. IxStoreHolds' /\ IxCacheHolds' BY <1>15 DEF IxInv, IxStoreHolds, IxCacheHolds, IxWorldStays
<1>17. IxFlightHolds'
  <2>1. \A z \in IxReaders : ixReq'[z] = IF z = r THEN x ELSE ixReq[z] BY <1>8 DEF IxBecomes
  <2>2. IxBusy(x) /\ IxBusy(ixReq[r]) BY <1>1, <1>9 DEF q, IxBusy
  <2>3. \A z \in IxReaders : (IxBusy(ixReq'[z]) <=> IxBusy(ixReq[z])) /\ ixReq'[z].layer = ixReq[z].layer /\ ixReq'[z].key = ixReq[z].key
    BY <1>9, <2>1, <2>2 DEF q
  <2> QED BY <1>15, <2>3, IxFlightSame
<1>18. \A z \in IxReaders : ixReq'[z] = IF z = r THEN x ELSE ixReq[z] BY <1>8 DEF IxBecomes
<1>19. IxReqsHold'
  <2>1. ixReq' = [z \in IxReaders |-> ixReq'[z]] BY <1>8 DEF IxBecomes
  <2>2. \A z \in IxReaders : ixReq'[z] = ixIdle \/ IxWell(ixReq'[z], IxWorld) BY <1>14, <1>18 DEF IxInv, IxReqsHold
  <2> QED BY <1>15, <2>1, <2>2 DEF IxReqsHold
<1>20. IxHeldFits'
  <2> SUFFICES ASSUME NEW l \in IxAsked, ~ixDirect(l)', NEW h \in IxHeldIn(l, ixCache', ixReq')
               PROVE  IxFits(l, h, ixReq', IxWorld)
      BY <1>15 DEF IxHeldFits
  <2>1. ~ixDirect(l) BY <1>15
  <2>2. h \in IxHeldIn(l, ixCache, ixReq) \/ (l = x.layer /\ h = [key |-> x.key, val |-> v])
    <3>1. CASE \E e \in EntriesOf(ixCache'[l]) : h = [key |-> e.key, val |-> e.val] BY <1>15, <3>1 DEF IxHeldIn
    <3>2. CASE \E z \in IxReaders : ixReq'[z].at = "made" /\ ixReq'[z].layer = l /\ h = [key |-> ixReq'[z].key, val |-> ixReq'[z].val]
      <4>1. PICK z \in IxReaders : ixReq'[z].at = "made" /\ ixReq'[z].layer = l /\ h = [key |-> ixReq'[z].key, val |-> ixReq'[z].val]
        BY <3>2
      <4>2. CASE z = r BY <1>9, <1>18, <4>1, <4>2
      <4>3. CASE z # r
        <5>1. ixReq'[z] = ixReq[z] BY <1>18, <4>3
        <5> QED BY <4>1, <5>1 DEF IxHeldIn
      <4> QED BY <4>2, <4>3
    <3> QED BY <3>1, <3>2 DEF IxHeldIn
  <2>3. CASE h \in IxHeldIn(l, ixCache, ixReq)
    <3>1. IxFits(l, h, ixReq, IxWorld) BY <2>1, <2>3 DEF IxInv, IxHeldFits
    <3>2. IxWorld.gen \in Nat /\ (l = "corpus" => ~IxWorld.blind) BY <2>1, IxWorldIs
    <3>3. \A z \in IxReaders : ixReq'[z] = ixReq[z] \/ IxAsksOn(ixReq'[z], ixReq[z], IxWorld) BY <1>11, <1>18 DEF q
    <3> QED BY <3>1, <3>2, <3>3, IxStillFits
  <2>4. CASE l = x.layer /\ h = [key |-> x.key, val |-> v]
    <3>1. h.key = q.key /\ h.val = v /\ l = q.layer BY <1>9, <2>4
    <3>2. IxFresh(l, h.key, h.val, IxWorld) BY <1>13, <3>1
    <3>3. \A z \in IxReaders : ixReq'[z].at \in IxAsking /\ ixReq'[z].layer = l /\ ixReq'[z].key = h.key => IxSuits(ixReq'[z], h.val, IxWorld)
      <4> SUFFICES ASSUME NEW z \in IxReaders, ixReq'[z].at \in IxAsking, ixReq'[z].layer = l, ixReq'[z].key = h.key
                   PROVE  IxSuits(ixReq'[z], h.val, IxWorld)
          OBVIOUS
      <4>1. ixReq'[z] # ixIdle BY DEF IxAsking, ixIdle
      <4>2. IxBelongs(ixReq'[z], IxWorld) BY <1>14, <1>18, <4>1 DEF IxInv, IxReqsHold, IxWell
      <4> QED BY <1>12, <3>1, <4>2
    <3> QED BY <3>2, <3>3 DEF IxFits
  <2> QED BY <2>2, <2>3, <2>4
<1> QED BY <1>16, <1>17, <1>19, <1>20 DEF IxInv

\* One key is no longer being produced.
LEMMA IxFlightDrops ==
  ASSUME IxInv, NEW r \in IxReaders, NEW l \in Layers, NEW key, IxWorldStays,
         IxBusy(ixReq[r]), ~IxBusy(ixReq'[r]), l = ixReq[r].layer, key = ixReq[r].key,
         \A q \in IxReaders : q # r => IxBusy(ixReq'[q]) <=> IxBusy(ixReq[q]),
         \A q \in IxReaders : q # r /\ IxBusy(ixReq[q]) => ixReq'[q] = ixReq[q],
         ixFlight' = IF ixDirect(l) THEN ixFlight ELSE [ixFlight EXCEPT ![l] = @ \ {key}]
  PROVE  IxFlightHolds'
<1>1. \A k : ixDirect(k)' = ixDirect(k) BY IxSameWorld
<1>2. IxFlightHolds BY DEF IxInv
<1>3. ixFlight' = [k \in Layers |-> IF k = l /\ ~ixDirect(l) THEN ixFlight[k] \ {key} ELSE ixFlight[k]]
  <2>1. ixFlight = [k \in Layers |-> ixFlight[k]] BY <1>2 DEF IxFlightHolds
  <2>2. CASE ixDirect(l) BY <2>1, <2>2
  <2>3. CASE ~ixDirect(l)
    <3>1. ixFlight' = [ixFlight EXCEPT ![l] = ixFlight[l] \ {key}] BY <2>1, <2>3
    <3> QED BY <2>1, <2>3, <3>1
  <2> QED BY <2>2, <2>3
<1>4. ASSUME NEW k \in Layers
      PROVE  ixFlight'[k] = {ixReq'[q].key : q \in {z \in IxReaders : IxBusy(ixReq'[z]) /\ ixReq'[z].layer = k /\ ~ixDirect(k)'}}
  <2> DEFINE old == {z \in IxReaders : IxBusy(ixReq[z]) /\ ixReq[z].layer = k /\ ~ixDirect(k)}
             new == {z \in IxReaders : IxBusy(ixReq'[z]) /\ ixReq'[z].layer = k /\ ~ixDirect(k)'}
  <2>1. ixFlight[k] = {ixReq[q].key : q \in old} BY <1>2 DEF IxFlightHolds
  <2>2. new = old \ {r} BY <1>1
  <2>3. \A q \in new : ixReq'[q].key = ixReq[q].key OBVIOUS
  <2>4. k = l /\ ~ixDirect(l) => r \in old /\ \A q \in old : ixReq[q].key = key => q = r BY <1>2 DEF IxFlightHolds
  <2>5. ~(k = l /\ ~ixDirect(l)) => r \notin old OBVIOUS
  <2> SUFFICES ixFlight'[k] = {ixReq'[q].key : q \in new} OBVIOUS
  <2> HIDE DEF old, new
  <2>6. {ixReq'[q].key : q \in new} = {ixReq[q].key : q \in new} BY <2>3
  <2>7. CASE k = l /\ ~ixDirect(l)
    <3>1. ixFlight'[k] = ixFlight[k] \ {key} BY <1>3, <2>7
    <3>2. {ixReq[q].key : q \in new} = {ixReq[q].key : q \in old} \ {key} BY <2>2, <2>4, <2>7
    <3> QED BY <2>1, <2>6, <3>1, <3>2
  <2>8. CASE ~(k = l /\ ~ixDirect(l))
    <3>1. ixFlight'[k] = ixFlight[k] BY <1>3, <2>8
    <3>2. new = old BY <2>2, <2>5, <2>8
    <3> QED BY <2>1, <2>6, <3>1, <3>2
  <2> QED BY <2>7, <2>8
<1>5. \A q, z \in IxReaders :
        IxBusy(ixReq'[q]) /\ IxBusy(ixReq'[z]) /\ ixReq'[q].layer = ixReq'[z].layer /\ ixReq'[q].key = ixReq'[z].key
        /\ ~ixDirect(ixReq[q].layer)' => q = z
  <2> SUFFICES ASSUME NEW q \in IxReaders, NEW z \in IxReaders, IxBusy(ixReq'[q]), IxBusy(ixReq'[z]),
                      ixReq'[q].layer = ixReq'[z].layer, ixReq'[q].key = ixReq'[z].key, ~ixDirect(ixReq[q].layer)'
               PROVE  q = z
      OBVIOUS
  <2>1. IxBusy(ixReq[q]) /\ IxBusy(ixReq[z]) /\ ixReq'[q] = ixReq[q] /\ ixReq'[z] = ixReq[z] OBVIOUS
  <2>2. PICK k : k = ixReq'[q].layer OBVIOUS
  <2>3. ~ixDirect(k)' BY <2>2 DEF ixDirect, ixTTL
  <2>4. ~ixDirect(k) BY <1>1, <2>3
  <2> QED BY <1>2, <2>1, <2>2, <2>4 DEF IxFlightHolds
<1>6. ixFlight' = [k \in Layers |-> ixFlight'[k]] BY <1>3
<1> QED BY <1>4, <1>5, <1>6 DEF IxFlightHolds

LEMMA IxFailsKeeps ==
  ASSUME IxInv, NEW r \in IxReaders, IxFails(r)
  PROVE  IxInv'
<1> DEFINE l == ixReq[r].layer
           same(q) == q = r \/ (~ixDirect(l) /\ ixReq[q].at = "wait" /\ ixReq[q].layer = l /\ ixReq[q].key = ixReq[r].key)
<1>1. /\ ixReq[r].at = "run" /\ UNCHANGED <<ixDocs, ixGen, ixUntold, ixCache, ixBlind, ixNow, ixWrites, ixBegun>>
      /\ ixReq' = [q \in IxReaders |-> IF same(q) THEN ixIdle ELSE ixReq[q]]
      /\ ixFlight' = IF ixDirect(l) THEN ixFlight ELSE [ixFlight EXCEPT ![l] = @ \ {ixReq[r].key}]
  BY DEF IxFails
<1>2. IxWorldStays /\ ixCache' = ixCache /\ ixBlind' = ixBlind /\ ixNow' = ixNow BY <1>1 DEF IxWorldStays
<1>3. IxWorld' = IxWorld BY <1>2, IxSameWorld
<1>4. IxStoreHolds' /\ IxCacheHolds' BY <1>2 DEF IxInv, IxStoreHolds, IxCacheHolds, IxWorldStays
<1>5. l \in Layers BY <1>1, IxThere DEF IxWell, IxBelongs, IxPlaced, IxAsked, Layers
<1>6. \A q \in IxReaders : ixReq'[q] = ixReq[q] \/ (ixReq'[q] = ixIdle /\ (q = r \/ ixReq[q].at = "wait")) BY <1>1
<1>7. ixReq'[r] = ixIdle BY <1>1
<1>8. ixReq' = [q \in IxReaders |-> ixReq'[q]] BY <1>1
<1>9. ixIdle.at = "idle" /\ ixIdle.at \notin IxAsking BY DEF ixIdle, IxAsking
<1> HIDE DEF same
<1>10. IxFlightHolds'
  <2>1. IxBusy(ixReq[r]) /\ ~IxBusy(ixReq'[r]) BY <1>1, <1>7, <1>9 DEF IxBusy
  <2>2. \A q \in IxReaders : q # r => IxBusy(ixReq'[q]) <=> IxBusy(ixReq[q]) BY <1>6, <1>9 DEF IxBusy
  <2>3. \A q \in IxReaders : q # r /\ IxBusy(ixReq[q]) => ixReq'[q] = ixReq[q] BY <1>6 DEF IxBusy
  <2> QED BY <1>1, <1>2, <1>5, <2>1, <2>2, <2>3, IxFlightDrops
<1>11. \A k \in IxAsked : IxHeldIn(k, ixCache', ixReq') \subseteq IxHeldIn(k, ixCache, ixReq)
  <2> SUFFICES ASSUME NEW k \in IxAsked, NEW h \in IxHeldIn(k, ixCache', ixReq') PROVE h \in IxHeldIn(k, ixCache, ixReq)
      OBVIOUS
  <2>1. \A q \in IxReaders : ixReq'[q].at = "made" => ixReq'[q] = ixReq[q] BY <1>6, <1>9
  <2> QED BY <1>2, <2>1 DEF IxHeldIn
<1>12. \A q \in IxReaders : \/ ixReq'[q] = ixReq[q]
                            \/ ixReq'[q] = ixIdle /\ IxAsksOn(ixReq'[q], ixReq[q], IxWorld)
  BY <1>6, <1>9 DEF IxAsksOn
<1> QED BY <1>2, <1>3, <1>4, <1>8, <1>10, <1>11, <1>12, IxRequestsMove

LEMMA IxDeliverKeeps ==
  ASSUME IxInv, NEW r \in IxReaders, IxDeliver(r)
  PROVE  IxInv'
<1> DEFINE req == ixReq[r]
           l == req.layer
           same(q) == q = r \/ (~ixDirect(l) /\ ixReq[q].at = "wait" /\ ixReq[q].layer = l /\ ixReq[q].key = req.key)
           ll == put(ixCache[l], req.key, req.val, expiry(ixTTL(l), ixNow), IxCap)
<1>1. /\ req.at = "made" /\ UNCHANGED <<ixDocs, ixGen, ixUntold, ixBlind, ixNow, ixWrites, ixBegun>>
      /\ ixReq' = [q \in IxReaders |-> IF same(q) THEN ixOnward([ixReq[q] EXCEPT !.val = None], req.val) ELSE ixReq[q]]
      /\ ixFlight' = IF ixDirect(l) THEN ixFlight ELSE [ixFlight EXCEPT ![l] = @ \ {req.key}]
      /\ ixCache' = IF ixDirect(l) THEN ixCache ELSE [ixCache EXCEPT ![l] = ll]
  BY DEF IxDeliver
<1>2. IxWorldStays /\ ixBlind' = ixBlind /\ ixNow' = ixNow BY <1>1 DEF IxWorldStays
<1>3. IxWorld' = IxWorld BY <1>2, IxSameWorld
<1>4. IxStoreHolds' BY <1>2 DEF IxInv, IxStoreHolds, IxWorldStays
<1>5. IxWell(req, IxWorld) BY <1>1, IxThere
<1>6. IxBelongs(req, IxWorld) /\ IxSuits(req, req.val, IxWorld) BY <1>1, <1>5 DEF IxWell
<1>7. l \in Layers /\ l \in IxAsked BY <1>6 DEF IxBelongs, IxPlaced, IxAsked, Layers
<1>8. IxWorld.gen = ixGen /\ IxWorld.blind = ixBlind /\ ixGen \in Nat /\ ixBlind \in BOOLEAN BY IxWorldIs
<1>9. PICK v : v = req.val OBVIOUS
<1>10. ASSUME NEW q \in IxReaders, same(q)
       PROVE  /\ IxBelongs(ixReq[q], IxWorld) /\ ixReq[q].at \in IxAsking /\ IxSuits(ixReq[q], v, IxWorld)
              /\ q = r \/ ixReq[q].at = "wait"
  <2>1. CASE q = r BY <1>1, <1>6, <1>9, <2>1 DEF IxAsking
  <2>2. CASE q # r
    <3>1. ~ixDirect(l) /\ ixReq[q].at = "wait" /\ ixReq[q].layer = l /\ ixReq[q].key = req.key BY <1>10, <2>2
    <3>2. IxBelongs(ixReq[q], IxWorld) BY <3>1, IxThere DEF IxWell
    <3>3. [key |-> req.key, val |-> req.val] \in IxHeldIn(l, ixCache, ixReq) BY <1>1 DEF IxHeldIn
    <3>4. PICK h : h = [key |-> req.key, val |-> req.val] OBVIOUS
    <3>5. IxFits(l, h, ixReq, IxWorld) BY <1>7, <3>1, <3>3, <3>4 DEF IxInv, IxHeldFits
    <3>6. h.key = req.key /\ h.val = v BY <1>9, <3>4
    <3> HIDE DEF l, req
    <3>7. ixReq[q].at \in IxAsking BY <3>1 DEF IxAsking
    <3>8. IxSuits(ixReq[q], h.val, IxWorld) BY <3>1, <3>5, <3>6, <3>7 DEF IxFits
    <3> QED BY <3>1, <3>2, <3>6, <3>7, <3>8
  <2> QED BY <2>1, <2>2
<1>11. ASSUME NEW q \in IxReaders, same(q)
       PROVE  /\ IxWell(ixReq'[q], IxWorld) /\ IxAsksOn(ixReq'[q], ixReq[q], IxWorld)
              /\ ~IxBusy(ixReq'[q])
  <2>1. IxBelongs(ixReq[q], IxWorld) /\ ixReq[q].at \in IxAsking /\ IxSuits(ixReq[q], v, IxWorld) BY <1>10, <1>11
  <2>2. IsReq(ixReq[q]) BY <2>1 DEF IxBelongs
  <2>3. PICK y : y = [ixReq[q] EXCEPT !.val = None] OBVIOUS
  <2>4. /\ IsReq(y) /\ IxSame(y, ixReq[q]) /\ y.at = ixReq[q].at /\ y.layer = ixReq[q].layer /\ y.key = ixReq[q].key
        /\ y.cands = ixReq[q].cands /\ y.have = ixReq[q].have /\ y.left = ixReq[q].left
    BY <2>2, <2>3 DEF IsReq, IxSame
  <2>5. ixReq'[q] = ixOnward(y, v) BY <1>1, <1>9, <1>11, <2>3
  <2> HIDE DEF same, l, req
  <2>6. IxBelongs(y, IxWorld) BY <2>1, <2>4, IxAsksStill
  <2>7. IxSuits(y, v, IxWorld) BY <2>1, <2>4, IxSuitsSame
  <2>8. PICK x : x = ixOnward(y, v) OBVIOUS
  <2>9. /\ IxWell(x, IxWorld) /\ x.at \in {"want"} \cup IxPaged
        /\ x.at = "want" => x.layer = "corpus" /\ x.key = ixKeyAt(IxWorld.gen, x.layer, x.p, x.op)
    BY <1>8, <2>1, <2>4, <2>6, <2>7, <2>8, IxGoesOn
  <2>10. IxStands(x, IxWorld) BY <2>9 DEF IxWell, IxBelongs
  <2>11. IxAsksOn(x, ixReq[q], IxWorld) BY <2>9, <2>10 DEF IxAsksOn, IxAsking, IxPaged, IxAsked
  <2>12. ~IxBusy(x) BY <2>9 DEF IxPaged, IxBusy
  <2> QED BY <2>5, <2>8, <2>9, <2>11, <2>12
<1>12. \A q \in IxReaders : ~same(q) => ixReq'[q] = ixReq[q] BY <1>1
<1>13. ixReq' = [q \in IxReaders |-> ixReq'[q]] BY <1>1
<1>14. same(r) OBVIOUS
<1>15. IsShard(ixCache[l], IxCap) /\ IxCap \in Nat \ {0} BY <1>7, IxShards
<1>16. IsShard(ll, IxCap) /\ EntriesOf(ll) \subseteq EntriesOf(ixCache[l]) \cup {entry(req.key, req.val, expiry(ixTTL(l), ixNow))}
  BY <1>15, PutWell
<1>17. [key |-> req.key, val |-> req.val] \in IxHeldIn(l, ixCache, ixReq) BY <1>1 DEF IxHeldIn
<1>18. PICK e : e = entry(req.key, req.val, expiry(ixTTL(l), ixNow)) OBVIOUS
<1>19. e.key = req.key /\ e.val = req.val BY <1>18 DEF entry
<1>20. IxBusy(req) BY <1>1 DEF IxBusy
<1> HIDE DEF same, ll
<1>21. IxFlightHolds'
  <2>1. IxBusy(ixReq[r]) /\ ~IxBusy(ixReq'[r]) BY <1>11, <1>14, <1>20
  <2>2. ASSUME NEW q \in IxReaders, q # r
        PROVE  (IxBusy(ixReq'[q]) <=> IxBusy(ixReq[q])) /\ (IxBusy(ixReq[q]) => ixReq'[q] = ixReq[q])
    <3>1. CASE same(q)
      <4>1. ixReq[q].at = "wait" BY <1>10, <2>2, <3>1
      <4>2. ~IxBusy(ixReq[q]) BY <4>1 DEF IxBusy
      <4> QED BY <1>11, <3>1, <4>2
    <3>2. CASE ~same(q) BY <1>12, <3>2
    <3> QED BY <3>1, <3>2
  <2> QED BY <1>1, <1>2, <1>7, <2>1, <2>2, IxFlightDrops
<1>22. IxCacheHolds' /\ \A k \in IxAsked : ixCache'[k] = ixCache[k] \/ (k = l /\ ixCache'[k] = ll)
  <2>1. CASE ixDirect(l)
    <3>1. ixCache' = ixCache BY <1>1, <2>1
    <3> QED BY <3>1 DEF IxInv, IxCacheHolds
  <2>2. CASE ~ixDirect(l)
    <3>1. ixCache' = [ixCache EXCEPT ![l] = ll] BY <1>1, <2>2
    <3>2. IxCacheHolds' /\ ixCache'[l] = ll /\ \A k \in Layers : k # l => ixCache'[k] = ixCache[k]
      BY <1>7, <1>16, <3>1, IxCacheEdit
    <3> QED BY <3>2 DEF IxAsked, Layers
  <2> QED BY <2>1, <2>2
<1>23. \A k \in IxAsked : IxHeldIn(k, ixCache', ixReq') \subseteq IxHeldIn(k, ixCache, ixReq)
  <2> SUFFICES ASSUME NEW k \in IxAsked, NEW h \in IxHeldIn(k, ixCache', ixReq') PROVE h \in IxHeldIn(k, ixCache, ixReq)
      OBVIOUS
  <2>1. CASE \E z \in EntriesOf(ixCache'[k]) : h = [key |-> z.key, val |-> z.val]
    <3>1. PICK z \in EntriesOf(ixCache'[k]) : h = [key |-> z.key, val |-> z.val] BY <2>1
    <3>2. CASE z \in EntriesOf(ixCache[k]) BY <3>1, <3>2 DEF IxHeldIn
    <3>3. CASE z \notin EntriesOf(ixCache[k])
      <4>1. k = l /\ z = e BY <1>16, <1>18, <1>22, <3>1, <3>3
      <4> QED BY <1>17, <1>19, <3>1, <4>1
    <3> QED BY <3>2, <3>3
  <2>2. CASE \E q \in IxReaders : ixReq'[q].at = "made" /\ ixReq'[q].layer = k /\ h = [key |-> ixReq'[q].key, val |-> ixReq'[q].val]
    <3>1. PICK q \in IxReaders : ixReq'[q].at = "made" /\ ixReq'[q].layer = k /\ h = [key |-> ixReq'[q].key, val |-> ixReq'[q].val]
      BY <2>2
    <3>2. ~same(q)
      <4>1. IxBusy(ixReq'[q]) BY <3>1 DEF IxBusy
      <4> QED BY <1>11, <4>1
    <3>3. ixReq'[q] = ixReq[q] BY <1>12, <3>2
    <3> QED BY <3>1, <3>3 DEF IxHeldIn
  <2> QED BY <2>1, <2>2 DEF IxHeldIn
<1>24. \A q \in IxReaders : \/ ixReq'[q] = ixReq[q]
                            \/ IxWell(ixReq'[q], IxWorld) /\ IxAsksOn(ixReq'[q], ixReq[q], IxWorld)
  BY <1>11, <1>12
<1> QED BY <1>2, <1>3, <1>4, <1>13, <1>21, <1>22, <1>23, <1>24, IxRequestsMove

-----------------------------------------------------------------------------
\* A request whose history has grown to cover what the store now is.
IxGrown(x, q) ==
  /\ IsReq(x) /\ x.at = q.at /\ x.layer = q.layer /\ x.key = q.key /\ x.p = q.p /\ x.op = q.op
  /\ x.cands = q.cands /\ x.count = q.count /\ x.shape = q.shape /\ x.val = q.val /\ x.have = q.have /\ x.left = q.left
  /\ q.may \subseteq x.may /\ x.must \subseteq q.must /\ q.counts \subseteq x.counts
  /\ \A id \in IxIds : q.versions[id] \subseteq x.versions[id]

LEMMA IxGrownSuits ==
  ASSUME NEW q, NEW x, NEW w, NEW z, NEW val, IxGrown(x, q), z.blind = w.blind, IxSuits(q, val, w)
  PROVE  IxSuits(x, val, z)
BY DEF IxGrown, IxSuits

LEMMA IxGrownWell ==
  ASSUME NEW q, NEW x, NEW w, NEW z, IxWell(q, w), IxGrown(x, q), IxStands(x, z),
         z.blind = w.blind, 0..w.gen \subseteq 0..z.gen
  PROVE  IxWell(x, z)
<1>1. IxPlaced(q, w) /\ IxGranted(q, w) /\ IxAnswered(q) BY DEF IxWell, IxBelongs
<1>2. IxPlaced(x, z) BY <1>1 DEF IxGrown, IxPlaced
<1>3. IxGranted(x, z)
  <2>1. ~z.blind /\ x.op # "filters" /\ (x.layer = "corpus" \/ x.at \in IxPaged) => x.cands \subseteq x.may /\ x.must \subseteq x.cands
    BY <1>1 DEF IxGrown, IxGranted
  <2>2. ~z.blind /\ x.op # "filters" /\ x.at \in {"keep", "shown"} => x.must \subseteq DOMAIN x.have
    BY <1>1 DEF IxGrown, IxGranted
  <2>3. z.blind /\ x.at = "shown" => \A id \in DOMAIN x.have : id \in IxIds /\ x.have[id] \in x.versions[id] /\ id \in x.may
    <3> SUFFICES ASSUME z.blind, x.at = "shown", NEW id \in DOMAIN x.have
                 PROVE  id \in IxIds /\ x.have[id] \in x.versions[id] /\ id \in x.may
        OBVIOUS
    <3>1. q.at = "shown" /\ w.blind /\ x.have = q.have BY DEF IxGrown
    <3>2. id \in IxIds /\ q.have[id] \in q.versions[id] /\ id \in q.may BY <1>1, <3>1 DEF IxGranted
    <3> QED BY <3>1, <3>2 DEF IxGrown
  <2>4. (x.at \in IxPaged => DOMAIN x.have \subseteq x.cands) /\ (x.at = "page" => x.left \subseteq x.cands)
        /\ (z.blind /\ x.at = "fetch" => DOMAIN x.have = {})
    BY <1>1 DEF IxGrown, IxGranted
  <2> QED BY <2>1, <2>2, <2>3, <2>4 DEF IxGranted
<1>4. IxAnswered(x) BY <1>1 DEF IxGrown, IxAnswered
<1>5. x.at = "made" => IxSuits(x, x.val, z)
  <2>1. x.at = "made" => IxSuits(q, x.val, w) BY DEF IxWell, IxGrown
  <2> QED BY <2>1, IxGrownSuits
<1>6. IsReq(x) BY DEF IxGrown
<1> QED BY <1>2, <1>3, <1>4, <1>5, <1>6 DEF IxWell, IxBelongs

\* The store, or its generation, moves under the requests.
LEMMA IxWorldMoves ==
  ASSUME IxInv, ixReq' = [q \in IxReaders |-> ixReq'[q]], ixBlind' = ixBlind,
         IxStoreHolds', ixCache' = ixCache, ixFlight' = ixFlight, 0..ixGen \subseteq 0..ixGen',
         \A q \in IxReaders : \/ ixReq[q] = ixIdle /\ ixReq'[q] = ixIdle
                              \/ ixReq[q] # ixIdle /\ IxGrown(ixReq'[q], ixReq[q]) /\ IxStands(ixReq'[q], IxWorld'),
         \A l \in IxAsked : \A key, val : IxFresh(l, key, val, IxWorld) => IxFresh(l, key, val, IxWorld')
  PROVE  IxInv'
<1>1. \A l : ixDirect(l)' = ixDirect(l) BY DEF ixDirect, ixTTL
<1>2. PICK w : w = IxWorld' OBVIOUS
<1>3. w.blind = IxWorld.blind /\ 0..IxWorld.gen \subseteq 0..w.gen BY <1>2 DEF IxWorld
<1>4. IxCacheHolds' BY DEF IxInv, IxCacheHolds
<1>5. \A q \in IxReaders : /\ ixReq'[q].at = ixReq[q].at
                           /\ ixReq[q].at # "idle" => IxGrown(ixReq'[q], ixReq[q])
  BY DEF IxGrown, ixIdle
<1>6. IxFlightHolds'
  <2>1. \A q \in IxReaders : IxBusy(ixReq'[q]) <=> IxBusy(ixReq[q]) BY <1>5 DEF IxBusy
  <2>2. \A q \in IxReaders : IxBusy(ixReq[q]) => ixReq'[q].layer = ixReq[q].layer /\ ixReq'[q].key = ixReq[q].key
    BY <1>5 DEF IxBusy, IxGrown
  <2> QED BY <2>1, <2>2, IxFlightSame
<1>7. IxReqsHold'
  <2>1. ASSUME NEW q \in IxReaders PROVE ixReq'[q] = ixIdle \/ IxWell(ixReq'[q], w)
    <3>1. CASE ixReq[q] = ixIdle /\ ixReq'[q] = ixIdle BY <3>1
    <3>2. CASE ixReq[q] # ixIdle /\ IxGrown(ixReq'[q], ixReq[q]) /\ IxStands(ixReq'[q], w)
      <4>1. IxWell(ixReq[q], IxWorld) BY <3>2 DEF IxInv, IxReqsHold
      <4> QED BY <1>3, <3>2, <4>1, IxGrownWell
    <3> QED BY <1>2, <3>1, <3>2
  <2> QED BY <1>2, <2>1 DEF IxReqsHold
<1>8. IxHeldFits'
  <2> SUFFICES ASSUME NEW l \in IxAsked, ~ixDirect(l)', NEW h \in IxHeldIn(l, ixCache', ixReq')
               PROVE  IxFits(l, h, ixReq', w)
      BY <1>2 DEF IxHeldFits
  <2>1. ~ixDirect(l) BY <1>1
  <2>2. h \in IxHeldIn(l, ixCache, ixReq)
    <3>1. \A q \in IxReaders : ixReq'[q].at = "made" => /\ ixReq[q].at = "made" /\ ixReq'[q].layer = ixReq[q].layer
                                                        /\ ixReq'[q].key = ixReq[q].key /\ ixReq'[q].val = ixReq[q].val
      BY <1>5 DEF IxGrown
    <3> QED BY <3>1 DEF IxHeldIn
  <2>3. IxFits(l, h, ixReq, IxWorld) BY <2>1, <2>2 DEF IxInv, IxHeldFits
  <2>4. IxFresh(l, h.key, h.val, w)
    <3>1. IxFresh(l, h.key, h.val, IxWorld) BY <2>3 DEF IxFits
    <3> QED BY <1>2, <3>1
  <2>5. ASSUME NEW q \in IxReaders, ixReq'[q].at \in IxAsking, ixReq'[q].layer = l, ixReq'[q].key = h.key
        PROVE  IxSuits(ixReq'[q], h.val, w)
    <3>1. ixReq[q].at \in IxAsking /\ IxGrown(ixReq'[q], ixReq[q]) BY <1>5, <2>5 DEF IxAsking
    <3>2. ixReq[q].layer = l /\ ixReq[q].key = h.key BY <2>5, <3>1 DEF IxGrown
    <3>3. IxSuits(ixReq[q], h.val, IxWorld) BY <2>3, <3>1, <3>2 DEF IxFits
    <3> QED BY <1>3, <3>1, <3>3, IxGrownSuits
  <2> QED BY <2>4, <2>5 DEF IxFits
<1> QED BY <1>4, <1>6, <1>7, <1>8 DEF IxInv

LEMMA IxCommitKeeps ==
  ASSUME IxInv, NEW id \in IxIds, NEW d \in IxDocuments \cup {None}, IxCommit(id, d)
  PROVE  IxInv'
<1>1. /\ ixWrites < IxMaxWrites /\ ixUntold = None
      /\ ixWrites' = ixWrites + 1 /\ ixDocs' = [ixDocs EXCEPT ![id] = d] /\ ixReq' = ixFollowed(ixDocs')
      /\ ixUntold' = IF ixBlind THEN None ELSE [id |-> id, was |-> ixDocs[id], dropped |-> FALSE]
      /\ UNCHANGED <<ixGen, ixCache, ixFlight, ixBlind, ixNow, ixBegun>>
  BY DEF IxCommit
<1>2. /\ ixDocs \in [IxIds -> IxDocuments \cup {None}] /\ ixBlind \in BOOLEAN /\ ixGen \in 0..ixWrites
      /\ ixWrites \in 0..IxMaxWrites /\ ixNow \in 0..IxMaxTime
  BY DEF IxInv, IxStoreHolds
<1>3. ixWasDocs = ixDocs BY <1>1 DEF ixWasDocs
<1>4. ASSUME ~ixBlind
      PROVE  ixUntold' \in IxTold /\ ixUntold' # None /\ ixWasDocs' = ixDocs
  <2>1. ixUntold' = [id |-> id, was |-> ixDocs[id], dropped |-> FALSE] BY <1>1, <1>4
  <2>2. ixUntold' \in IxTold /\ ixUntold'.id = id /\ ixUntold'.was = ixDocs[id] BY <1>2, <2>1 DEF IxTold
  <2>3. ixUntold' # None BY <2>2, IxAssumption DEF IxAssumption
  <2>4. ixWasDocs' = [ixDocs' EXCEPT ![id] = ixDocs[id]] BY <2>2, <2>3 DEF ixWasDocs
  <2>5. ixWasDocs' = ixDocs BY <1>1, <1>2, <2>4
  <2> QED BY <2>2, <2>3, <2>5
<1>5. ixBlind => ixUntold' = None /\ ixWasDocs' = ixDocs' BY <1>1 DEF ixWasDocs
<1>6. IxStoreHolds'
  <2>1. ixDocs' \in [IxIds -> IxDocuments \cup {None}] BY <1>1, <1>2
  <2>2. ixWrites' \in 0..IxMaxWrites /\ ixGen' \in 0..ixWrites' /\ ixGen' < ixWrites' BY <1>1, <1>2, IxAssumption DEF IxAssumption
  <2>3. ixUntold' \in IxTold \cup {None} /\ (ixUntold' # None => ~ixBlind) BY <1>2, <1>4, <1>5
  <2> QED BY <1>1, <1>2, <2>1, <2>2, <2>3 DEF IxStoreHolds
<1>7. PICK w : w = IxWorld' OBVIOUS
<1>8. w.docs = ixDocs' /\ w.was \in {ixDocs, ixDocs'} /\ (~ixBlind => w.was = ixDocs) /\ w.gen = ixGen /\ w.blind = ixBlind
  BY <1>1, <1>2, <1>4, <1>5, <1>7 DEF IxWorld
<1>9. IxWorld.docs = ixDocs /\ IxWorld.was = ixDocs /\ IxWorld.gen = ixGen /\ IxWorld.blind = ixBlind BY <1>3, IxWorldIs
<1>10. \A q \in IxReaders : \/ ixReq[q] = ixIdle /\ ixReq'[q] = ixIdle
                            \/ ixReq[q] # ixIdle /\ IxGrown(ixReq'[q], ixReq[q]) /\ IxStands(ixReq'[q], w)
  <2> SUFFICES ASSUME NEW q \in IxReaders, ixReq[q] # ixIdle
               PROVE  IxGrown(ixReq'[q], ixReq[q]) /\ IxStands(ixReq'[q], w)
    BY <1>1 DEF ixFollowed, ixIdle
  <2>1. IxWell(ixReq[q], IxWorld) BY DEF IxInv, IxReqsHold
  <2>2. IsReq(ixReq[q]) /\ IxStands(ixReq[q], IxWorld) /\ ixReq[q].at # "idle"
    BY <2>1 DEF IxWell, IxBelongs, IxPlaced, IxAsking, IxPaged
  <2>3. PICK y : y = ixReq[q] OBVIOUS
  <2>4. PICK x : x = ixReq'[q] OBVIOUS
  <2>5. x = [y EXCEPT !.may = @ \cup readable(ixDocs', y.p),
                      !.must = @ \cap readable(ixDocs', y.p),
                      !.counts = @ \cup {stored(ixDocs')},
                      !.versions = [i \in IxIds |-> @[i] \cup {versionOf(ixDocs', i)}]]
    BY <1>1, <2>2, <2>3, <2>4 DEF ixFollowed
  <2>6. PICK may, must, counts, versions :
          /\ may = y.may \cup readable(ixDocs', y.p) /\ must = y.must \cap readable(ixDocs', y.p)
          /\ counts = y.counts \cup {stored(ixDocs')}
          /\ versions = [i \in IxIds |-> y.versions[i] \cup {versionOf(ixDocs', i)}]
    OBVIOUS
  <2>7. x = [y EXCEPT !.may = may, !.must = must, !.counts = counts, !.versions = versions] BY <2>2, <2>3, <2>5, <2>6 DEF IsReq
  <2>8. /\ IsReq(x) /\ x.at = y.at /\ x.layer = y.layer /\ x.key = y.key /\ x.p = y.p /\ x.op = y.op
        /\ x.cands = y.cands /\ x.count = y.count /\ x.shape = y.shape /\ x.val = y.val /\ x.have = y.have /\ x.left = y.left
        /\ x.may = may /\ x.must = must /\ x.counts = counts /\ x.versions = versions
    BY <2>2, <2>3, <2>7 DEF IsReq
  <2>9. \A i \in IxIds : versions[i] = y.versions[i] \cup {versionOf(ixDocs', i)} BY <2>6
  <2>10. IxGrown(x, y) BY <2>6, <2>8, <2>9 DEF IxGrown
  <2>11. IxStands(y, IxWorld) BY <2>2, <2>3
  <2>12. readable(ixDocs, y.p) \subseteq y.may /\ y.must \subseteq readable(ixDocs, y.p) /\ stored(ixDocs) \in y.counts
    BY <1>9, <2>11 DEF IxStands
  <2>13. IxStands(x, w)
    <3>1. readable(w.docs, x.p) \subseteq x.may /\ readable(w.was, x.p) \subseteq x.may BY <1>8, <2>6, <2>8, <2>12
    <3>2. x.must \subseteq readable(w.docs, x.p) /\ x.must \subseteq readable(w.was, x.p) BY <1>8, <2>6, <2>8, <2>12
    <3>3. stored(w.docs) \in x.counts /\ stored(w.was) \in x.counts BY <1>8, <2>6, <2>8, <2>12
    <3>4. \A i \in IxIds : versionOf(w.docs, i) \in x.versions[i] BY <1>8, <2>8, <2>9
    <3> QED BY <3>1, <3>2, <3>3, <3>4 DEF IxStands
  <2> QED BY <2>3, <2>4, <2>10, <2>13
<1>11. ASSUME NEW l \in IxAsked, NEW key, NEW val, IxFresh(l, key, val, IxWorld)
       PROVE  IxFresh(l, key, val, w)
  BY <1>8, <1>9, <1>11 DEF IxFresh
<1>12. ixReq' = [q \in IxReaders |-> ixReq'[q]] BY <1>1 DEF ixFollowed
<1> QED BY <1>1, <1>6, <1>7, <1>10, <1>11, <1>12, IxWorldMoves

LEMMA IxBumpGenKeeps ==
  ASSUME IxInv, IxBumpGen
  PROVE  IxInv'
<1>1. /\ ixUntold # None /\ ixGen' = ixGen + 1 /\ ixUntold' = None
      /\ UNCHANGED <<ixDocs, ixCache, ixFlight, ixBlind, ixReq, ixNow, ixWrites, ixBegun>>
  BY DEF IxBumpGen
<1>2. IxStoreHolds BY DEF IxInv
<1>3. IxStoreHolds' BY <1>1, <1>2, IxAssumption DEF IxStoreHolds, IxAssumption
<1>4. ixGen \in Nat /\ ixGen' = ixGen + 1 BY <1>1, IxWorldIs
<1>5. PICK w : w = IxWorld' OBVIOUS
<1>6. w.docs = ixDocs /\ w.was = ixDocs /\ w.gen = ixGen + 1 /\ w.blind = ixBlind BY <1>1, <1>5 DEF IxWorld, ixWasDocs
<1>7. IxWorld.docs = ixDocs /\ IxWorld.gen = ixGen /\ IxWorld.blind = ixBlind BY IxWorldIs
<1>8. \A q \in IxReaders : \/ ixReq[q] = ixIdle /\ ixReq'[q] = ixIdle
                           \/ ixReq[q] # ixIdle /\ IxGrown(ixReq'[q], ixReq[q]) /\ IxStands(ixReq'[q], w)
  <2> SUFFICES ASSUME NEW q \in IxReaders, ixReq[q] # ixIdle
               PROVE  IxGrown(ixReq[q], ixReq[q]) /\ IxStands(ixReq[q], w)
    BY <1>1
  <2>1. IxWell(ixReq[q], IxWorld) BY DEF IxInv, IxReqsHold
  <2>2. IsReq(ixReq[q]) /\ IxStands(ixReq[q], IxWorld) BY <2>1 DEF IxWell, IxBelongs
  <2>3. IxGrown(ixReq[q], ixReq[q]) BY <2>2 DEF IxGrown
  <2>4. IxStands(ixReq[q], w) BY <1>6, <1>7, <2>2 DEF IxStands
  <2> QED BY <2>3, <2>4
<1>9. ASSUME NEW l \in IxAsked, NEW key, NEW val, IxFresh(l, key, val, IxWorld)
      PROVE  IxFresh(l, key, val, w)
  <2>1. 0..ixGen \subseteq 0..(ixGen + 1) /\ ixGen + 1 \notin 0..ixGen BY <1>4
  <2> QED BY <1>6, <1>7, <1>9, <2>1 DEF IxFresh
<1>10. ixReq' = [q \in IxReaders |-> ixReq'[q]] BY <1>1 DEF IxInv, IxReqsHold
<1>11. 0..ixGen \subseteq 0..ixGen' BY <1>4
<1> QED BY <1>1, <1>3, <1>5, <1>8, <1>9, <1>10, <1>11, IxWorldMoves

\* The cache loses entries and nobody's request moves.
LEMMA IxCacheMoves ==
  ASSUME IxInv, IxWorld' = IxWorld, ixBlind' = ixBlind, IxStoreHolds', IxCacheHolds', ixReq' = ixReq, ixFlight' = ixFlight,
         \A l \in IxAsked : EntriesOf(ixCache'[l]) \subseteq EntriesOf(ixCache[l])
  PROVE  IxInv'
<1>1. ixReq' = [q \in IxReaders |-> ixReq'[q]] BY DEF IxInv, IxReqsHold
<1>2. \A l \in IxAsked : IxHeldIn(l, ixCache', ixReq') \subseteq IxHeldIn(l, ixCache, ixReq) BY DEF IxHeldIn
<1>3. IxFlightHolds' BY IxFlightSame
<1> QED BY <1>1, <1>2, <1>3, IxRequestsMove

LEMMA IxDropDocsKeeps ==
  ASSUME IxInv, IxDropDocs
  PROVE  IxInv'
<1> DEFINE ll == remove(ixCache["docs"], ixUntold.id)
<1>1. /\ ixUntold # None /\ ixUntold' = [ixUntold EXCEPT !.dropped = TRUE]
      /\ ixCache' = [ixCache EXCEPT !["docs"] = ll]
      /\ UNCHANGED <<ixDocs, ixGen, ixFlight, ixBlind, ixReq, ixNow, ixWrites, ixBegun>>
  BY DEF IxDropDocs
<1>2. IxStoreHolds /\ ixUntold \in IxTold BY <1>1 DEF IxInv, IxStoreHolds
<1>3. ixUntold' \in IxTold /\ ixUntold'.id = ixUntold.id /\ ixUntold'.was = ixUntold.was BY <1>1, <1>2 DEF IxTold
<1>4. ixUntold' # None BY <1>3, IxAssumption DEF IxAssumption
<1>5. IxWorld' = IxWorld
  <2>1. ixWasDocs' = ixWasDocs BY <1>1, <1>3, <1>4 DEF ixWasDocs
  <2> QED BY <1>1, <2>1 DEF IxWorld
<1>6. IxStoreHolds' BY <1>1, <1>2, <1>3 DEF IxStoreHolds
<1>7. IsShard(ixCache["docs"], IxCap) /\ IxCap \in Nat BY IxShards DEF Layers
<1>8. IsShard(ll, IxCap)
  <2>1. ixCache["docs"] \in Seq(EntriesOf(ixCache["docs"])) /\ Len(ixCache["docs"]) <= IxCap /\ Len(ixCache["docs"]) \in Nat
    BY <1>7, LenProperties DEF IsShard
  <2>2. ll \in Seq(EntriesOf(ixCache["docs"])) /\ Len(ll) <= Len(ixCache["docs"]) BY <2>1, RemoveWell
  <2>3. Len(ll) \in Nat BY <2>2, LenProperties
  <2>4. Len(ll) <= IxCap BY <1>7, <2>1, <2>2, <2>3
  <2> QED BY <2>2, <2>4, ShardOf
<1> HIDE DEF ll
<1>9. IxCacheHolds' /\ \A k \in Layers : k # "docs" => ixCache'[k] = ixCache[k] BY <1>1, <1>8, IxCacheEdit DEF Layers
<1>10. \A l \in IxAsked : EntriesOf(ixCache'[l]) \subseteq EntriesOf(ixCache[l]) BY <1>9 DEF IxAsked, Layers
<1> QED BY <1>1, <1>5, <1>6, <1>9, <1>10, IxCacheMoves

LEMMA IxEmptyShard == IsShard(<<>>, IxCap) /\ EntriesOf(<<>>) = {}
<1>1. EntriesOf(<<>>) = {} BY DEF EntriesOf
<1>2. <<>> \in Seq({}) /\ Len(<<>>) = 0 OBVIOUS
<1> QED BY <1>1, <1>2, IxAssumption DEF IsShard, IxAssumption

LEMMA IxClearKeeps ==
  ASSUME IxInv, IxClear
  PROVE  IxInv'
<1>1. /\ ixCache' = [l \in Layers |-> <<>>]
      /\ UNCHANGED <<ixDocs, ixGen, ixUntold, ixFlight, ixBlind, ixReq, ixNow, ixWrites, ixBegun>>
  BY DEF IxClear
<1>2. IxWorldStays /\ IxWorld' = IxWorld /\ ixBlind' = ixBlind BY <1>1, IxSameWorld DEF IxWorldStays
<1>3. IxStoreHolds' BY <1>1 DEF IxInv, IxStoreHolds
<1>4. IxCacheHolds' BY <1>1, IxEmptyShard DEF IxCacheHolds
<1>5. \A l \in IxAsked : EntriesOf(ixCache'[l]) \subseteq EntriesOf(ixCache[l]) BY <1>1, IxEmptyShard DEF IxAsked, Layers
<1> QED BY <1>1, <1>2, <1>3, <1>4, <1>5, IxCacheMoves

LEMMA IxTickKeeps ==
  ASSUME IxInv, IxTick
  PROVE  IxInv'
<1>1. /\ ixNow < IxMaxTime /\ ixNow' = ixNow + 1
      /\ UNCHANGED <<ixDocs, ixGen, ixUntold, ixCache, ixFlight, ixBlind, ixReq, ixWrites, ixBegun>>
  BY DEF IxTick
<1>2. IxWorldStays /\ IxWorld' = IxWorld /\ ixBlind' = ixBlind BY <1>1, IxSameWorld DEF IxWorldStays
<1>3. IxStoreHolds' BY <1>1, IxAssumption DEF IxInv, IxStoreHolds, IxAssumption
<1>4. IxCacheHolds' BY <1>1 DEF IxInv, IxCacheHolds
<1> QED BY <1>1, <1>2, <1>3, <1>4, IxCacheMoves

LEMMA IxInitHolds == IxInit => IxInv
<1> SUFFICES ASSUME IxInit PROVE IxInv OBVIOUS
<1>1. /\ ixDocs \in [IxIds -> {IxNewDoc, None}] /\ ixGen = 0 /\ ixUntold = None
      /\ ixCache = [l \in Layers |-> <<>>] /\ ixFlight = [l \in Layers |-> {}] /\ ixBlind \in BOOLEAN
      /\ ixReq = [r \in IxReaders |-> ixIdle] /\ ixNow = 0 /\ ixWrites = 0
  BY DEF IxInit
<1>2. IxStoreHolds
  <2>1. ixDocs \in [IxIds -> IxDocuments \cup {None}] BY <1>1, IxAssumption DEF IxAssumption
  <2> QED BY <1>1, <2>1, IxAssumption DEF IxStoreHolds, IxAssumption
<1>3. IxCacheHolds BY <1>1, IxEmptyShard DEF IxCacheHolds
<1>4. IxReqsHold BY <1>1 DEF IxReqsHold
<1>5. \A q \in IxReaders : ixReq[q].at = "idle" BY <1>1 DEF ixIdle
<1>6. IxFlightHolds
  <2>1. \A q \in IxReaders : ~IxBusy(ixReq[q]) BY <1>5 DEF IxBusy
  <2> QED BY <1>1, <2>1 DEF IxFlightHolds
<1>7. IxHeldFits
  <2>1. \A l \in IxAsked : IxHeldIn(l, ixCache, ixReq) = {}
    <3>1. \A l \in IxAsked : EntriesOf(ixCache[l]) = {} BY <1>1, IxEmptyShard DEF IxAsked, Layers
    <3> QED BY <1>5, <3>1 DEF IxHeldIn
  <2> QED BY <2>1 DEF IxHeldFits
<1> QED BY <1>2, <1>3, <1>4, <1>6, <1>7 DEF IxInv

\* What is saved, edited, shared or deleted is a document, or none.
LEMMA IxWrittenIs ==
  ASSUME IxInv, NEW id \in IxIds, NEW d \in IxWritten(id)
  PROVE  d \in IxDocuments \cup {None}
<1>1. ixDocs[id] \in IxDocuments \cup {None} BY DEF IxInv, IxStoreHolds
<1>2. CASE d \in {IxNewDoc, None} BY <1>2, IxAssumption DEF IxAssumption
<1>3. CASE ixDocs[id] \in IxDocuments /\ d = [ixDocs[id] EXCEPT !.ver = @ + 1] BY <1>3 DEF IxDocuments
<1>4. CASE ixDocs[id] \in IxDocuments /\ \E p \in IxAskers : d = [ixDocs[id] EXCEPT !.readers = @ \ {p}] BY <1>4 DEF IxDocuments
<1> QED BY <1>1, <1>2, <1>3, <1>4 DEF IxWritten

LEMMA IxNextKeeps ==
  ASSUME IxInv, [IxNext]_ixVars
  PROVE  IxInv'
<1>1. CASE UNCHANGED ixVars
  <2>1. IxWorldStays /\ IxWorld' = IxWorld /\ ixBlind' = ixBlind BY <1>1, IxSameWorld DEF IxWorldStays, ixVars
  <2>2. IxStoreHolds' /\ IxCacheHolds' BY <1>1 DEF IxInv, IxStoreHolds, IxCacheHolds, ixVars
  <2> QED BY <1>1, <2>1, <2>2, IxCacheMoves DEF ixVars
<1>2. ASSUME NEW id \in IxIds, NEW d \in IxWritten(id), IxCommit(id, d) PROVE IxInv' BY <1>2, IxWrittenIs, IxCommitKeeps
<1>3. CASE IxDropDocs \/ IxBumpGen \/ IxClear \/ IxTick
  BY <1>3, IxDropDocsKeeps, IxBumpGenKeeps, IxClearKeeps, IxTickKeeps
<1>4. ASSUME NEW r \in IxReaders, NEW p \in IxAskers, NEW op \in {"search", "recent", "filters"}, IxBegin(r, p, op) PROVE IxInv'
  <2>1. op \in IxOps BY DEF IxOps
  <2> QED BY <1>4, <2>1, IxBeginKeeps
<1>5. ASSUME NEW r \in IxReaders, IxLookup(r) \/ IxProduce(r) \/ IxDeliver(r) \/ IxFails(r) PROVE IxInv'
  BY <1>5, IxLookupKeeps, IxProduceKeeps, IxDeliverKeeps, IxFailsKeeps
<1>6. ASSUME NEW r \in IxReaders, IxRead(r) \/ IxDone(r) PROVE IxInv' BY <1>6, IxReadKeeps, IxDoneKeeps
<1>7. ASSUME NEW r \in IxReaders, NEW id \in IxIds, IxDocument(r, id) \/ IxPutDocument(r, id) PROVE IxInv'
  BY <1>7, IxDocumentKeeps, IxPutDocumentKeeps
<1> QED BY <1>1, <1>2, <1>3, <1>4, <1>5, <1>6, <1>7 DEF IxNext

LEMMA IxInvPermits == IxInv => ResultsArePermitted
<1> SUFFICES ASSUME IxInv PROVE ResultsArePermitted OBVIOUS
<1>1. ASSUME NEW r \in IxReaders, ixReq[r].at # "idle"
      PROVE  IxPlaced(ixReq[r], IxWorld) /\ IxGranted(ixReq[r], IxWorld) /\ IxAnswered(ixReq[r])
  BY <1>1, IxThere DEF IxWell, IxBelongs
<1>2. IxWorld.blind = ixBlind BY IxWorldIs
<1>3. IxTypeOK
  <2>1. ixGen \in 0..IxMaxWrites /\ ixNow \in 0..IxMaxTime BY IxAssumption DEF IxInv, IxStoreHolds, IxAssumption
  <2>2. \A l \in Layers : Len(ixCache[l]) <= IxCap BY IxShards DEF IsShard
  <2>3. ASSUME NEW r \in IxReaders
        PROVE  ixReq[r].at \in {"idle", "want", "wait", "run", "made", "page", "fetch", "keep", "shown"}
    <3>1. CASE ixReq[r].at = "idle" BY <3>1
    <3>2. CASE ixReq[r].at # "idle" BY <1>1, <3>2 DEF IxPlaced, IxAsking, IxPaged
    <3> QED BY <3>1, <3>2
  <2>4. \A l \in Layers : ixFlight[l] = {ixReq[r].key : r \in {q \in IxReaders :
          ixReq[q].at \in {"run", "made"} /\ ixReq[q].layer = l /\ ~ixDirect(l)}}
    BY DEF IxInv, IxFlightHolds, IxBusy
  <2> QED BY <2>1, <2>2, <2>3, <2>4 DEF IxTypeOK
<1>4. RevokedNotShown
  <2> SUFFICES ASSUME ~ixBlind, NEW r \in IxReaders, NEW id \in shownBy(r) PROVE id \in ixReq[r].may
      BY DEF RevokedNotShown
  <2>1. ixReq[r].at = "shown" /\ ixReq[r].op # "filters" /\ id \in DOMAIN ixReq[r].have BY DEF shownBy
  <2> QED BY <1>1, <1>2, <2>1 DEF IxGranted, IxPaged
<1>5. SavedIsFound
  <2> SUFFICES ASSUME ~ixBlind, NEW r \in IxReaders, ixReq[r].at = "shown", ixReq[r].op # "filters"
               PROVE  ixReq[r].must \subseteq shownBy(r)
      BY DEF SavedIsFound
  <2>1. ixReq[r].must \subseteq DOMAIN ixReq[r].have BY <1>1, <1>2 DEF IxGranted
  <2> QED BY <2>1 DEF shownBy
<1>6. CorpusIsCurrent BY <1>1 DEF CorpusIsCurrent, IxAnswered, IxPaged
<1>7. ShapeIsOwn BY <1>1 DEF ShapeIsOwn, IxAnswered
<1>8. BlindReadsThrough
  <2> SUFFICES ASSUME ixBlind, NEW r \in IxReaders, NEW id \in shownBy(r)
               PROVE  ixReq[r].have[id] \in ixReq[r].versions[id] /\ id \in ixReq[r].may
      BY DEF BlindReadsThrough
  <2>1. ixReq[r].at = "shown" /\ id \in DOMAIN ixReq[r].have BY DEF shownBy
  <2> QED BY <1>1, <1>2, <2>1 DEF IxGranted
<1> QED BY <1>3, <1>4, <1>5, <1>6, <1>7, <1>8 DEF ResultsArePermitted

\* Whatever was reused from other requests, whoever wrote meanwhile and whichever
\* read failed, nobody is shown what he could not read at some moment since he
\* asked, and what was saved before it and stayed readable is found: for every
\* number of documents, people and requests, and every lifetime and capacity of
\* the four layers (index/cache.go).
THEOREM ResultsPermitted == IxSpec => []ResultsArePermitted
<1>1. IxInv /\ [IxNext]_ixVars => IxInv' BY IxNextKeeps
<1> QED BY <1>1, IxInitHolds, IxInvPermits, PTL DEF IxSpec
-----------------------------------------------------------------------------
(***************************************************************************)
(* The recheck.  A word that a row may be read is worth no more than when  *)
(* it was last true at the source: RcWithin bounds that moment by the      *)
(* revocation, and every place a word can be (an answer on its way, an     *)
(* entry of the shard, a row of a page) keeps the bound with an allowance  *)
(* of its own.  A row refused on a page is counted, or still waits for an  *)
(* answer: RcRefused holds the ones that are counted and not yet shown.    *)
(***************************************************************************)
RcWorld == [now |-> rcNow, revoked |-> rcRevoked, unchecked |-> rcUnchecked]
RcWithin(w, p, id, n) ==
  sourceOf(id) \notin w.unchecked /\ w.revoked[p, id] # None => n <= w.revoked[p, id]

RcFresh == 1 - RcTTL - RcTimeout
RcReused == 1 - RcTTL - 2 * RcTimeout

RcWorldHolds ==
  /\ rcNow \in 0..RcMaxTime /\ rcCheckers \subseteq RcSources
  /\ rcRevoked \in [RcAskers \X RcIds -> (0..rcNow) \cup {None}]
  /\ RcSources \ rcCheckers \subseteq rcUnchecked

RcEntry(e, w) ==
  /\ e.val \in BOOLEAN /\ e.expires \in Nat \ {0} /\ e.expires <= w.now + RcTTL
  /\ \A p \in RcAskers, id \in RcIds : e.key = rcKey(p, id) /\ e.val => RcWithin(w, p, id, e.expires - RcTTL - RcTimeout)
RcShardHolds ==
  /\ IsShard(rcShard, RcCap)
  /\ \A e \in EntriesOf(rcShard) : RcEntry(e, RcWorld)

RcPlaces == {"grouping", "asking", "applying", "shown"}
RcAnswers(r, p, w, deadline) ==
  /\ r.source \in RcSources
  /\ \A id \in DOMAIN r.allowed :
       id \in RcIds /\ r.allowed[id] \in BOOLEAN /\ (r.allowed[id] => RcWithin(w, p, id, deadline - RcTimeout))
IsPage(page) ==
  page = [at |-> page.at, todo |-> page.todo, out |-> page.out, ask |-> page.ask, launched |-> page.launched,
          left |-> page.left, ready |-> page.ready, hand |-> page.hand, deadline |-> page.deadline, when |-> page.when]
RcShape(page) ==
  /\ IsPage(page) /\ page.at \in RcPlaces
  /\ page.todo \subseteq RcIds /\ page.out \in [RcIds -> BOOLEAN] /\ page.ask \subseteq RcIds
  /\ page.launched \subseteq RcSources /\ page.left \subseteq RcSources
  /\ page.deadline \in Nat /\ page.when \in Nat
RcPlaced(page) ==
  /\ page.at \in {"grouping", "shown"} => page.ready = {}
  /\ page.at = "asking" => page.todo = {}
  /\ \A r \in page.ready : r.source \in page.left \cap page.launched
  /\ \A r1, r2 \in page.ready : r1.source = r2.source => r1 = r2
  /\ page.at = "applying" => \A id \in page.todo : sourceOf(id) = page.hand.source
RcTimely(page, w) ==
  /\ page.at = "grouping" => page.deadline = w.now
  /\ page.at \in {"asking", "applying"} => w.now <= page.deadline /\ page.deadline <= w.now + RcTimeout
  /\ page.at = "shown" => page.when <= w.now
RcAllow(page) ==
  CASE page.at = "grouping" -> page.deadline + RcFresh
    [] page.at = "shown" -> page.when + RcReused
    [] OTHER -> page.deadline + RcReused
RcStill(page, p, w) ==
  /\ \A id \in RcIds : page.out[id] => RcWithin(w, p, id, RcAllow(page))
  /\ \A r \in page.ready : RcAnswers(r, p, w, page.deadline)
  /\ page.at = "applying" => RcAnswers(page.hand, p, w, page.deadline)
RcPage(page, p, w) ==
  page = rcIdle \/ (RcShape(page) /\ RcPlaced(page) /\ RcTimely(page, w) /\ RcStill(page, p, w))
RcPagesHold ==
  /\ rcPage = [g \in RcPages |-> rcPage[g]]
  /\ \A g \in RcPages : RcPage(rcPage[g], RcAsker[g], RcWorld)

RcRefuses(page, s, id) ==
  /\ page.at \in {"grouping", "asking", "applying"}
  /\ sourceOf(id) = s /\ ~page.out[id]
  /\ id \notin page.todo /\ (id \notin page.ask \/ s \notin page.left)
RcRefused(s) == {x \in RcPages \X RcIds : RcRefuses(rcPage[x[1]], s, x[2])}
RcCountsHold ==
  /\ rcCounts \in [RcSources -> [checked: Nat, denied: Nat, failed: Nat]]
  /\ rcHidden \in [RcSources -> Nat]
  /\ \A s \in RcSources : Cardinality(RcRefused(s)) + rcHidden[s] <= rcCounts[s].denied + rcCounts[s].failed

RcInv == RcWorldHolds /\ RcShardHolds /\ RcPagesHold /\ RcCountsHold

-----------------------------------------------------------------------------
(* Counting. *)
LEMMA RcIdsFinite == IsFiniteSet(RcIds)
<1> DEFINE D == 1..Len(RcItems)
           f == [n \in D |-> RcItems[n].id]
<1>1. RcItems \in Seq(ToSet(RcItems)) BY RcAssumption DEF RcAssumption
<1>2. Len(RcItems) \in Nat /\ DOMAIN RcItems = D BY <1>1, LenProperties
<1>3. IsFiniteSet(D) BY <1>2, FS_Interval
<1>4. \A x \in RcIds : \E n \in D : f[n] = x
  <2>1. ToSet(RcItems) = {RcItems[n] : n \in D} BY <1>2 DEF ToSet
  <2> QED BY <2>1 DEF RcIds
<1>5. \A n \in D : f[n] \in RcIds
  <2>1. ToSet(RcItems) = {RcItems[n] : n \in D} BY <1>2 DEF ToSet
  <2> QED BY <2>1 DEF RcIds
<1>6. f \in Surjection(D, RcIds) BY <1>4, <1>5 DEF Surjection
<1> QED BY <1>3, <1>6, FS_Surjection

LEMMA RcSourceOf ==
  ASSUME NEW id \in RcIds
  PROVE  sourceOf(id) \in RcSources
<1>1. PICK it \in ToSet(RcItems) : it.id = id BY DEF RcIds
<1>2. PICK x : x = CHOOSE y \in ToSet(RcItems) : y.id = id OBVIOUS
<1>3. x \in ToSet(RcItems) BY <1>1, <1>2
<1> QED BY <1>2, <1>3, RcAssumption DEF sourceOf, RcAssumption

\* What is put beside a finite set is counted once.
RcFits(Q, C, H, P, B, N) ==
  /\ IsFiniteSet(P) /\ IsFiniteSet(N) /\ IsFiniteSet(H)
  /\ \E g : B = {g} \X N /\ C = {g} \X H
  /\ Q \cup C \subseteq P \cup B /\ Q \cap C = {}
LEMMA RcBeside ==
  ASSUME NEW P, NEW N, NEW H, NEW Q, NEW B, NEW C, RcFits(Q, C, H, P, B, N)
  PROVE  /\ IsFiniteSet(Q) /\ Cardinality(Q) \in Nat /\ Cardinality(P) \in Nat
         /\ Cardinality(N) \in Nat /\ Cardinality(H) \in Nat
         /\ Cardinality(Q) + Cardinality(H) <= Cardinality(P) + Cardinality(N)
<1>1. /\ IsFiniteSet(P) /\ IsFiniteSet(N) /\ IsFiniteSet(H)
      /\ Q \cup C \subseteq P \cup B /\ Q \cap C = {}
  BY DEF RcFits
<1> PICK g : B = {g} \X N /\ C = {g} \X H BY DEF RcFits
<1>2. IsFiniteSet({g}) /\ Cardinality({g}) = 1 BY FS_Singleton
<1>3. /\ Cardinality(P) \in Nat /\ Cardinality(N) \in Nat /\ Cardinality(H) \in Nat
  BY <1>1, FS_CardinalityType
<1>4. IsFiniteSet(B) /\ Cardinality(B) = Cardinality(N)
  <2>1. IsFiniteSet(B) /\ Cardinality(B) = Cardinality({g}) * Cardinality(N) BY <1>1, <1>2, FS_Product
  <2> QED BY <1>2, <1>3, <2>1
<1>5. IsFiniteSet(C) /\ Cardinality(C) = Cardinality(H)
  <2>1. IsFiniteSet(C) /\ Cardinality(C) = Cardinality({g}) * Cardinality(H) BY <1>1, <1>2, FS_Product
  <2> QED BY <1>2, <1>3, <2>1
<1>6. /\ IsFiniteSet(P \cup B) /\ IsFiniteSet(P \cap B)
      /\ Cardinality(P \cup B) = Cardinality(P) + Cardinality(B) - Cardinality(P \cap B)
  <2>1. P \cap B \in SUBSET P OBVIOUS
  <2> QED BY <1>1, <1>4, <2>1, FS_Union, FS_Subset
<1>7. Cardinality(P \cup B) <= Cardinality(P) + Cardinality(N) /\ Cardinality(P \cup B) \in Nat
  BY <1>3, <1>4, <1>6, FS_CardinalityType
<1>8. IsFiniteSet(Q) /\ Cardinality(Q) \in Nat
  <2>1. Q \in SUBSET (P \cup B) BY <1>1
  <2> QED BY <1>6, <2>1, FS_Subset, FS_CardinalityType
<1>9. IsFiniteSet(Q \cup C) /\ Cardinality(Q \cup C) = Cardinality(Q) + Cardinality(H)
  <2>1. Q \cap C = {} BY <1>1
  <2>2. IsFiniteSet(Q \cup C) /\ Cardinality(Q \cup C) = Cardinality(Q) + Cardinality(C) - Cardinality(Q \cap C)
    BY <1>5, <1>8, FS_Union
  <2>3. Cardinality(Q \cap C) = 0 BY <2>1, FS_EmptySet
  <2> QED BY <1>3, <1>5, <1>8, <2>2, <2>3
<1>10. Cardinality(Q \cup C) <= Cardinality(P \cup B)
  <2>1. Q \cup C \in SUBSET (P \cup B) BY <1>1
  <2> QED BY <1>6, <2>1, FS_Subset
<1> QED BY <1>3, <1>7, <1>8, <1>9, <1>10

LEMMA RcRefusedFinite ==
  ASSUME NEW s
  PROVE  IsFiniteSet(RcRefused(s))
<1>1. IsFiniteSet(RcPages \X RcIds) BY RcIdsFinite, RcAssumption, FS_Product DEF RcAssumption
<1>2. RcRefused(s) \in SUBSET (RcPages \X RcIds) BY DEF RcRefused
<1> QED BY <1>1, <1>2, FS_Subset

\* A page that changes: what is refused on it, or shown without (H), was refused
\* on it before or is refused now (N).
LEMMA RcCountPage ==
  ASSUME NEW s \in RcSources, NEW g \in RcPages, NEW page, NEW N \in SUBSET RcIds, NEW H \in SUBSET RcIds,
         rcPage = [h \in RcPages |-> rcPage[h]],
         rcPage' = [rcPage EXCEPT ![g] = page],
         \A id \in RcIds : RcRefuses(page, s, id) \/ id \in H => RcRefuses(rcPage[g], s, id) \/ id \in N,
         \A id \in H : ~RcRefuses(page, s, id)
  PROVE  /\ Cardinality(RcRefused(s)') \in Nat /\ Cardinality(RcRefused(s)) \in Nat
         /\ Cardinality(N) \in Nat /\ Cardinality(H) \in Nat
         /\ Cardinality(RcRefused(s)') + Cardinality(H) <= Cardinality(RcRefused(s)) + Cardinality(N)
<1>1. PICK P : P = RcRefused(s) OBVIOUS
<1>2. PICK Q : Q = {x \in RcPages \X RcIds : RcRefuses(rcPage'[x[1]], s, x[2])} OBVIOUS
<1>3. RcRefused(s)' = Q BY <1>2 DEF RcRefused, RcRefuses
<1>4. \A h \in RcPages : rcPage'[h] = IF h = g THEN page ELSE rcPage[h] OBVIOUS
<1>5. \A h \in RcPages, id \in RcIds : <<h, id>> \in Q <=> RcRefuses(IF h = g THEN page ELSE rcPage[h], s, id)
  BY <1>2, <1>4
<1>6. \A h \in RcPages, id \in RcIds : <<h, id>> \in P <=> RcRefuses(rcPage[h], s, id)
  BY <1>1 DEF RcRefused
<1>7. Q \subseteq RcPages \X RcIds BY <1>2
<1>8. PICK B : B = {g} \X N OBVIOUS
<1>9. PICK C : C = {g} \X H OBVIOUS
<1>10. Q \cup C \subseteq P \cup B
  <2> SUFFICES ASSUME NEW x \in Q PROVE x \in P \cup B BY <1>6, <1>8, <1>9
  <2>1. PICK h \in RcPages, id \in RcIds : x = <<h, id>> BY <1>7
  <2>2. CASE h = g BY <1>5, <1>6, <1>8, <2>1, <2>2
  <2>3. CASE h # g BY <1>5, <1>6, <2>1, <2>3
  <2> QED BY <2>2, <2>3
<1>11. Q \cap C = {} BY <1>5, <1>9
<1>12. IsFiniteSet(P) BY <1>1, RcRefusedFinite
<1>13. IsFiniteSet(N) /\ IsFiniteSet(H) BY RcIdsFinite, FS_Subset
<1>14. /\ Cardinality(Q) \in Nat /\ Cardinality(P) \in Nat /\ Cardinality(N) \in Nat /\ Cardinality(H) \in Nat
       /\ Cardinality(Q) + Cardinality(H) <= Cardinality(P) + Cardinality(N)
  <2>1. RcFits(Q, C, H, P, B, N) BY <1>8, <1>9, <1>10, <1>11, <1>12, <1>13 DEF RcFits
  <2> QED BY <2>1, RcBeside
<1> QED BY <1>1, <1>3, <1>14

-----------------------------------------------------------------------------
(* The world moves under the pages. *)
RcMoves(w, v) ==
  /\ w.now \in Nat /\ v.now \in Nat
  /\ w.unchecked \subseteq v.unchecked /\ w.now <= v.now /\ v.now <= w.now + 1
  /\ \A p \in RcAskers, id \in RcIds :
       \/ v.revoked[p, id] = w.revoked[p, id]
       \/ w.revoked[p, id] = None /\ v.revoked[p, id] = w.now

LEMMA RcWithinMoves ==
  ASSUME NEW w, NEW v, RcMoves(w, v), NEW p \in RcAskers, NEW id \in RcIds, NEW n \in Int,
         n <= w.now, RcWithin(w, p, id, n)
  PROVE  RcWithin(v, p, id, n)
<1>1. PICK x : x = w.revoked[p, id] OBVIOUS
<1>2. PICK y : y = v.revoked[p, id] OBVIOUS
<1>3. y = x \/ (x = None /\ y = w.now) BY <1>1, <1>2 DEF RcMoves
<1>4. sourceOf(id) \notin v.unchecked => sourceOf(id) \notin w.unchecked BY DEF RcMoves
<1>5. sourceOf(id) \notin w.unchecked /\ x # None => n <= x BY <1>1 DEF RcWithin
<1>6. sourceOf(id) \notin v.unchecked /\ y # None => n <= y BY <1>3, <1>4, <1>5
<1> QED BY <1>2, <1>6 DEF RcWithin

LEMMA RcEntryMoves ==
  ASSUME NEW w, NEW v, RcMoves(w, v), NEW e, RcEntry(e, w)
  PROVE  RcEntry(e, v)
<1>1. /\ e.val \in BOOLEAN /\ e.expires \in Nat \ {0} /\ e.expires <= w.now + RcTTL
      /\ \A p \in RcAskers, id \in RcIds : e.key = rcKey(p, id) /\ e.val => RcWithin(w, p, id, e.expires - RcTTL - RcTimeout)
  BY DEF RcEntry
<1>2. /\ w.now \in Nat /\ v.now \in Nat /\ w.now <= v.now BY DEF RcMoves
<1>3. RcTTL \in Nat /\ RcTimeout \in Nat BY RcAssumption DEF RcAssumption
<1>4. PICK n : n = e.expires - RcTTL - RcTimeout OBVIOUS
<1>5. n \in Int /\ n <= w.now /\ e.expires <= v.now + RcTTL BY <1>1, <1>2, <1>3, <1>4
<1>6. \A p \in RcAskers, id \in RcIds : e.key = rcKey(p, id) /\ e.val => RcWithin(v, p, id, n)
  BY <1>1, <1>4, <1>5, RcWithinMoves
<1> QED BY <1>1, <1>4, <1>5, <1>6 DEF RcEntry

LEMMA RcAnswersMove ==
  ASSUME NEW w, NEW v, RcMoves(w, v), NEW p \in RcAskers, NEW deadline \in Nat, deadline <= w.now + RcTimeout,
         NEW r, RcAnswers(r, p, w, deadline)
  PROVE  RcAnswers(r, p, v, deadline)
<1>1. w.now \in Nat BY DEF RcMoves
<1>2. RcTimeout \in Nat BY RcAssumption DEF RcAssumption
<1>3. PICK n : n = deadline - RcTimeout OBVIOUS
<1>4. n \in Int /\ n <= w.now BY <1>1, <1>2, <1>3
<1>5. \A id \in RcIds : RcWithin(w, p, id, n) => RcWithin(v, p, id, n) BY <1>4, RcWithinMoves
<1> QED BY <1>3, <1>5 DEF RcAnswers

RcWaits(page, w, v) == page.at \in {"grouping", "asking", "applying"} => v.now = w.now \/ w.now < page.deadline

LEMMA RcPageMoves ==
  ASSUME NEW w, NEW v, RcMoves(w, v), NEW p \in RcAskers, NEW page, RcWaits(page, w, v), RcPage(page, p, w)
  PROVE  RcPage(page, p, v)
<1>1. CASE page = rcIdle BY <1>1 DEF RcPage
<1>2. CASE page # rcIdle
  <2>1. RcShape(page) /\ RcPlaced(page) /\ RcTimely(page, w) /\ RcStill(page, p, w) BY <1>2 DEF RcPage
  <2>2. w.now \in Nat /\ v.now \in Nat /\ w.now <= v.now /\ v.now <= w.now + 1 BY DEF RcMoves
  <2>3. RcTTL \in Nat \ {0} /\ RcTimeout \in Nat \ {0} BY RcAssumption DEF RcAssumption
  <2>4. page.deadline \in Nat /\ page.when \in Nat /\ page.at \in RcPlaces BY <2>1 DEF RcShape
  <2>5. RcTimely(page, v) BY <2>1, <2>2, <2>3, <2>4 DEF RcTimely, RcWaits
  <2>6. RcAllow(page) \in Int /\ RcAllow(page) <= w.now
    BY <2>1, <2>2, <2>3, <2>4 DEF RcAllow, RcTimely, RcFresh, RcReused, RcPlaces
  <2>7. \A id \in RcIds : page.out[id] => RcWithin(v, p, id, RcAllow(page))
    <3>1. PICK n : n = RcAllow(page) OBVIOUS
    <3>2. \A id \in RcIds : RcWithin(w, p, id, n) => RcWithin(v, p, id, n) BY <2>6, <3>1, RcWithinMoves
    <3> QED BY <2>1, <3>1, <3>2 DEF RcStill
  <2>8. page.ready # {} \/ page.at = "applying" => page.deadline <= w.now + RcTimeout
    BY <2>1, <2>2, <2>3, <2>4 DEF RcTimely, RcPlaces, RcPlaced
  <2>9. \A r \in page.ready : RcAnswers(r, p, v, page.deadline)
    BY <2>1, <2>4, <2>8, RcAnswersMove DEF RcStill
  <2>10. page.at = "applying" => RcAnswers(page.hand, p, v, page.deadline)
    BY <2>1, <2>4, <2>8, RcAnswersMove DEF RcStill
  <2> QED BY <2>1, <2>5, <2>7, <2>9, <2>10 DEF RcPage, RcStill
<1> QED BY <1>1, <1>2

\* Nothing but the world moves.
LEMMA RcInvMoves ==
  ASSUME RcInv, RcWorldHolds', RcMoves(RcWorld, RcWorld'), UNCHANGED <<rcShard, rcCounts, rcHidden, rcPage>>,
         \A g \in RcPages : RcWaits(rcPage[g], RcWorld, RcWorld')
  PROVE  RcInv'
<1>1. PICK w : w = RcWorld OBVIOUS
<1>2. PICK v : v = RcWorld' OBVIOUS
<1>3. RcMoves(w, v) BY <1>1, <1>2
<1>4. RcShardHolds'
  <2>1. \A e \in EntriesOf(rcShard) : RcEntry(e, w) BY <1>1 DEF RcInv, RcShardHolds
  <2>2. \A e \in EntriesOf(rcShard) : RcEntry(e, v) BY <1>3, <2>1, RcEntryMoves
  <2>3. IsShard(rcShard, RcCap) BY DEF RcInv, RcShardHolds
  <2>4. IsShard(rcShard', RcCap) /\ \A e \in EntriesOf(rcShard') : RcEntry(e, RcWorld') BY <1>2, <2>2, <2>3
  <2> QED BY <2>4 DEF RcShardHolds
<1>5. RcPagesHold'
  <2>1. \A g \in RcPages : RcPage(rcPage[g], RcAsker[g], w) BY <1>1 DEF RcInv, RcPagesHold
  <2>2. \A g \in RcPages : RcWaits(rcPage[g], w, v) BY <1>1, <1>2
  <2>3. \A g \in RcPages : RcAsker[g] \in RcAskers BY DEF RcAskers
  <2>4. \A g \in RcPages : RcPage(rcPage[g], RcAsker[g], v) BY <1>3, <2>1, <2>2, <2>3, RcPageMoves
  <2>5. \A g \in RcPages : RcPage(rcPage'[g], RcAsker[g], RcWorld') BY <1>2, <2>4
  <2>6. rcPage' = [g \in RcPages |-> rcPage'[g]] BY DEF RcInv, RcPagesHold
  <2> QED BY <2>5, <2>6 DEF RcPagesHold
<1>6. RcCountsHold'
  <2>1. \A s : RcRefused(s)' = RcRefused(s) BY DEF RcRefused
  <2> QED BY <2>1 DEF RcInv, RcCountsHold
<1> QED BY <1>4, <1>5, <1>6 DEF RcInv

LEMMA RcWorldIs ==
  RcWorld.now = rcNow /\ RcWorld.revoked = rcRevoked /\ RcWorld.unchecked = rcUnchecked
BY DEF RcWorld

LEMMA RcTickKeeps == ASSUME RcInv, RcTick PROVE RcInv'
<1>1. /\ rcNow < RcMaxTime /\ rcNow' = rcNow + 1
      /\ \A g \in RcPages : rcPage[g].at \in {"grouping", "asking", "applying"} => rcNow < rcPage[g].deadline
      /\ UNCHANGED <<rcCheckers, rcUnchecked, rcRevoked, rcShard, rcCounts, rcHidden, rcPage>>
  BY DEF RcTick
<1>2. RcWorldHolds /\ rcNow \in Nat /\ RcMaxTime \in Nat BY RcAssumption DEF RcInv, RcWorldHolds, RcAssumption
<1>3. RcWorldHolds'
  <2>1. rcNow' \in 0..RcMaxTime BY <1>1, <1>2
  <2>2. (0..rcNow) \cup {None} \subseteq (0..rcNow') \cup {None} BY <1>1, <1>2
  <2>3. rcRevoked' \in [RcAskers \X RcIds -> (0..rcNow') \cup {None}] BY <1>1, <1>2, <2>2 DEF RcWorldHolds
  <2> QED BY <1>1, <1>2, <2>1, <2>3 DEF RcWorldHolds
<1>4. RcMoves(RcWorld, RcWorld') BY <1>1, <1>2 DEF RcMoves, RcWorld
<1>5. \A g \in RcPages : RcWaits(rcPage[g], RcWorld, RcWorld') BY <1>1 DEF RcWaits, RcWorld
<1> QED BY <1>1, <1>3, <1>4, <1>5, RcInvMoves

LEMMA RcAddKeeps == ASSUME RcInv, NEW s \in RcSources, RcAdd(s) PROVE RcInv'
<1>1. /\ rcCheckers' = (IF s \in rcCheckers THEN rcCheckers \ {s} ELSE rcCheckers \cup {s})
      /\ rcUnchecked' = rcUnchecked \cup {s}
      /\ UNCHANGED <<rcRevoked, rcShard, rcCounts, rcHidden, rcPage, rcNow>>
  BY DEF RcAdd
<1>2. RcWorldHolds /\ rcNow \in Nat BY RcAssumption DEF RcInv, RcWorldHolds, RcAssumption
<1>3. RcWorldHolds' BY <1>1, <1>2 DEF RcWorldHolds
<1>4. RcMoves(RcWorld, RcWorld') BY <1>1, <1>2 DEF RcMoves, RcWorld
<1>5. \A g \in RcPages : RcWaits(rcPage[g], RcWorld, RcWorld') BY <1>1 DEF RcWaits, RcWorld
<1> QED BY <1>1, <1>3, <1>4, <1>5, RcInvMoves

LEMMA RcRevokeKeeps == ASSUME RcInv, NEW p \in RcAskers, NEW id \in RcIds, RcRevoke(p, id) PROVE RcInv'
<1>1. /\ rcRevoked[p, id] = None /\ rcRevoked' = [rcRevoked EXCEPT ![<<p, id>>] = rcNow]
      /\ UNCHANGED <<rcCheckers, rcUnchecked, rcShard, rcCounts, rcHidden, rcPage, rcNow>>
  BY DEF RcRevoke, mayRead
<1>2. RcWorldHolds /\ rcNow \in Nat /\ rcRevoked \in [RcAskers \X RcIds -> (0..rcNow) \cup {None}]
  BY RcAssumption DEF RcInv, RcWorldHolds, RcAssumption
<1>3. \A x \in RcAskers \X RcIds : rcRevoked'[x] = IF x = <<p, id>> THEN rcNow ELSE rcRevoked[x]
  <2>1. PICK k : k = <<p, id>> OBVIOUS
  <2>2. rcRevoked' = [rcRevoked EXCEPT ![k] = rcNow] BY <1>1, <2>1
  <2>3. \A x \in RcAskers \X RcIds : rcRevoked'[x] = IF x = k THEN rcNow ELSE rcRevoked[x] BY <1>2, <2>2
  <2> QED BY <2>1, <2>3
<1>4. RcWorldHolds'
  <2>1. rcNow \in (0..rcNow) \cup {None} BY <1>2
  <2>2. DOMAIN rcRevoked' = RcAskers \X RcIds BY <1>1, <1>2
  <2>3. \A x \in RcAskers \X RcIds : rcRevoked'[x] \in (0..rcNow) \cup {None} BY <1>2, <1>3, <2>1
  <2>4. rcRevoked' = [x \in RcAskers \X RcIds |-> rcRevoked'[x]] BY <1>1, <1>2
  <2>5. rcRevoked' \in [RcAskers \X RcIds -> (0..rcNow) \cup {None}] BY <2>3, <2>4
  <2> QED BY <1>1, <1>2, <2>5 DEF RcWorldHolds
<1>5. \A q \in RcAskers, i \in RcIds :
        \/ rcRevoked'[q, i] = rcRevoked[q, i]
        \/ rcRevoked[q, i] = None /\ rcRevoked'[q, i] = rcNow
  <2> SUFFICES ASSUME NEW q \in RcAskers, NEW i \in RcIds
               PROVE  rcRevoked'[q, i] = rcRevoked[q, i] \/ (rcRevoked[q, i] = None /\ rcRevoked'[q, i] = rcNow)
    OBVIOUS
  <2>1. PICK x \in RcAskers \X RcIds : x = <<q, i>> OBVIOUS
  <2>2. PICK k : k = <<p, id>> OBVIOUS
  <2>3. rcRevoked'[x] = IF x = k THEN rcNow ELSE rcRevoked[x] BY <1>3, <2>2
  <2>4. rcRevoked[k] = None BY <1>1, <2>2
  <2>5. rcRevoked'[x] = rcRevoked[x] \/ (rcRevoked[x] = None /\ rcRevoked'[x] = rcNow) BY <2>3, <2>4
  <2> QED BY <2>1, <2>5
<1>6. RcMoves(RcWorld, RcWorld')
  <2>1. PICK w : w = RcWorld OBVIOUS
  <2>2. PICK v : v = RcWorld' OBVIOUS
  <2>3. w.now = rcNow /\ w.revoked = rcRevoked /\ w.unchecked = rcUnchecked BY <2>1 DEF RcWorld
  <2>4. v.now = rcNow /\ v.revoked = rcRevoked' /\ v.unchecked = rcUnchecked BY <1>1, <2>2 DEF RcWorld
  <2>5. \A q \in RcAskers, i \in RcIds :
          v.revoked[q, i] = w.revoked[q, i] \/ (w.revoked[q, i] = None /\ v.revoked[q, i] = w.now)
    <3> SUFFICES ASSUME NEW q \in RcAskers, NEW i \in RcIds
                 PROVE  v.revoked[q, i] = w.revoked[q, i] \/ (w.revoked[q, i] = None /\ v.revoked[q, i] = w.now)
      OBVIOUS
    <3>1. rcRevoked'[q, i] = rcRevoked[q, i] \/ (rcRevoked[q, i] = None /\ rcRevoked'[q, i] = rcNow) BY <1>5
    <3>2. v.revoked[q, i] = rcRevoked'[q, i] /\ w.revoked[q, i] = rcRevoked[q, i] /\ w.now = rcNow BY <2>3, <2>4
    <3> QED BY <3>1, <3>2
  <2>6. /\ w.now \in Nat /\ v.now \in Nat /\ w.now <= v.now /\ v.now <= w.now + 1
        /\ w.unchecked \subseteq v.unchecked
    <3>1. PICK n \in Nat : n = rcNow BY <1>2
    <3>2. w.now = n /\ v.now = n BY <2>3, <2>4, <3>1
    <3> QED BY <2>3, <2>4, <3>2
  <2>7. RcMoves(w, v) BY ONLY <2>5, <2>6 DEF RcMoves
  <2> QED BY <2>1, <2>2, <2>7
<1>7. \A g \in RcPages : RcWaits(rcPage[g], RcWorld, RcWorld') BY <1>1 DEF RcWaits, RcWorld
<1> QED BY <1>1, <1>4, <1>6, <1>7, RcInvMoves

-----------------------------------------------------------------------------
(* One page moves. *)
RcWorldStays == UNCHANGED <<rcCheckers, rcUnchecked, rcRevoked, rcNow>>
RcCountsAre == rcCounts \in [RcSources -> [checked: Nat, denied: Nat, failed: Nat]]
RcRows == [RcSources -> SUBSET RcIds]
\* The rows N of each source are counted by this step.
RcCounted(N) ==
  /\ RcCountsAre'
  /\ \A s \in RcSources :
       rcCounts[s].denied + rcCounts[s].failed + Cardinality(N[s]) <= rcCounts'[s].denied + rcCounts'[s].failed
RcHides(H) ==
  /\ rcHidden' \in [RcSources -> Nat]
  /\ \A s \in RcSources : rcHidden'[s] = rcHidden[s] + Cardinality(H[s])
RcAccounts(g, page, N, H) ==
  \A s \in RcSources, id \in RcIds :
    /\ RcRefuses(page, s, id) \/ id \in H[s] => RcRefuses(rcPage[g], s, id) \/ id \in N[s]
    /\ id \in H[s] => ~RcRefuses(page, s, id)

LEMMA RcPageChanges ==
  ASSUME RcInv, NEW g \in RcPages, NEW page, NEW N \in RcRows, NEW H \in RcRows, RcWorldStays, RcShardHolds',
         rcPage' = [rcPage EXCEPT ![g] = page], RcPage(page, RcAsker[g], RcWorld),
         RcCounted(N), RcHides(H), RcAccounts(g, page, N, H)
  PROVE  RcInv'
<1>1. RcWorldHolds' BY DEF RcInv, RcWorldHolds, RcWorldStays
<1>2. RcWorld' = RcWorld BY DEF RcWorld, RcWorldStays
<1>3. rcPage = [h \in RcPages |-> rcPage[h]] /\ \A h \in RcPages : RcPage(rcPage[h], RcAsker[h], RcWorld)
  BY DEF RcInv, RcPagesHold
<1>4. RcPagesHold'
  <2>1. rcPage' = [h \in RcPages |-> rcPage'[h]] BY <1>3
  <2>2. PICK w : w = RcWorld OBVIOUS
  <2>3. \A h \in RcPages : rcPage'[h] = IF h = g THEN page ELSE rcPage[h] BY <1>3
  <2>4. \A h \in RcPages : RcPage(rcPage[h], RcAsker[h], w) BY <1>3, <2>2
  <2>5. RcPage(page, RcAsker[g], w) BY <2>2
  <2>6. \A h \in RcPages : RcPage(rcPage'[h], RcAsker[h], w) BY <2>3, <2>4, <2>5
  <2> QED BY <1>2, <2>1, <2>2, <2>6 DEF RcPagesHold
<1>5. RcCountsHold'
  <2>1. RcCountsAre' /\ rcHidden' \in [RcSources -> Nat] BY DEF RcCounted, RcHides
  <2>2. RcCountsAre /\ rcHidden \in [RcSources -> Nat] BY DEF RcInv, RcCountsHold, RcCountsAre
  <2>3. ASSUME NEW s \in RcSources
        PROVE  Cardinality(RcRefused(s)') + rcHidden'[s] <= rcCounts'[s].denied + rcCounts'[s].failed
    <3>1. N[s] \in SUBSET RcIds /\ H[s] \in SUBSET RcIds BY DEF RcRows
    <3>2. PICK n : n = N[s] OBVIOUS
    <3>3. PICK h : h = H[s] OBVIOUS
    <3>4. /\ \A id \in RcIds : RcRefuses(page, s, id) \/ id \in h => RcRefuses(rcPage[g], s, id) \/ id \in n
          /\ \A id \in h : ~RcRefuses(page, s, id)
      BY <3>1, <3>2, <3>3 DEF RcAccounts
    <3>5. /\ Cardinality(RcRefused(s)') \in Nat /\ Cardinality(RcRefused(s)) \in Nat
          /\ Cardinality(n) \in Nat /\ Cardinality(h) \in Nat
          /\ Cardinality(RcRefused(s)') + Cardinality(h) <= Cardinality(RcRefused(s)) + Cardinality(n)
      BY <1>3, <3>1, <3>2, <3>3, <3>4, RcCountPage
    <3>6. PICK a \in Nat : a = Cardinality(RcRefused(s)) BY <3>5
    <3>7. PICK b \in Nat : b = Cardinality(RcRefused(s)') BY <3>5
    <3>8. a + rcHidden[s] <= rcCounts[s].denied + rcCounts[s].failed BY <3>6 DEF RcInv, RcCountsHold
    <3>9. b + Cardinality(h) <= a + Cardinality(n) BY <3>5, <3>6, <3>7
    <3>10. rcHidden'[s] = rcHidden[s] + Cardinality(h) BY <3>3 DEF RcHides
    <3>11. rcCounts[s].denied + rcCounts[s].failed + Cardinality(n) <= rcCounts'[s].denied + rcCounts'[s].failed
      BY <3>2 DEF RcCounted
    <3>12. /\ rcHidden[s] \in Nat /\ rcCounts[s].denied \in Nat /\ rcCounts[s].failed \in Nat
           /\ rcHidden'[s] \in Nat /\ rcCounts'[s].denied \in Nat /\ rcCounts'[s].failed \in Nat
      BY <2>1, <2>2 DEF RcCountsAre
    <3>13. b + rcHidden'[s] <= rcCounts'[s].denied + rcCounts'[s].failed
      BY <3>5, <3>8, <3>9, <3>10, <3>11, <3>12
    <3> QED BY <3>7, <3>13
  <2> QED BY <2>1, <2>3 DEF RcCountsHold, RcCountsAre
<1> QED BY <1>1, <1>4, <1>5 DEF RcInv

RcNone == [s \in RcSources |-> {}]
LEMMA RcNoneIs == RcNone \in RcRows /\ \A s \in RcSources : RcNone[s] = {} /\ Cardinality(RcNone[s]) = 0
BY FS_EmptySet DEF RcNone, RcRows

LEMMA RcGoesOnKeeps ==
  ASSUME RcInv, NEW g \in RcPages, NEW page, NEW N \in RcRows, RcWorldStays, RcShardHolds',
         rcGoesOn(g, page), RcPage(page, RcAsker[g], RcWorld), RcCounted(N),
         \A s \in RcSources, id \in RcIds : RcRefuses(page, s, id) => RcRefuses(rcPage[g], s, id) \/ id \in N[s]
  PROVE  RcInv'
<1>1. rcPage' = [rcPage EXCEPT ![g] = page] /\ rcHidden' = rcHidden BY DEF rcGoesOn
<1>2. RcHides(RcNone)
  <2>1. rcHidden \in [RcSources -> Nat] BY DEF RcInv, RcCountsHold
  <2> QED BY <1>1, <2>1, RcNoneIs DEF RcHides
<1>3. RcAccounts(g, page, N, RcNone) BY RcNoneIs DEF RcAccounts
<1> QED BY <1>1, <1>2, <1>3, RcNoneIs, RcPageChanges

\* A page that is handed back: every row it is without is refused already or by
\* this step, and what it shows has the allowance of a page in use.
LEMMA RcReturnKeeps ==
  ASSUME RcInv, NEW g \in RcPages, NEW page, NEW N \in RcRows, RcWorldStays, RcShardHolds',
         rcReturn(g, page), RcShape(page), RcCounted(N),
         \A id \in RcIds : page.out[id] => RcWithin(RcWorld, RcAsker[g], id, rcNow + RcReused),
         \A s \in RcSources, id \in RcIds : id \in rcHides(page, s) => RcRefuses(rcPage[g], s, id) \/ id \in N[s]
  PROVE  RcInv'
<1> DEFINE H == [s \in RcSources |-> rcHides(page, s)]
<1>1. PICK shown : shown = [page EXCEPT !.at = "shown", !.ready = {}, !.when = rcNow] OBVIOUS
<1>2. rcPage' = [rcPage EXCEPT ![g] = shown] /\ rcHidden' = [s \in RcSources |-> rcHidden[s] + Cardinality(rcHides(page, s))]
  BY <1>1 DEF rcReturn
<1>3. IsPage(page) BY DEF RcShape
<1>4. /\ IsPage(shown) /\ shown.at = "shown" /\ shown.ready = {} /\ shown.when = rcNow /\ shown.todo = page.todo
      /\ shown.out = page.out /\ shown.ask = page.ask /\ shown.launched = page.launched /\ shown.left = page.left
      /\ shown.deadline = page.deadline
  BY <1>1, <1>3 DEF IsPage
<1>5. rcNow \in Nat BY DEF RcInv, RcWorldHolds
<1>6. RcPage(shown, RcAsker[g], RcWorld)
  <2>1. RcShape(shown) BY <1>4, <1>5 DEF RcShape, RcPlaces
  <2>2. RcPlaced(shown) BY <1>4 DEF RcPlaced
  <2>3. RcTimely(shown, RcWorld) BY <1>4, <1>5, RcWorldIs DEF RcTimely
  <2>4. RcAllow(shown) = rcNow + RcReused BY <1>4 DEF RcAllow
  <2>5. RcStill(shown, RcAsker[g], RcWorld) BY <1>4, <2>4 DEF RcStill
  <2> QED BY <2>1, <2>2, <2>3, <2>5 DEF RcPage
<1>7. H \in RcRows /\ \A s \in RcSources : H[s] = rcHides(page, s) BY DEF rcHides, RcRows
<1>8. RcHides(H)
  <2>1. rcHidden \in [RcSources -> Nat] BY DEF RcInv, RcCountsHold
  <2>2. \A s \in RcSources : rcHides(page, s) \in SUBSET RcIds BY DEF rcHides
  <2>3. \A s \in RcSources : Cardinality(rcHides(page, s)) \in Nat BY <2>2, RcIdsFinite, FS_Subset, FS_CardinalityType
  <2> QED BY <1>2, <1>7, <2>1, <2>3 DEF RcHides
<1>9. RcAccounts(g, shown, N, H)
  <2>1. \A s \in RcSources, id \in RcIds : ~RcRefuses(shown, s, id) BY <1>4 DEF RcRefuses
  <2> QED BY <1>7, <2>1 DEF RcAccounts
<1> HIDE DEF H
<1> QED BY <1>2, <1>6, <1>7, <1>8, <1>9, RcPageChanges

LEMMA RcShardGet ==
  ASSUME RcInv, RcWorldStays, NEW key, rcShard' = get(rcShard, key, rcNow)
  PROVE  RcShardHolds'
<1>1. RcWorld' = RcWorld BY DEF RcWorld, RcWorldStays
<1>2. IsShard(rcShard, RcCap) /\ \A e \in EntriesOf(rcShard) : RcEntry(e, RcWorld) BY DEF RcInv, RcShardHolds
<1>3. PICK ll : ll = get(rcShard, key, rcNow) OBVIOUS
<1>4. RcCap \in Nat BY RcAssumption DEF RcAssumption
<1>5. IsShard(ll, RcCap) /\ EntriesOf(ll) \subseteq EntriesOf(rcShard) BY <1>2, <1>3, <1>4, GetWell
<1>6. \A e \in EntriesOf(ll) : RcEntry(e, RcWorld) BY <1>2, <1>5
<1> QED BY <1>1, <1>3, <1>5, <1>6 DEF RcShardHolds

LEMMA RcShardPut ==
  ASSUME RcInv, RcWorldStays, NEW key, NEW val, NEW expires, rcShard' = put(rcShard, key, val, expires, RcCap),
         RcEntry(entry(key, val, expires), RcWorld)
  PROVE  RcShardHolds'
<1>1. RcWorld' = RcWorld BY DEF RcWorld, RcWorldStays
<1>2. IsShard(rcShard, RcCap) /\ \A e \in EntriesOf(rcShard) : RcEntry(e, RcWorld) BY DEF RcInv, RcShardHolds
<1>3. PICK ll : ll = put(rcShard, key, val, expires, RcCap) OBVIOUS
<1>4. RcCap \in Nat \ {0} BY RcAssumption DEF RcAssumption
<1>5. IsShard(ll, RcCap) /\ EntriesOf(ll) \subseteq EntriesOf(rcShard) \cup {entry(key, val, expires)}
  BY <1>2, <1>3, <1>4, PutWell
<1>6. \A e \in EntriesOf(ll) : RcEntry(e, RcWorld) BY <1>2, <1>5
<1> QED BY <1>1, <1>3, <1>5, <1>6 DEF RcShardHolds

LEMMA RcShardSame ==
  ASSUME RcInv, RcWorldStays, UNCHANGED rcShard
  PROVE  RcShardHolds'
<1>1. RcWorld' = RcWorld BY DEF RcWorld, RcWorldStays
<1> QED BY <1>1 DEF RcInv, RcShardHolds

RcPaid(s, id) == [x \in RcSources |-> IF x = s THEN {id} ELSE {}]
LEMMA RcPaidIs ==
  ASSUME NEW s \in RcSources, NEW id \in RcIds
  PROVE  /\ RcPaid(s, id) \in RcRows
         /\ id \in RcPaid(s, id)[s]
         /\ \A x \in RcSources : Cardinality(RcPaid(s, id)[x]) = IF x = s THEN 1 ELSE 0
BY FS_EmptySet, FS_Singleton DEF RcPaid, RcRows

LEMMA RcCountedNone ==
  ASSUME RcInv, UNCHANGED rcCounts
  PROVE  RcCounted(RcNone)
<1>1. RcCountsAre BY DEF RcInv, RcCountsHold, RcCountsAre
<1>2. RcCountsAre' BY <1>1 DEF RcCountsAre
<1>3. \A s \in RcSources : rcCounts[s].denied \in Nat /\ rcCounts[s].failed \in Nat BY <1>1 DEF RcCountsAre
<1> QED BY <1>2, <1>3, RcNoneIs DEF RcCounted

LEMMA RcCountedRecord ==
  ASSUME RcInv, NEW s \in RcSources, NEW id \in RcIds, NEW allowed \in BOOLEAN, rcCounts' = record(rcCounts, s, allowed)
  PROVE  RcCounted(IF allowed THEN RcNone ELSE RcPaid(s, id))
<1>1. RcCountsAre BY DEF RcInv, RcCountsHold, RcCountsAre
<1>2. PICK c : c = [checked |-> rcCounts[s].checked + 1,
                    denied |-> IF allowed THEN rcCounts[s].denied ELSE rcCounts[s].denied + 1,
                    failed |-> rcCounts[s].failed]
  OBVIOUS
<1>3. rcCounts[s] \in [checked: Nat, denied: Nat, failed: Nat] BY <1>1 DEF RcCountsAre
<1>4. rcCounts' = [rcCounts EXCEPT ![s] = c]
  <2>1. CASE allowed
    <3>1. rcCounts' = [rcCounts EXCEPT ![s].checked = @ + 1, ![s].denied = @] BY <2>1 DEF record
    <3>2. c = [checked |-> rcCounts[s].checked + 1, denied |-> rcCounts[s].denied, failed |-> rcCounts[s].failed]
      BY <1>2, <2>1
    <3> QED BY <1>1, <1>3, <3>1, <3>2 DEF RcCountsAre
  <2>2. CASE ~allowed BY <1>1, <1>2, <1>3, <2>2 DEF record, RcCountsAre
  <2> QED BY <2>1, <2>2
<1>5. c \in [checked: Nat, denied: Nat, failed: Nat] BY <1>2, <1>3
<1>6. RcCountsAre' BY <1>1, <1>4, <1>5 DEF RcCountsAre
<1>7. \A x \in RcSources : rcCounts'[x] = IF x = s THEN c ELSE rcCounts[x] BY <1>1, <1>4 DEF RcCountsAre
<1>8. \A x \in RcSources : rcCounts[x].denied \in Nat /\ rcCounts[x].failed \in Nat BY <1>1 DEF RcCountsAre
<1>9. c.failed = rcCounts[s].failed /\ c.denied = IF allowed THEN rcCounts[s].denied ELSE rcCounts[s].denied + 1
  BY <1>2
<1>10. CASE allowed
  <2>0. c.denied = rcCounts[s].denied BY <1>9, <1>10
  <2>1. RcCounted(RcNone) BY <1>6, <1>7, <1>8, <1>9, <2>0, RcNoneIs DEF RcCounted
  <2> QED BY <1>10, <2>1
<1>11. CASE ~allowed
  <2>1. c.denied = rcCounts[s].denied + 1 BY <1>9, <1>11
  <2>2. \A x \in RcSources : Cardinality(RcPaid(s, id)[x]) = IF x = s THEN 1 ELSE 0 BY RcPaidIs
  <2>3. RcCounted(RcPaid(s, id)) BY <1>6, <1>7, <1>8, <1>9, <2>1, <2>2 DEF RcCounted
  <2> QED BY <1>11, <2>3
<1> QED BY <1>10, <1>11

LEMMA RcCountedFail ==
  ASSUME RcInv, NEW s \in RcSources, NEW id \in RcIds, rcCounts' = fail(rcCounts, s)
  PROVE  RcCounted(RcPaid(s, id))
<1>1. RcCountsAre BY DEF RcInv, RcCountsHold, RcCountsAre
<1>2. PICK c : c = [checked |-> rcCounts[s].checked + 1, denied |-> rcCounts[s].denied, failed |-> rcCounts[s].failed + 1]
  OBVIOUS
<1>3. rcCounts[s] \in [checked: Nat, denied: Nat, failed: Nat] BY <1>1 DEF RcCountsAre
<1>4. rcCounts' = [rcCounts EXCEPT ![s] = c] BY <1>1, <1>2, <1>3 DEF fail, RcCountsAre
<1>5. c \in [checked: Nat, denied: Nat, failed: Nat] BY <1>2, <1>3
<1>6. RcCountsAre' BY <1>1, <1>4, <1>5 DEF RcCountsAre
<1>7. \A x \in RcSources : rcCounts'[x] = IF x = s THEN c ELSE rcCounts[x] BY <1>1, <1>4 DEF RcCountsAre
<1>8. \A x \in RcSources : rcCounts[x].denied \in Nat /\ rcCounts[x].failed \in Nat BY <1>1 DEF RcCountsAre
<1>9. c.denied = rcCounts[s].denied /\ c.failed = rcCounts[s].failed + 1 BY <1>2
<1>10. \A x \in RcSources : Cardinality(RcPaid(s, id)[x]) = IF x = s THEN 1 ELSE 0 BY RcPaidIs
<1> QED BY <1>6, <1>7, <1>8, <1>9, <1>10 DEF RcCounted

-----------------------------------------------------------------------------
(* The steps of a page. *)
LEMMA RcInFlight ==
  ASSUME RcInv, NEW g \in RcPages
  PROVE  /\ RcAsker[g] \in RcAskers
         /\ rcPage[g].at = "idle" => rcPage[g] = rcIdle
         /\ rcPage[g].at # "idle" => RcShape(rcPage[g]) /\ RcPlaced(rcPage[g]) /\ RcTimely(rcPage[g], RcWorld)
                                     /\ RcStill(rcPage[g], RcAsker[g], RcWorld)
<1>1. RcPage(rcPage[g], RcAsker[g], RcWorld) BY DEF RcInv, RcPagesHold
<1>2. rcIdle.at = "idle" BY DEF rcIdle
<1>3. CASE rcPage[g] = rcIdle BY <1>2, <1>3 DEF RcAskers
<1>4. CASE rcPage[g] # rcIdle BY <1>1, <1>4 DEF RcAskers, RcPage, RcShape, RcPlaces
<1> QED BY <1>3, <1>4

LEMMA RcAllowedKeeps == ASSUME RcInv, NEW g \in RcPages, RcAllowed(g) PROVE RcInv'
<1>1. PICK page :
        page = [at |-> "grouping", todo |-> RcIds, out |-> [id \in RcIds |-> FALSE], ask |-> {}, launched |-> {},
                left |-> {}, ready |-> {}, hand |-> None, deadline |-> rcNow, when |-> 0]
  OBVIOUS
<1>2. rcGoesOn(g, page) /\ UNCHANGED <<rcCounts, rcShard>> /\ RcWorldStays
  BY <1>1 DEF RcAllowed, rcGoesOn, RcWorldStays
<1>3. /\ IsPage(page) /\ page.at = "grouping" /\ page.todo = RcIds /\ page.out = [id \in RcIds |-> FALSE] /\ page.ask = {}
      /\ page.launched = {} /\ page.left = {} /\ page.ready = {} /\ page.deadline = rcNow /\ page.when = 0
  BY <1>1 DEF IsPage
<1>4. rcNow \in Nat BY DEF RcInv, RcWorldHolds
<1>5. RcPage(page, RcAsker[g], RcWorld)
  <2>1. RcShape(page) BY <1>3, <1>4 DEF RcShape, RcPlaces
  <2>2. RcPlaced(page) BY <1>3 DEF RcPlaced
  <2>3. RcTimely(page, RcWorld) BY <1>3, RcWorldIs DEF RcTimely
  <2>4. RcStill(page, RcAsker[g], RcWorld) BY <1>3 DEF RcStill
  <2> QED BY <2>1, <2>2, <2>3, <2>4 DEF RcPage
<1>6. \A s \in RcSources, id \in RcIds : ~RcRefuses(page, s, id) BY <1>3 DEF RcRefuses
<1> QED BY <1>2, <1>5, <1>6, RcCountedNone, RcNoneIs, RcShardSame, RcGoesOnKeeps

LEMMA RcDoneKeeps == ASSUME RcInv, NEW g \in RcPages, RcDone(g) PROVE RcInv'
<1>1. rcGoesOn(g, rcIdle) /\ UNCHANGED <<rcCounts, rcShard>> /\ RcWorldStays
  BY DEF RcDone, rcGoesOn, RcWorldStays
<1>2. RcPage(rcIdle, RcAsker[g], RcWorld) BY DEF RcPage
<1>3. \A s \in RcSources, id \in RcIds : ~RcRefuses(rcIdle, s, id) BY DEF RcRefuses, rcIdle
<1> QED BY <1>1, <1>2, <1>3, RcCountedNone, RcNoneIs, RcShardSame, RcGoesOnKeeps

\* A page that asks hears more: nothing it shows or refuses changes.
RcHeard(q, launched, ready, p) ==
  /\ \A r \in ready : r.source \in q.left \cap launched /\ RcAnswers(r, p, RcWorld, q.deadline)
  /\ \A r1, r2 \in ready : r1.source = r2.source => r1 = r2
LEMMA RcHeardKeeps ==
  ASSUME RcInv, NEW g \in RcPages, NEW q, q = rcPage[g], NEW page, NEW launched \in SUBSET RcSources, NEW ready, RcWorldStays,
         q.at = "asking", q.launched \subseteq launched,
         page = [q EXCEPT !.launched = launched, !.ready = ready],
         rcPage' = [rcPage EXCEPT ![g] = page], UNCHANGED <<rcHidden, rcCounts, rcShard>>,
         RcHeard(q, launched, ready, RcAsker[g])
  PROVE  RcInv'
<1>1. q = rcPage[g] OBVIOUS
<1>2. RcShape(q) /\ RcPlaced(q) /\ RcTimely(q, RcWorld) /\ RcStill(q, RcAsker[g], RcWorld) /\ q.at = "asking"
  BY <1>1, RcInFlight
<1>3. IsPage(q) BY <1>2 DEF RcShape
<1>4. /\ IsPage(page) /\ page.at = "asking" /\ page.todo = q.todo /\ page.out = q.out /\ page.ask = q.ask
      /\ page.left = q.left /\ page.hand = q.hand /\ page.deadline = q.deadline /\ page.when = q.when
      /\ page.launched = launched /\ page.ready = ready
  BY <1>1, <1>2, <1>3 DEF IsPage
<1>5. RcPage(page, RcAsker[g], RcWorld)
  <2>1. RcShape(page) BY <1>2, <1>4 DEF RcShape
  <2>2. RcPlaced(page) BY <1>2, <1>4 DEF RcPlaced, RcHeard
  <2>3. RcTimely(page, RcWorld) BY <1>2, <1>4 DEF RcTimely
  <2>4. RcAllow(page) = RcAllow(q) BY <1>2, <1>4 DEF RcAllow
  <2>5. RcStill(page, RcAsker[g], RcWorld) BY <1>2, <1>4, <2>4 DEF RcStill, RcHeard
  <2> QED BY <2>1, <2>2, <2>3, <2>5 DEF RcPage
<1>6. \A s \in RcSources, id \in RcIds : RcRefuses(page, s, id) => RcRefuses(q, s, id)
  BY <1>2, <1>4 DEF RcRefuses
<1>7. rcGoesOn(g, page) BY DEF rcGoesOn
<1> QED BY <1>1, <1>5, <1>6, <1>7, RcCountedNone, RcNoneIs, RcShardSame, RcGoesOnKeeps

LEMMA RcLaunchKeeps == ASSUME RcInv, NEW g \in RcPages, NEW s \in RcSources, RcLaunch(g, s) PROVE RcInv'
<1>1. PICK q : q = rcPage[g] OBVIOUS
<1>2. PICK r : r = [source |-> s, allowed |-> [id \in rcRows(q, s) |-> TRUE]] OBVIOUS
<1>3. PICK launched : launched = q.launched \cup {s} OBVIOUS
<1>4. PICK ready : ready = IF s \in rcCheckers THEN q.ready ELSE q.ready \cup {r} OBVIOUS
<1>5. PICK page : page = [q EXCEPT !.launched = launched, !.ready = ready] OBVIOUS
<1>6. /\ q.at = "asking" /\ s \in q.left \ q.launched /\ RcWorldStays /\ UNCHANGED <<rcHidden, rcCounts, rcShard>>
      /\ rcPage' = [rcPage EXCEPT
           ![g].launched = @ \cup {s},
           ![g].ready = IF s \in rcCheckers THEN @
                        ELSE @ \cup {[source |-> s, allowed |-> [id \in rcRows(rcPage[g], s) |-> TRUE]]}]
  BY <1>1 DEF RcLaunch, RcWorldStays
<1>7. RcShape(q) /\ RcPlaced(q) /\ RcStill(q, RcAsker[g], RcWorld) BY <1>1, <1>6, RcInFlight
<1>8. rcPage' = [rcPage EXCEPT ![g] = page]
  <2>1. rcPage = [h \in RcPages |-> rcPage[h]] BY DEF RcInv, RcPagesHold
  <2>2. q = [at |-> q.at, todo |-> q.todo, out |-> q.out, ask |-> q.ask, launched |-> q.launched, left |-> q.left,
             ready |-> q.ready, hand |-> q.hand, deadline |-> q.deadline, when |-> q.when]
    BY <1>7 DEF RcShape, IsPage
  <2>3. CASE s \in rcCheckers
    <3>1. ready = q.ready BY <1>4, <2>3
    <3>2. rcPage' = [rcPage EXCEPT ![g].launched = @ \cup {s}, ![g].ready = @] BY <1>6, <2>3
    <3> QED BY <1>1, <1>3, <1>5, <2>1, <2>2, <3>1, <3>2
  <2>4. CASE s \notin rcCheckers
    <3>1. ready = q.ready \cup {r} BY <1>4, <2>4
    <3>2. rcPage' = [rcPage EXCEPT ![g].launched = @ \cup {s}, ![g].ready = @ \cup {r}] BY <1>1, <1>2, <1>6, <2>4
    <3> QED BY <1>1, <1>3, <1>5, <2>1, <2>2, <3>1, <3>2
  <2> QED BY <2>3, <2>4
<1>9. r.source = s /\ (s \notin rcCheckers => RcAnswers(r, RcAsker[g], RcWorld, q.deadline))
  <2>1. r.source = s /\ DOMAIN r.allowed = rcRows(q, s) /\ \A id \in rcRows(q, s) : r.allowed[id] = TRUE BY <1>2
  <2>2. \A id \in rcRows(q, s) : id \in RcIds /\ sourceOf(id) = s BY <1>7 DEF rcRows, RcShape
  <2>3. s \notin rcCheckers => s \in RcWorld.unchecked BY RcWorldIs DEF RcInv, RcWorldHolds
  <2>4. ASSUME s \notin rcCheckers, NEW id \in DOMAIN r.allowed, NEW n
        PROVE  id \in RcIds /\ r.allowed[id] \in BOOLEAN /\ RcWithin(RcWorld, RcAsker[g], id, n)
    BY <2>1, <2>2, <2>3, <2>4 DEF RcWithin
  <2> QED BY <2>1, <2>4 DEF RcAnswers
<1>10. \A x \in ready : x \in q.ready \/ (s \notin rcCheckers /\ x = r) BY <1>4
<1>11. \A x \in q.ready : x.source \in q.left \cap q.launched /\ RcAnswers(x, RcAsker[g], RcWorld, q.deadline)
  BY <1>7 DEF RcPlaced, RcStill
<1>12. \A x \in ready : x.source \in q.left \cap launched /\ RcAnswers(x, RcAsker[g], RcWorld, q.deadline)
  BY <1>3, <1>6, <1>9, <1>10, <1>11
<1>13. \A r1, r2 \in ready : r1.source = r2.source => r1 = r2
  <2>1. \A r1, r2 \in q.ready : r1.source = r2.source => r1 = r2 BY <1>7 DEF RcPlaced
  <2> QED BY <1>6, <1>9, <1>10, <1>11, <2>1
<1>14. launched \in SUBSET RcSources /\ q.launched \subseteq launched BY <1>3, <1>7 DEF RcShape
<1>15. RcHeard(q, launched, ready, RcAsker[g]) BY <1>12, <1>13 DEF RcHeard
<1> QED BY <1>1, <1>5, <1>6, <1>8, <1>14, <1>15, RcHeardKeeps

LEMMA RcAnswerKeeps ==
  ASSUME RcInv, NEW g \in RcPages, NEW s \in RcSources, NEW about \in SUBSET RcIds, RcAnswer(g, s, about)
  PROVE  RcInv'
<1>1. PICK q : q = rcPage[g] OBVIOUS
<1>2. PICK r : r = [source |-> s, allowed |-> [id \in about |-> mayRead(RcAsker[g], id)]] OBVIOUS
<1>3. PICK ready : ready = q.ready \cup {r} OBVIOUS
<1>4. PICK page : page = [q EXCEPT !.launched = q.launched, !.ready = ready] OBVIOUS
<1>5. /\ q.at = "asking" /\ s \in (q.launched \cap q.left) \ {x.source : x \in q.ready}
      /\ about \subseteq rcRows(q, s) /\ RcWorldStays /\ UNCHANGED <<rcHidden, rcCounts, rcShard>>
      /\ rcPage' = [rcPage EXCEPT ![g].ready = @ \cup {r}]
  BY <1>1, <1>2 DEF RcAnswer, RcWorldStays
<1>6. RcShape(q) /\ RcPlaced(q) /\ RcStill(q, RcAsker[g], RcWorld) BY <1>1, <1>5, RcInFlight
<1>7. rcPage' = [rcPage EXCEPT ![g] = page]
  <2>1. rcPage = [h \in RcPages |-> rcPage[h]] BY DEF RcInv, RcPagesHold
  <2>2. q = [at |-> q.at, todo |-> q.todo, out |-> q.out, ask |-> q.ask, launched |-> q.launched, left |-> q.left,
             ready |-> q.ready, hand |-> q.hand, deadline |-> q.deadline, when |-> q.when]
    BY <1>6 DEF RcShape, IsPage
  <2> QED BY <1>1, <1>3, <1>4, <1>5, <2>1, <2>2
<1>8. r.source = s /\ RcAnswers(r, RcAsker[g], RcWorld, q.deadline)
  <2>1. r.source = s /\ DOMAIN r.allowed = about /\ \A id \in about : r.allowed[id] = mayRead(RcAsker[g], id) BY <1>2
  <2>2. \A id \in about : mayRead(RcAsker[g], id) \in BOOLEAN BY DEF mayRead
  <2>3. \A id \in about : mayRead(RcAsker[g], id) => RcWithin(RcWorld, RcAsker[g], id, q.deadline - RcTimeout)
    BY RcWorldIs DEF mayRead, RcWithin
  <2> QED BY <2>1, <2>2, <2>3 DEF RcAnswers
<1>9. \A x \in q.ready : x.source # s /\ x.source \in q.left \cap q.launched /\ RcAnswers(x, RcAsker[g], RcWorld, q.deadline)
  BY <1>5, <1>6 DEF RcPlaced, RcStill
<1>10. \A x \in ready : x \in q.ready \/ x = r BY <1>3
<1>11. \A x \in ready : x.source \in q.left \cap q.launched /\ RcAnswers(x, RcAsker[g], RcWorld, q.deadline)
  BY <1>5, <1>8, <1>9, <1>10
<1>12. \A r1, r2 \in ready : r1.source = r2.source => r1 = r2
  <2>1. \A r1, r2 \in q.ready : r1.source = r2.source => r1 = r2 BY <1>6 DEF RcPlaced
  <2> QED BY <1>8, <1>9, <1>10, <2>1
<1>13. q.launched \in SUBSET RcSources BY <1>6 DEF RcShape
<1>14. RcHeard(q, q.launched, ready, RcAsker[g]) BY <1>11, <1>12 DEF RcHeard
<1> QED BY <1>1, <1>4, <1>5, <1>7, <1>13, <1>14, RcHeardKeeps

LEMMA RcReceiveKeeps ==
  ASSUME RcInv, NEW g \in RcPages, NEW r \in rcPage[g].ready, RcReceive(g, r)
  PROVE  RcInv'
<1>1. PICK q : q = rcPage[g] OBVIOUS
<1>2. PICK page : page = [q EXCEPT !.at = "applying", !.hand = r, !.ready = @ \ {r}, !.left = @ \ {r.source},
                                   !.todo = rcRows(q, r.source)]
  OBVIOUS
<1>3. q.at = "asking" /\ rcGoesOn(g, page) /\ RcWorldStays /\ UNCHANGED <<rcCounts, rcShard>> /\ r \in q.ready
  BY <1>1, <1>2 DEF RcReceive, RcWorldStays, rcAsked
<1>4. RcShape(q) /\ RcPlaced(q) /\ RcTimely(q, RcWorld) /\ RcStill(q, RcAsker[g], RcWorld) BY <1>1, <1>3, RcInFlight
<1>5. IsPage(q) BY <1>4 DEF RcShape
<1>6. /\ IsPage(page) /\ page.at = "applying" /\ page.todo = rcRows(q, r.source) /\ page.out = q.out /\ page.ask = q.ask
      /\ page.left = q.left \ {r.source} /\ page.hand = r /\ page.deadline = q.deadline /\ page.when = q.when
      /\ page.launched = q.launched /\ page.ready = q.ready \ {r}
  BY <1>2, <1>5 DEF IsPage
<1>7. \A id \in rcRows(q, r.source) : id \in RcIds /\ id \in q.ask /\ sourceOf(id) = r.source BY <1>4 DEF rcRows, RcShape
<1>8. RcPage(page, RcAsker[g], RcWorld)
  <2>1. RcShape(page) BY <1>4, <1>6, <1>7 DEF RcShape, RcPlaces
  <2>2. RcPlaced(page)
    <3>1. \A x \in page.ready : x.source \in page.left \cap page.launched BY <1>3, <1>4, <1>6 DEF RcPlaced
    <3>2. \A x, y \in page.ready : x.source = y.source => x = y BY <1>4, <1>6 DEF RcPlaced
    <3> QED BY <1>6, <1>7, <3>1, <3>2 DEF RcPlaced
  <2>3. RcTimely(page, RcWorld) BY <1>3, <1>4, <1>6 DEF RcTimely
  <2>4. RcAllow(page) = RcAllow(q) BY <1>3, <1>6 DEF RcAllow
  <2>5. RcStill(page, RcAsker[g], RcWorld) BY <1>3, <1>4, <1>6, <2>4 DEF RcStill
  <2> QED BY <2>1, <2>2, <2>3, <2>5 DEF RcPage
<1>9. \A s \in RcSources, id \in RcIds : RcRefuses(page, s, id) => RcRefuses(q, s, id)
  <2>1. q.todo = {} BY <1>3, <1>4 DEF RcPlaced
  <2>2. \A id \in q.ask : sourceOf(id) = r.source => id \in page.todo BY <1>6 DEF rcRows
  <2> QED BY <1>3, <1>6, <2>1, <2>2 DEF RcRefuses
<1> QED BY <1>1, <1>3, <1>8, <1>9, RcCountedNone, RcNoneIs, RcShardSame, RcGoesOnKeeps

LEMMA RcRevokedIs ==
  ASSUME RcInv, NEW p \in RcAskers, NEW id \in RcIds
  PROVE  rcRevoked[p, id] \in Nat \cup {None}
<1>1. PICK k \in RcAskers \X RcIds : k = <<p, id>> OBVIOUS
<1>2. rcRevoked[k] \in (0..rcNow) \cup {None} BY DEF RcInv, RcWorldHolds
<1>3. rcNow \in Nat BY DEF RcInv, RcWorldHolds
<1>4. rcRevoked[k] \in Nat \cup {None} BY <1>2, <1>3
<1> QED BY <1>1, <1>4

LEMMA RcWithinLess ==
  ASSUME RcInv, NEW p \in RcAskers, NEW id \in RcIds, NEW n \in Int, NEW m \in Int, n <= m, RcWithin(RcWorld, p, id, m)
  PROVE  RcWithin(RcWorld, p, id, n)
<1>1. PICK x : x = rcRevoked[p, id] OBVIOUS
<1>2. x \in Nat \cup {None} BY <1>1, RcRevokedIs
<1>3. sourceOf(id) \notin RcWorld.unchecked /\ x # None => m <= x BY <1>1, RcWorldIs DEF RcWithin
<1>4. sourceOf(id) \notin RcWorld.unchecked /\ x # None => n <= x BY <1>2, <1>3
<1> QED BY <1>1, <1>4, RcWorldIs DEF RcWithin

LEMMA RcTimes ==
  /\ RcFresh \in Int /\ RcReused \in Int /\ RcReused <= RcFresh /\ RcFresh <= 0
  /\ RcTimeout \in Nat \ {0} /\ RcTTL \in Nat \ {0}
  /\ RcTimeout + RcReused = RcFresh /\ RcReused <= 0 - RcTimeout
BY RcAssumption DEF RcFresh, RcReused, RcAssumption

LEMMA RcBound ==
  ASSUME NEW n \in Nat, NEW t \in Nat, n + RcReused <= t
  PROVE  n < t + RcTTL + 2 * RcTimeout
BY RcAssumption DEF RcReused, RcAssumption

LEMMA RcExpireKeeps == ASSUME RcInv, NEW g \in RcPages, RcExpire(g) PROVE RcInv'
<1>1. PICK q : q = rcPage[g] OBVIOUS
<1>2. PICK N : N = [s \in RcSources |-> rcRows(q, s) \cap rcHides(q, s)] OBVIOUS
<1>3. /\ q.at = "asking" /\ rcNow >= q.deadline /\ rcReturn(g, q) /\ RcWorldStays /\ UNCHANGED rcShard
      /\ rcCounts' = [s \in RcSources |-> [rcCounts[s] EXCEPT !.checked = @ + rcOver(q, s), !.failed = @ + rcOver(q, s)]]
  BY <1>1 DEF RcExpire, RcWorldStays, rcAsked
<1>4. RcShape(q) /\ RcPlaced(q) /\ RcTimely(q, RcWorld) /\ RcStill(q, RcAsker[g], RcWorld) BY <1>1, <1>3, RcInFlight
<1>5. N \in RcRows /\ \A s \in RcSources : N[s] = rcRows(q, s) \cap rcHides(q, s) /\ Cardinality(N[s]) = rcOver(q, s)
  BY <1>2 DEF RcRows, rcOver, rcHides
<1>6. RcCounted(N)
  <2>1. RcCountsAre BY DEF RcInv, RcCountsHold, RcCountsAre
  <2>2. \A s \in RcSources : rcOver(q, s) \in Nat
    <3>1. \A s \in RcSources : IsFiniteSet(N[s]) BY <1>5, RcIdsFinite, FS_Subset DEF RcRows
    <3> QED BY <1>5, <3>1, FS_CardinalityType
  <2>3. ASSUME NEW s \in RcSources
        PROVE  /\ rcCounts'[s] \in [checked: Nat, denied: Nat, failed: Nat]
               /\ rcCounts'[s].denied = rcCounts[s].denied /\ rcCounts'[s].failed = rcCounts[s].failed + rcOver(q, s)
               /\ rcCounts[s].denied \in Nat /\ rcCounts[s].failed \in Nat
    <3>1. PICK n \in Nat : n = rcOver(q, s) BY <2>2
    <3>2. rcCounts[s] \in [checked: Nat, denied: Nat, failed: Nat] BY <2>1 DEF RcCountsAre
    <3>3. rcCounts'[s] = [rcCounts[s] EXCEPT !.checked = @ + n, !.failed = @ + n] BY <1>3, <3>1
    <3>4. PICK c \in [checked: Nat, denied: Nat, failed: Nat] : c = rcCounts[s] BY <3>2
    <3>5. rcCounts'[s] = [checked |-> c.checked + n, denied |-> c.denied, failed |-> c.failed + n] BY <3>3, <3>4
    <3>6. c.checked \in Nat /\ c.denied \in Nat /\ c.failed \in Nat BY <3>4
    <3> QED BY <3>1, <3>4, <3>5, <3>6
  <2>4. RcCountsAre'
    <3>1. rcCounts' = [s \in RcSources |-> rcCounts'[s]] BY <1>3
    <3> QED BY <2>3, <3>1 DEF RcCountsAre
  <2> QED BY <1>5, <2>2, <2>3, <2>4 DEF RcCounted
<1>7. \A id \in RcIds : q.out[id] => RcWithin(RcWorld, RcAsker[g], id, rcNow + RcReused)
  <2>1. rcNow \in Nat /\ q.deadline \in Nat BY <1>4 DEF RcInv, RcWorldHolds, RcShape
  <2>2. RcAllow(q) = rcNow + RcReused
    <3>1. rcNow = q.deadline
      <4>1. PICK w : w = RcWorld OBVIOUS
      <4>2. RcTimely(q, w) /\ w.now = rcNow BY <1>4, <4>1, RcWorldIs
      <4>3. q.at = "asking" /\ rcNow >= q.deadline BY <1>3
      <4>4. w.now <= q.deadline BY ONLY <4>2, <4>3 DEF RcTimely
      <4> QED BY <2>1, <4>2, <4>3, <4>4
    <3> QED BY <1>3, <3>1 DEF RcAllow
  <2> QED BY <1>4, <2>2 DEF RcStill
<1>8. \A s \in RcSources, id \in RcIds : id \in rcHides(q, s) => RcRefuses(q, s, id) \/ id \in N[s]
  <2>1. q.todo = {} BY <1>3, <1>4 DEF RcPlaced
  <2> QED BY <1>3, <1>5, <2>1 DEF RcRefuses, rcHides, rcRows
<1> QED BY <1>1, <1>3, <1>4, <1>5, <1>6, <1>7, <1>8, RcShardSame, RcReturnKeeps

\* A row nobody has to be asked about is decided by what is known of it.
LEMMA RcHitTrue ==
  ASSUME RcInv, NEW p \in RcAskers, NEW id \in RcIds, live(rcShard, rcKey(p, id), rcNow)
  PROVE  /\ entryIn(rcShard, rcKey(p, id)).val \in BOOLEAN
         /\ entryIn(rcShard, rcKey(p, id)).val => RcWithin(RcWorld, p, id, rcNow + RcFresh)
<1>1. PICK key : key = rcKey(p, id) OBVIOUS
<1>2. PICK e : e = entryIn(rcShard, key) OBVIOUS
<1>3. cached(rcShard, key) /\ (e.expires = Never \/ rcNow < e.expires) BY <1>1, <1>2 DEF live
<1>4. e \in EntriesOf(rcShard) /\ e.key = key
  <2>1. rcShard \in Seq(EntriesOf(rcShard)) BY DEF RcInv, RcShardHolds, IsShard
  <2> QED BY <1>2, <1>3, <2>1, EntryFound
<1>5. RcEntry(e, RcWorld) BY <1>4 DEF RcInv, RcShardHolds
<1>6. /\ e.val \in BOOLEAN /\ e.expires \in Nat \ {0}
      /\ e.val => RcWithin(RcWorld, p, id, e.expires - RcTTL - RcTimeout)
  BY <1>1, <1>4, <1>5 DEF RcEntry
<1>7. rcNow \in Nat /\ rcNow < e.expires BY <1>3, <1>6 DEF Never, RcInv, RcWorldHolds
<1>8. PICK m : m = e.expires - RcTTL - RcTimeout OBVIOUS
<1>9. PICK n : n = rcNow + RcFresh OBVIOUS
<1>10. n \in Int /\ m \in Int /\ n <= m
  <2>1. RcTTL \in Nat /\ RcTimeout \in Nat BY RcTimes
  <2> QED BY <1>6, <1>7, <1>8, <1>9, <2>1 DEF RcFresh
<1>11. e.val => RcWithin(RcWorld, p, id, n) BY <1>6, <1>8, <1>10, RcWithinLess
<1> QED BY <1>1, <1>2, <1>6, <1>9, <1>11

LEMMA RcGroupKeeps == ASSUME RcInv, NEW g \in RcPages, NEW id \in RcIds, RcGroup(g, id) PROVE RcInv'
<1>1. PICK q : q = rcPage[g] OBVIOUS
<1>2. PICK p : p = RcAsker[g] OBVIOUS
<1>3. PICK s : s = sourceOf(id) OBVIOUS
<1>4. PICK key : key = rcKey(p, id) OBVIOUS
<1>5. PICK hit \in BOOLEAN : hit <=> s \in rcCheckers /\ live(rcShard, key, rcNow)
  <2>1. (s \in rcCheckers /\ live(rcShard, key, rcNow)) \in BOOLEAN OBVIOUS
  <2> QED BY <2>1
<1>6. PICK asked \in BOOLEAN : asked <=> s \in rcCheckers /\ ~hit
  <2>1. (s \in rcCheckers /\ ~hit) \in BOOLEAN OBVIOUS
  <2> QED BY <2>1
<1>7. PICK said : said = entryIn(rcShard, key).val OBVIOUS
<1>8. PICK v : v = IF hit THEN said ELSE ~asked OBVIOUS
<1>9. PICK grouped :
        grouped = [q EXCEPT !.todo = @ \ {id}, !.out = [q.out EXCEPT ![id] = v],
                     !.ask = IF asked THEN q.ask \cup {id} ELSE q.ask,
                     !.left = IF asked THEN q.left \cup {s} ELSE q.left]
  OBVIOUS
<1>10. /\ q.at = "grouping" /\ id \in q.todo /\ RcWorldStays
       /\ rcShard' = IF s \in rcCheckers THEN get(rcShard, key, rcNow) ELSE rcShard
       /\ rcCounts' = IF hit THEN record(rcCounts, s, said) ELSE rcCounts
       /\ \/ grouped.todo # {} /\ rcGoesOn(g, grouped)
          \/ grouped.todo = {} /\ grouped.ask = {} /\ rcReturn(g, grouped)
          \/ grouped.todo = {} /\ grouped.ask # {}
             /\ rcGoesOn(g, [grouped EXCEPT !.at = "asking", !.deadline = rcNow + RcTimeout])
  BY <1>1, <1>2, <1>3, <1>4, <1>5, <1>6, <1>7, <1>8, <1>9 DEF RcGroup, undecided, RcWorldStays
<1>11. RcShape(q) /\ RcPlaced(q) /\ RcTimely(q, RcWorld) /\ RcStill(q, p, RcWorld) /\ p \in RcAskers
  BY <1>1, <1>2, <1>10, RcInFlight
<1>12. IsPage(q) /\ s \in RcSources /\ rcNow \in Nat /\ q.deadline = rcNow /\ q.ready = {}
  BY <1>3, <1>10, <1>11, RcSourceOf, RcWorldIs DEF RcShape, RcTimely, RcPlaced, RcInv, RcWorldHolds
<1>13. /\ IsPage(grouped) /\ grouped.at = "grouping" /\ grouped.todo = q.todo \ {id}
       /\ grouped.out = [q.out EXCEPT ![id] = v] /\ grouped.ask = (IF asked THEN q.ask \cup {id} ELSE q.ask)
       /\ grouped.left = (IF asked THEN q.left \cup {s} ELSE q.left)
       /\ grouped.launched = q.launched /\ grouped.ready = {} /\ grouped.hand = q.hand /\ grouped.deadline = rcNow
       /\ grouped.when = q.when
  BY <1>9, <1>10, <1>12 DEF IsPage
<1>14. v \in BOOLEAN /\ (hit => said \in BOOLEAN) /\ (v => RcWithin(RcWorld, p, id, rcNow + RcFresh))
  <2>1. CASE hit
    <3>1. said \in BOOLEAN /\ (said => RcWithin(RcWorld, p, id, rcNow + RcFresh))
      BY <1>4, <1>5, <1>7, <1>11, <2>1, RcHitTrue
    <3>2. v = said BY <1>8, <2>1
    <3> QED BY <3>1, <3>2
  <2>2. CASE ~hit
    <3>1. v = ~asked BY <1>8, <2>2
    <3>2. ~asked => s \in RcWorld.unchecked BY <1>6, <1>12, <2>2, RcWorldIs DEF RcInv, RcWorldHolds
    <3>3. ~asked => RcWithin(RcWorld, p, id, rcNow + RcFresh) BY <1>3, <3>2 DEF RcWithin
    <3> QED BY <2>2, <3>1, <3>3
  <2> QED BY <2>1, <2>2
<1>15. RcShape(grouped) /\ RcPlaced(grouped)
  <2>1. grouped.out \in [RcIds -> BOOLEAN] BY <1>11, <1>13, <1>14 DEF RcShape
  <2>2. RcShape(grouped)
    <3>1. grouped.ask \subseteq RcIds /\ grouped.left \subseteq RcSources /\ grouped.todo \subseteq RcIds
      BY <1>11, <1>12, <1>13 DEF RcShape
    <3> QED BY <1>11, <1>12, <1>13, <2>1, <3>1 DEF RcShape, RcPlaces
  <2>3. RcPlaced(grouped) BY <1>13 DEF RcPlaced
  <2> QED BY <2>2, <2>3
<1>16. \A i \in RcIds : grouped.out[i] = IF i = id THEN v ELSE q.out[i] BY <1>11, <1>13 DEF RcShape
<1>17. \A i \in RcIds : grouped.out[i] => RcWithin(RcWorld, p, i, rcNow + RcFresh)
  <2>1. RcAllow(q) = rcNow + RcFresh BY <1>10, <1>12 DEF RcAllow
  <2>2. \A i \in RcIds : q.out[i] => RcWithin(RcWorld, p, i, rcNow + RcFresh) BY <1>11, <2>1 DEF RcStill
  <2> QED BY <1>14, <1>16, <2>2
<1>18. PICK N : N = IF hit THEN (IF said THEN RcNone ELSE RcPaid(s, id)) ELSE RcNone OBVIOUS
<1>19. N \in RcRows /\ RcCounted(N) /\ (hit /\ ~said => id \in N[s])
  <2>1. CASE hit
    <3>1. said \in BOOLEAN /\ rcCounts' = record(rcCounts, s, said) BY <1>10, <1>14, <2>1
    <3>2. RcCounted(IF said THEN RcNone ELSE RcPaid(s, id)) BY <1>12, <3>1, RcCountedRecord
    <3>3. N = IF said THEN RcNone ELSE RcPaid(s, id) BY <1>18, <2>1
    <3> QED BY <1>12, <3>2, <3>3, RcNoneIs, RcPaidIs
  <2>2. CASE ~hit
    <3>1. N = RcNone /\ rcCounts' = rcCounts BY <1>10, <1>18, <2>2
    <3> QED BY <2>2, <3>1, RcNoneIs, RcCountedNone
  <2> QED BY <2>1, <2>2
<1>20. RcShardHolds'
  <2>1. CASE s \in rcCheckers BY <1>10, <2>1, RcShardGet
  <2>2. CASE s \notin rcCheckers BY <1>10, <2>2, RcShardSame
  <2> QED BY <2>1, <2>2
<1>21. \A x \in RcSources, i \in RcIds : RcRefuses(grouped, x, i) => RcRefuses(q, x, i) \/ i \in N[x]
  <2> SUFFICES ASSUME NEW x \in RcSources, NEW i \in RcIds, RcRefuses(grouped, x, i)
               PROVE  RcRefuses(q, x, i) \/ i \in N[x]
    OBVIOUS
  <2>1. /\ sourceOf(i) = x /\ ~grouped.out[i] /\ i \notin q.todo \ {id}
        /\ i \notin grouped.ask \/ x \notin grouped.left
    BY <1>13 DEF RcRefuses
  <2>2. CASE i = id
    <3>1. ~v /\ x = s BY <1>3, <1>16, <2>1, <2>2
    <3>2. ~asked BY <1>13, <2>1, <2>2, <3>1
    <3>3. hit /\ ~said BY <1>8, <3>1, <3>2
    <3> QED BY <1>19, <2>2, <3>1, <3>3
  <2>3. CASE i # id
    <3>1. ~q.out[i] /\ i \notin q.todo BY <1>16, <2>1, <2>3
    <3>2. i \notin q.ask \/ x \notin q.left BY <1>13, <2>1
    <3> QED BY <1>10, <2>1, <3>1, <3>2 DEF RcRefuses
  <2> QED BY <2>2, <2>3
<1>22. CASE grouped.todo # {} /\ rcGoesOn(g, grouped)
  <2>1. RcTimely(grouped, RcWorld) BY <1>13, RcWorldIs DEF RcTimely
  <2>2. RcAllow(grouped) = rcNow + RcFresh BY <1>13 DEF RcAllow
  <2>3. RcStill(grouped, p, RcWorld) BY <1>13, <1>17, <2>2 DEF RcStill
  <2>4. RcPage(grouped, RcAsker[g], RcWorld) BY <1>2, <1>15, <2>1, <2>3 DEF RcPage
  <2> QED BY <1>1, <1>10, <1>19, <1>20, <1>21, <1>22, <2>4, RcGoesOnKeeps
<1>23. CASE grouped.todo = {} /\ grouped.ask = {} /\ rcReturn(g, grouped)
  <2>1. \A i \in RcIds : grouped.out[i] => RcWithin(RcWorld, RcAsker[g], i, rcNow + RcReused)
    <3>1. PICK n : n = rcNow + RcReused OBVIOUS
    <3>2. PICK m : m = rcNow + RcFresh OBVIOUS
    <3>3. n \in Int /\ m \in Int /\ n <= m BY <1>12, <3>1, <3>2, RcTimes
    <3>4. \A i \in RcIds : RcWithin(RcWorld, p, i, m) => RcWithin(RcWorld, p, i, n) BY <1>11, <3>3, RcWithinLess
    <3> QED BY <1>2, <1>17, <3>1, <3>2, <3>4
  <2>2. \A x \in RcSources, i \in RcIds : i \in rcHides(grouped, x) => RcRefuses(grouped, x, i)
    BY <1>13, <1>23 DEF rcHides, RcRefuses
  <2>3. \A x \in RcSources, i \in RcIds : i \in rcHides(grouped, x) => RcRefuses(rcPage[g], x, i) \/ i \in N[x]
    BY <1>1, <1>21, <2>2
  <2> QED BY <1>10, <1>15, <1>19, <1>20, <1>23, <2>1, <2>3, RcReturnKeeps
<1>24. CASE /\ grouped.todo = {} /\ grouped.ask # {}
            /\ rcGoesOn(g, [grouped EXCEPT !.at = "asking", !.deadline = rcNow + RcTimeout])
  <2>1. PICK page : page = [grouped EXCEPT !.at = "asking", !.deadline = rcNow + RcTimeout] OBVIOUS
  <2>2. /\ IsPage(page) /\ page.at = "asking" /\ page.todo = {} /\ page.out = grouped.out /\ page.ask = grouped.ask
        /\ page.left = grouped.left /\ page.launched = grouped.launched /\ page.ready = {} /\ page.hand = grouped.hand
        /\ page.deadline = rcNow + RcTimeout /\ page.when = grouped.when
    BY <1>13, <1>24, <2>1 DEF IsPage
  <2>3. RcShape(page)
    <3>1. rcNow + RcTimeout \in Nat BY <1>12, RcTimes
    <3> QED BY <1>15, <2>2, <3>1 DEF RcShape, RcPlaces
  <2>4. RcPlaced(page) BY <2>2 DEF RcPlaced
  <2>5. RcTimely(page, RcWorld)
    <3>1. rcNow <= page.deadline /\ page.deadline <= rcNow + RcTimeout BY <1>12, <2>2, RcTimes
    <3> QED BY <2>2, <3>1, RcWorldIs DEF RcTimely
  <2>6. RcAllow(page) = rcNow + RcFresh
    <3>1. RcAllow(page) = rcNow + RcTimeout + RcReused BY <2>2 DEF RcAllow
    <3> QED BY <1>12, <3>1, RcTimes
  <2>7. RcStill(page, p, RcWorld) BY <1>17, <2>2, <2>6 DEF RcStill
  <2>8. RcPage(page, RcAsker[g], RcWorld) BY <1>2, <2>3, <2>4, <2>5, <2>7 DEF RcPage
  <2>9. \A x \in RcSources, i \in RcIds : RcRefuses(page, x, i) => RcRefuses(grouped, x, i)
    BY <1>13, <1>24, <2>2 DEF RcRefuses
  <2>10. rcGoesOn(g, page) BY <1>24, <2>1
  <2> QED BY <1>1, <1>10, <1>19, <1>20, <1>21, <2>8, <2>9, <2>10, RcGoesOnKeeps
<1> QED BY <1>10, <1>22, <1>23, <1>24

LEMMA RcApplyKeeps == ASSUME RcInv, NEW g \in RcPages, NEW id \in RcIds, RcApply(g, id) PROVE RcInv'
<1>1. PICK q : q = rcPage[g] OBVIOUS
<1>2. PICK p : p = RcAsker[g] OBVIOUS
<1>3. PICK r : r = q.hand OBVIOUS
<1>4. PICK s : s = r.source OBVIOUS
<1>5. PICK key : key = rcKey(p, id) OBVIOUS
<1>6. PICK said \in BOOLEAN : said <=> id \in DOMAIN r.allowed
  <2>1. (id \in DOMAIN r.allowed) \in BOOLEAN OBVIOUS
  <2> QED BY <2>1
<1>7. PICK v \in BOOLEAN : v = (said /\ r.allowed[id])
  <2>1. (said /\ r.allowed[id]) \in BOOLEAN OBVIOUS
  <2> QED BY <2>1
<1>8. PICK applied : applied = [q EXCEPT !.todo = @ \ {id}, !.out = [q.out EXCEPT ![id] = v]] OBVIOUS
<1>9. q.at = "applying" /\ id \in q.todo /\ RcWorldStays BY <1>1 DEF RcApply, RcWorldStays
<1>10. RcShape(q) /\ RcPlaced(q) /\ RcTimely(q, RcWorld) /\ RcStill(q, p, RcWorld) /\ p \in RcAskers
  BY <1>1, <1>2, <1>9, RcInFlight
<1>11. RcAnswers(r, p, RcWorld, q.deadline) /\ s \in RcSources /\ s = sourceOf(id)
  BY <1>3, <1>4, <1>9, <1>10 DEF RcStill, RcAnswers, RcPlaced
<1>12. v = (id \in DOMAIN r.allowed /\ r.allowed[id]) BY <1>6, <1>7
<1>13. /\ rcShard' = IF said THEN put(rcShard, key, v, expiry(RcTTL, rcNow), RcCap) ELSE rcShard
       /\ rcCounts' = IF said THEN record(rcCounts, s, v) ELSE fail(rcCounts, s)
       /\ \/ applied.todo # {} /\ rcGoesOn(g, applied)
          \/ applied.todo = {} /\ applied.left = {} /\ rcReturn(g, applied)
          \/ applied.todo = {} /\ applied.left # {} /\ rcGoesOn(g, [applied EXCEPT !.at = "asking"])
  BY <1>1, <1>2, <1>3, <1>4, <1>5, <1>6, <1>8, <1>12 DEF RcApply
<1>14. /\ IsPage(q) /\ rcNow \in Nat /\ q.deadline \in Nat /\ rcNow <= q.deadline /\ q.deadline <= rcNow + RcTimeout
       /\ q.at \notin {"grouping", "shown"}
  <2>1. rcNow \in Nat /\ q.deadline \in Nat BY <1>10 DEF RcInv, RcWorldHolds, RcShape
  <2>2. PICK w : w = RcWorld OBVIOUS
  <2>3. RcTimely(q, w) /\ w.now = rcNow BY <1>10, <2>2, RcWorldIs
  <2>4. w.now <= q.deadline /\ q.deadline <= w.now + RcTimeout BY <1>9, <2>3 DEF RcTimely
  <2> QED BY <1>9, <1>10, <2>1, <2>3, <2>4 DEF RcShape
<1>15. /\ IsPage(applied) /\ applied.at = "applying" /\ applied.todo = q.todo \ {id}
       /\ applied.out = [q.out EXCEPT ![id] = v] /\ applied.ask = q.ask /\ applied.left = q.left
       /\ applied.launched = q.launched /\ applied.ready = q.ready /\ applied.hand = r /\ applied.deadline = q.deadline
       /\ applied.when = q.when
  BY <1>3, <1>8, <1>9, <1>14 DEF IsPage
<1>16. v => said /\ RcWithin(RcWorld, p, id, q.deadline - RcTimeout)
  BY <1>6, <1>11, <1>12 DEF RcAnswers
<1>17. v => RcWithin(RcWorld, p, id, rcNow - RcTimeout) /\ RcWithin(RcWorld, p, id, q.deadline + RcReused)
  <2>1. PICK k : k = rcNow - RcTimeout OBVIOUS
  <2>2. PICK n : n = q.deadline + RcReused OBVIOUS
  <2>3. PICK m : m = q.deadline - RcTimeout OBVIOUS
  <2>4. k \in Int /\ n \in Int /\ m \in Int /\ k <= m /\ n <= m BY <1>14, <2>1, <2>2, <2>3, RcTimes
  <2>5. RcWithin(RcWorld, p, id, m) => RcWithin(RcWorld, p, id, k) /\ RcWithin(RcWorld, p, id, n)
    BY <1>10, <2>4, RcWithinLess
  <2> QED BY <1>16, <2>1, <2>2, <2>3, <2>5
<1>18. RcShardHolds'
  <2>1. CASE said
    <3>1. PICK e : e = entry(key, v, expiry(RcTTL, rcNow)) OBVIOUS
    <3>2. expiry(RcTTL, rcNow) = rcNow + RcTTL BY RcTimes DEF expiry, Forever
    <3>3. e.key = key /\ e.val = v /\ e.expires = rcNow + RcTTL BY <3>1, <3>2 DEF entry
    <3>4. e.expires \in Nat \ {0} /\ e.expires - RcTTL - RcTimeout = rcNow - RcTimeout BY <1>14, <3>3, RcTimes
    <3>5. \A a \in RcAskers, i \in RcIds : e.key = rcKey(a, i) => a = p /\ i = id BY <1>5, <3>3 DEF rcKey
    <3>6. \A a \in RcAskers, i \in RcIds : e.key = rcKey(a, i) /\ e.val => RcWithin(RcWorld, a, i, rcNow - RcTimeout)
      BY <1>17, <3>3, <3>5
    <3>7. e.val \in BOOLEAN /\ e.expires <= RcWorld.now + RcTTL BY <1>14, <3>3, RcWorldIs, RcTimes
    <3>8. RcEntry(e, RcWorld) BY <3>4, <3>6, <3>7 DEF RcEntry
    <3> QED BY <1>9, <1>13, <2>1, <3>1, <3>8, RcShardPut
  <2>2. CASE ~said BY <1>9, <1>13, <2>2, RcShardSame
  <2> QED BY <2>1, <2>2
<1>19. PICK N : N = IF v THEN RcNone ELSE RcPaid(s, id) OBVIOUS
<1>20. N \in RcRows /\ RcCounted(N) /\ (~v => id \in N[s])
  <2>1. CASE said
    <3>1. RcCounted(IF v THEN RcNone ELSE RcPaid(s, id)) BY <1>11, <1>13, <2>1, RcCountedRecord
    <3> QED BY <1>11, <1>19, <3>1, RcNoneIs, RcPaidIs
  <2>2. CASE ~said
    <3>1. ~v BY <1>16, <2>2
    <3>2. N = RcPaid(s, id) BY <1>19, <3>1
    <3>3. RcCounted(RcPaid(s, id)) BY <1>11, <1>13, <2>2, RcCountedFail
    <3> QED BY <1>11, <3>2, <3>3, RcPaidIs
  <2> QED BY <2>1, <2>2
<1>21. \A i \in RcIds : applied.out[i] = IF i = id THEN v ELSE q.out[i] BY <1>10, <1>15 DEF RcShape
<1>22. \A i \in RcIds : applied.out[i] => RcWithin(RcWorld, p, i, q.deadline + RcReused)
  <2>1. RcAllow(q) = q.deadline + RcReused BY <1>14 DEF RcAllow
  <2>2. \A i \in RcIds : q.out[i] => RcWithin(RcWorld, p, i, q.deadline + RcReused) BY <1>10, <2>1 DEF RcStill
  <2> QED BY <1>17, <1>21, <2>2
<1>23. RcShape(applied)
  <2>1. applied.out \in [RcIds -> BOOLEAN] BY <1>10, <1>15 DEF RcShape
  <2>2. applied.todo \subseteq RcIds BY <1>10, <1>15 DEF RcShape
  <2> QED BY <1>10, <1>15, <2>1, <2>2 DEF RcShape, RcPlaces
<1>24. \A x \in RcSources, i \in RcIds : RcRefuses(applied, x, i) => RcRefuses(q, x, i) \/ i \in N[x]
  <2> SUFFICES ASSUME NEW x \in RcSources, NEW i \in RcIds, RcRefuses(applied, x, i)
               PROVE  RcRefuses(q, x, i) \/ i \in N[x]
    OBVIOUS
  <2>1. sourceOf(i) = x /\ ~applied.out[i] /\ i \notin q.todo \ {id} /\ (i \notin q.ask \/ x \notin q.left)
    BY <1>15 DEF RcRefuses
  <2>2. CASE i = id
    <3>1. ~v /\ x = s BY <1>11, <1>21, <2>1, <2>2
    <3> QED BY <1>20, <2>2, <3>1
  <2>3. CASE i # id
    <3>1. ~q.out[i] /\ i \notin q.todo BY <1>21, <2>1, <2>3
    <3> QED BY <1>9, <2>1, <3>1 DEF RcRefuses
  <2> QED BY <2>2, <2>3
<1>25. \A x \in applied.ready : x.source \in applied.left \cap applied.launched BY <1>10, <1>15 DEF RcPlaced
<1>26. \A x, y \in applied.ready : x.source = y.source => x = y BY <1>10, <1>15 DEF RcPlaced
<1>27. \A x \in applied.ready : RcAnswers(x, p, RcWorld, q.deadline) BY <1>10, <1>15 DEF RcStill
<1>28. CASE applied.todo # {} /\ rcGoesOn(g, applied)
  <2>1. RcPlaced(applied)
    <3>1. \A i \in applied.todo : sourceOf(i) = applied.hand.source BY <1>3, <1>9, <1>10, <1>15 DEF RcPlaced
    <3> QED BY <1>15, <1>25, <1>26, <3>1 DEF RcPlaced
  <2>2. RcTimely(applied, RcWorld) BY <1>14, <1>15, RcWorldIs DEF RcTimely
  <2>3. RcAllow(applied) = q.deadline + RcReused BY <1>15 DEF RcAllow
  <2>4. RcStill(applied, p, RcWorld) BY <1>11, <1>15, <1>22, <1>27, <2>3 DEF RcStill
  <2>5. RcPage(applied, RcAsker[g], RcWorld) BY <1>2, <1>23, <2>1, <2>2, <2>4 DEF RcPage
  <2> QED BY <1>1, <1>9, <1>18, <1>20, <1>24, <1>28, <2>5, RcGoesOnKeeps
<1>29. CASE applied.todo = {} /\ applied.left = {} /\ rcReturn(g, applied)
  <2>1. \A i \in RcIds : applied.out[i] => RcWithin(RcWorld, RcAsker[g], i, rcNow + RcReused)
    <3>1. PICK n : n = rcNow + RcReused OBVIOUS
    <3>2. PICK m : m = q.deadline + RcReused OBVIOUS
    <3>3. n \in Int /\ m \in Int /\ n <= m BY <1>14, <3>1, <3>2, RcTimes
    <3>4. \A i \in RcIds : RcWithin(RcWorld, p, i, m) => RcWithin(RcWorld, p, i, n) BY <1>10, <3>3, RcWithinLess
    <3> QED BY <1>2, <1>22, <3>1, <3>2, <3>4
  <2>2. \A x \in RcSources, i \in RcIds : i \in rcHides(applied, x) => RcRefuses(applied, x, i)
    BY <1>15, <1>29 DEF rcHides, RcRefuses
  <2>3. \A x \in RcSources, i \in RcIds : i \in rcHides(applied, x) => RcRefuses(rcPage[g], x, i) \/ i \in N[x]
    BY <1>1, <1>24, <2>2
  <2> QED BY <1>9, <1>18, <1>20, <1>23, <1>29, <2>1, <2>3, RcReturnKeeps
<1>30. CASE applied.todo = {} /\ applied.left # {} /\ rcGoesOn(g, [applied EXCEPT !.at = "asking"])
  <2>1. PICK page : page = [applied EXCEPT !.at = "asking"] OBVIOUS
  <2>2. /\ IsPage(page) /\ page.at = "asking" /\ page.todo = {} /\ page.out = applied.out /\ page.ask = applied.ask
        /\ page.left = applied.left /\ page.launched = applied.launched /\ page.ready = applied.ready
        /\ page.hand = applied.hand /\ page.deadline = q.deadline /\ page.when = applied.when
    BY <1>15, <1>30, <2>1 DEF IsPage
  <2>3. RcShape(page) BY <1>15, <1>23, <2>2 DEF RcShape, RcPlaces
  <2>4. RcPlaced(page) BY <1>25, <1>26, <2>2 DEF RcPlaced
  <2>5. RcTimely(page, RcWorld) BY <1>14, <2>2, RcWorldIs DEF RcTimely
  <2>6. RcAllow(page) = q.deadline + RcReused BY <2>2 DEF RcAllow
  <2>7. RcStill(page, p, RcWorld) BY <1>22, <1>27, <2>2, <2>6 DEF RcStill
  <2>8. RcPage(page, RcAsker[g], RcWorld) BY <1>2, <2>3, <2>4, <2>5, <2>7 DEF RcPage
  <2>9. \A x \in RcSources, i \in RcIds : RcRefuses(page, x, i) => RcRefuses(applied, x, i)
    BY <1>15, <1>30, <2>2 DEF RcRefuses
  <2>10. rcGoesOn(g, page) BY <1>30, <2>1
  <2> QED BY <1>1, <1>9, <1>18, <1>20, <1>24, <2>8, <2>9, <2>10, RcGoesOnKeeps
<1> QED BY <1>13, <1>28, <1>29, <1>30

-----------------------------------------------------------------------------
LEMMA RcInitHolds == RcInit => RcInv
<1> SUFFICES ASSUME RcInit PROVE RcInv OBVIOUS
<1>1. RcWorldHolds BY RcAssumption DEF RcInit, RcWorldHolds, RcAssumption
<1>2. RcShardHolds
  <2>1. EntriesOf(<<>>) = {} BY DEF EntriesOf
  <2>2. <<>> \in Seq({}) /\ Len(<<>>) = 0 OBVIOUS
  <2>3. rcShard = <<>> /\ RcCap \in Nat BY RcAssumption DEF RcInit, RcAssumption
  <2> QED BY <2>1, <2>2, <2>3 DEF RcShardHolds, IsShard
<1>3. rcPage = [g \in RcPages |-> rcIdle] BY DEF RcInit
<1>4. RcPagesHold BY <1>3 DEF RcPagesHold, RcPage
<1>5. RcCountsHold
  <2>1. \A s : RcRefused(s) = {}
    <3>1. \A x \in RcPages \X RcIds : rcPage[x[1]] = rcIdle BY <1>3
    <3>2. \A s, id : ~RcRefuses(rcIdle, s, id) BY DEF RcRefuses, rcIdle
    <3> QED BY <3>1, <3>2 DEF RcRefused
  <2>2. \A s : Cardinality(RcRefused(s)) = 0 BY <2>1, FS_EmptySet
  <2>3. /\ rcCounts = [s \in RcSources |-> [checked |-> 0, denied |-> 0, failed |-> 0]]
        /\ rcHidden = [s \in RcSources |-> 0]
    BY DEF RcInit
  <2> QED BY <2>2, <2>3 DEF RcCountsHold
<1> QED BY <1>1, <1>2, <1>4, <1>5 DEF RcInv

LEMMA RcNextKeeps ==
  ASSUME RcInv, [RcNext]_rcVars
  PROVE  RcInv'
<1>1. CASE RcTick BY <1>1, RcTickKeeps
<1>2. CASE \E s \in RcSources : RcAdd(s) BY <1>2, RcAddKeeps
<1>3. CASE \E p \in RcAskers, id \in RcIds : RcRevoke(p, id) BY <1>3, RcRevokeKeeps
<1>4. ASSUME NEW g \in RcPages, RcAllowed(g) \/ RcExpire(g) \/ RcDone(g) PROVE RcInv'
  BY <1>4, RcAllowedKeeps, RcExpireKeeps, RcDoneKeeps
<1>5. ASSUME NEW g \in RcPages, NEW id \in RcIds, RcGroup(g, id) \/ RcApply(g, id) PROVE RcInv'
  BY <1>5, RcGroupKeeps, RcApplyKeeps
<1>6. ASSUME NEW g \in RcPages, NEW s \in RcSources, RcLaunch(g, s) PROVE RcInv'
  BY <1>6, RcLaunchKeeps
<1>7. ASSUME NEW g \in RcPages, NEW s \in RcSources, NEW about \in SUBSET RcIds, RcAnswer(g, s, about) PROVE RcInv'
  BY <1>7, RcAnswerKeeps
<1>8. ASSUME NEW g \in RcPages, NEW r \in rcPage[g].ready, RcReceive(g, r) PROVE RcInv'
  BY <1>8, RcReceiveKeeps
<1>9. CASE UNCHANGED rcVars
  <2>1. /\ UNCHANGED <<rcShard, rcCounts, rcHidden, rcPage>>
        /\ UNCHANGED <<rcCheckers, rcUnchecked, rcRevoked, rcNow>>
    BY <1>9 DEF rcVars
  <2>2. RcWorld' = RcWorld BY <2>1 DEF RcWorld
  <2>3. RcWorldHolds' BY <2>1 DEF RcInv, RcWorldHolds
  <2>4. RcShardHolds' BY <2>1, <2>2 DEF RcInv, RcShardHolds
  <2>5. RcPagesHold' BY <2>1, <2>2 DEF RcInv, RcPagesHold
  <2>6. RcCountsHold'
    <3>1. \A s : RcRefused(s)' = RcRefused(s) BY <2>1 DEF RcRefused
    <3> QED BY <2>1, <3>1 DEF RcInv, RcCountsHold
  <2> QED BY <2>3, <2>4, <2>5, <2>6 DEF RcInv
<1> QED BY <1>1, <1>2, <1>3, <1>4, <1>5, <1>6, <1>7, <1>8, <1>9 DEF RcNext

LEMMA RcInvSees == RcInv => RevocationsAreSeen
<1> SUFFICES ASSUME RcInv PROVE RevocationsAreSeen OBVIOUS
<1>1. RcTypeOK
  <2>1. rcCheckers \subseteq RcSources /\ rcNow \in 0..RcMaxTime BY DEF RcInv, RcWorldHolds
  <2>2. Len(rcShard) <= RcCap BY DEF RcInv, RcShardHolds, IsShard
  <2>3. ASSUME NEW g \in RcPages, rcPage[g].at # "idle"
        PROVE  /\ rcPage[g].out \in [RcIds -> BOOLEAN] /\ rcPage[g].ask \subseteq RcIds
               /\ {r.source : r \in rcPage[g].ready} \subseteq rcPage[g].left
    BY <2>3, RcInFlight DEF RcShape, RcPlaced
  <2> QED BY <2>1, <2>2, <2>3 DEF RcTypeOK
<1>2. RevocationSeen
  <2> SUFFICES ASSUME NEW g \in RcPages, rcPage[g].at = "shown", NEW id \in RcIds, NEW t, t = rcRevoked[RcAsker[g], id],
                      rcPage[g].out[id], sourceOf(id) \notin rcUnchecked, t # None
               PROVE  rcPage[g].when < t + RcTTL + 2 * RcTimeout
    BY DEF RevocationSeen
  <2>1. RcShape(rcPage[g]) /\ RcStill(rcPage[g], RcAsker[g], RcWorld) /\ RcAsker[g] \in RcAskers BY RcInFlight
  <2>2. RcWithin(RcWorld, RcAsker[g], id, rcPage[g].when + RcReused) BY <2>1 DEF RcStill, RcAllow
  <2>3. rcPage[g].when + RcReused <= t BY <2>2, RcWorldIs DEF RcWithin
  <2>4. t \in Nat BY <2>1, RcRevokedIs
  <2>5. rcPage[g].when \in Nat BY <2>1 DEF RcShape
  <2> QED BY <2>3, <2>4, <2>5, RcBound
<1>3. NoQuietRefusal
  <2> SUFFICES ASSUME NEW s \in RcSources PROVE rcHidden[s] <= rcCounts[s].denied + rcCounts[s].failed
    BY DEF NoQuietRefusal
  <2>1. Cardinality(RcRefused(s)) \in Nat BY RcRefusedFinite, FS_CardinalityType
  <2>2. Cardinality(RcRefused(s)) + rcHidden[s] <= rcCounts[s].denied + rcCounts[s].failed BY DEF RcInv, RcCountsHold
  <2>3. rcHidden[s] \in Nat /\ rcCounts[s].denied \in Nat /\ rcCounts[s].failed \in Nat BY DEF RcInv, RcCountsHold
  <2> QED BY <2>1, <2>2, <2>3
<1> QED BY <1>1, <1>2, <1>3 DEF RevocationsAreSeen

\* Whatever was asked before, whichever source is slow and whatever fails: a row
\* withdrawn at a source that is checked is not shown past the lifetime of an
\* answer and two deadlines, and no row is hidden that the counters of its source
\* do not show (Set.Allowed, Set.expire).
THEOREM RevocationsSeen == RcSpec => []RevocationsAreSeen
<1>1. RcInit => RcInv BY RcInitHolds
<1>2. RcInv /\ [RcNext]_rcVars => RcInv' BY RcNextKeeps
<1>3. RcInv => RevocationsAreSeen BY RcInvSees
<1> QED BY <1>1, <1>2, <1>3, PTL DEF RcSpec
=============================================================================
