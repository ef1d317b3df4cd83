------------------------------- MODULE Search -------------------------------
(* Search and what it reuses between requests (index/index.go, cache.go and *)
(* score.go).  A search ranks what the asker may read, reads the corpus     *)
(* numbers, then fetches the documents of the page; the ordering, the       *)
(* numbers, the documents and the shape of the corpus are four layers of    *)
(* cache.  Somebody else writes meanwhile, and the write is told to the     *)
(* cache after it is committed, in two steps.                               *)
EXTENDS Cache, FiniteSets

CONSTANTS
  IxIds, IxAskers,     \* documents and people
  IxReaders,           \* requests in flight
  IxNewDoc,            \* a document as it is first saved
  IxResultTTL, IxShapeTTL, IxCap,
  IxMaxWrites, IxMaxRequests, IxMaxTime
IxDocuments == [ver: Nat, readers: SUBSET IxAskers]
IxTold == [id: IxIds, was: IxDocuments \cup {None}, dropped: BOOLEAN]
\* None is neither a document nor a write being told.
ASSUME IxAssumption ==
  /\ IxResultTTL \in Nat /\ IxShapeTTL \in Nat \ {0} /\ IxCap \in Nat \ {0}
  /\ IxMaxWrites \in Nat /\ IxMaxTime \in Nat
  /\ IxNewDoc \in IxDocuments /\ None \notin IxDocuments /\ None \notin IxTold

VARIABLES
  ixDocs,     \* what the store holds: each document, or None
  ixGen,      \* the tenant's generation
  ixUntold,   \* the committed write being told, and how far
  ixCache,    \* the four layers
  ixFlight,   \* the keys of each layer somebody is producing
  ixBlind,    \* the driver does not report its writes
  ixReq,      \* the requests
  ixNow, ixWrites, ixBegun
ixVars == <<ixDocs, ixGen, ixUntold, ixCache, ixFlight, ixBlind, ixReq, ixNow, ixWrites, ixBegun>>

Layers == {"results", "corpus", "docs", "shape"}
ixTTL(layer) == CASE layer = "results" -> IxResultTTL [] layer = "shape" -> IxShapeTTL [] OTHER -> Forever
ixIdle == [at |-> "idle"]
noBody == [id \in {} |-> 0]     \* the bodies in hand: versions, by id

\* The permission rule is the driver's, and so is the count of the corpus.
readable(docs, p) == {id \in IxIds : docs[id] # None /\ p \in docs[id].readers}
stored(docs) == Cardinality({id \in IxIds : docs[id] # None})
versionOf(docs, id) == IF docs[id] = None THEN 0 ELSE docs[id].ver

IxInit ==
  /\ ixDocs \in [IxIds -> {IxNewDoc, None}]
  /\ ixGen = 0 /\ ixUntold = None
  /\ ixCache = [l \in Layers |-> <<>>]
  /\ ixFlight = [l \in Layers |-> {}]
  /\ ixBlind \in BOOLEAN
  /\ ixReq = [r \in IxReaders |-> ixIdle]
  /\ ixNow = 0 /\ ixWrites = 0 /\ ixBegun = 0

-----------------------------------------------------------------------------
(* A write commits, and the goroutine that wrote then tells the cache.      *)

\* What a request may show, must find and may count, as the store moves on.
ixFollowed(docs) ==
  [r \in IxReaders |->
     IF ixReq[r].at = "idle" THEN ixIdle
     ELSE [ixReq[r] EXCEPT !.may = @ \cup readable(docs, ixReq[r].p),
                           !.must = @ \cap readable(docs, ixReq[r].p),
                           !.counts = @ \cup {stored(docs)},
                           !.versions = [id \in IxIds |-> @[id] \cup {versionOf(docs, id)}]]]
\* A write commits and is told later.  Bound: one is under way at a time.
IxCommit(id, d) ==
  /\ ixWrites < IxMaxWrites /\ ixUntold = None /\ d # ixDocs[id]
  /\ ixWrites' = ixWrites + 1
  /\ ixDocs' = [ixDocs EXCEPT ![id] = d]
  /\ ixReq' = ixFollowed(ixDocs')
  /\ ixUntold' = IF ixBlind THEN None ELSE [id |-> id, was |-> ixDocs[id], dropped |-> FALSE]
  /\ UNCHANGED <<ixGen, ixCache, ixFlight, ixBlind, ixNow, ixBegun>>
\* Invalidate: the named document is dropped, then the generation moves.
IxDropDocs ==
  /\ ixUntold # None /\ ~ixUntold.dropped
  /\ ixCache' = [ixCache EXCEPT !["docs"] = remove(@, ixUntold.id)]
  /\ ixUntold' = [ixUntold EXCEPT !.dropped = TRUE]
  /\ UNCHANGED <<ixDocs, ixGen, ixFlight, ixBlind, ixReq, ixNow, ixWrites, ixBegun>>
IxBumpGen ==
  /\ ixUntold # None /\ ixUntold.dropped
  /\ ixGen' = ixGen + 1
  /\ ixUntold' = None
  /\ UNCHANGED <<ixDocs, ixCache, ixFlight, ixBlind, ixReq, ixNow, ixWrites, ixBegun>>

-----------------------------------------------------------------------------
(* cache.Do, for the three layers that use it.                              *)

\* Mutant of ixKey: an ordering is keyed by the query alone.
ixKeyOfQuery(layer, p, op) ==
  CASE layer = "results" -> <<ixGen, op>> [] layer = "corpus" -> <<ixGen>> [] OTHER -> <<p>>
\* The key of an ordering names the generation, the asker's visibility and
\* the request; that of the corpus numbers the generation, for they are the tenant's; that
\* of the shape the visibility alone.
ixKey(layer, p, op) ==
  CASE layer = "results" -> <<ixGen, p, op>> [] layer = "corpus" -> <<ixGen>> [] OTHER -> <<p>>

ixWants(req, layer) == [req EXCEPT !.at = "want", !.layer = layer, !.key = ixKey(layer, req.p, req.op)]
ixDirect(layer) == ixTTL(layer) = Off \/ (layer = "corpus" /\ ixBlind)

\* Documents are kept only while the driver says when they change.
ixKeepsDocs == ~ixBlind
\* The page is known: its documents are looked up one by one, or all read.
ixPage(req) ==
  IF ixKeepsDocs THEN [req EXCEPT !.at = "page", !.left = req.cands] ELSE [req EXCEPT !.at = "fetch"]
ixShown(req) == [req EXCEPT !.at = "shown"]

\* What a layer's value leads to: an ordering to the numbers (for a search) or
\* to the page, the numbers to the page, a shape to the answer.
ixOnward(req, val) ==
  CASE req.layer = "results" /\ req.op = "search" -> [ixWants(req, "corpus") EXCEPT !.cands = val]
    [] req.layer = "results" /\ req.op # "search" ->
         IF val = {} THEN ixShown(req) ELSE ixPage([req EXCEPT !.cands = val])
    [] req.layer = "corpus" -> IF req.cands = {} THEN ixShown([req EXCEPT !.count = val]) ELSE ixPage([req EXCEPT !.count = val])
    [] req.layer = "shape" -> ixShown([req EXCEPT !.shape = val])
\* What the driver answers.
ixAsk(req) ==
  CASE req.layer = "results" -> readable(ixDocs, req.p)
    [] req.layer = "corpus" -> stored(ixDocs)
    [] req.layer = "shape" -> [count |-> Cardinality(readable(ixDocs, req.p)), asker |-> req.p]

IxBegin(r, p, op) ==
  /\ ixReq[r].at = "idle" /\ ixBegun < IxMaxRequests
  /\ ixBegun' = ixBegun + 1
  /\ LET untold == IF ixUntold = None THEN {} ELSE {ixUntold.id}
         was == IF ixUntold = None THEN ixDocs ELSE [ixDocs EXCEPT ![ixUntold.id] = ixUntold.was]
         req == [at |-> "want", layer |-> "", key |-> <<>>, p |-> p, op |-> op, cands |-> {}, count |-> 0,
                 shape |-> None, val |-> None, have |-> noBody, left |-> {},
                 \* History: what the request may show, must find and may count.
                 may |-> readable(ixDocs, p) \cup readable(was, p),
                 must |-> readable(ixDocs, p) \ untold,
                 counts |-> {stored(ixDocs), stored(was)},
                 versions |-> [id \in IxIds |-> {versionOf(ixDocs, id), versionOf(was, id)}]]
     IN ixReq' = [ixReq EXCEPT ![r] = ixWants(req, IF op = "filters" THEN "shape" ELSE "results")]
  /\ UNCHANGED <<ixDocs, ixGen, ixUntold, ixCache, ixFlight, ixBlind, ixNow, ixWrites>>

IxLookup(r) ==
  /\ ixReq[r].at = "want"
  /\ LET req == ixReq[r]
         l == req.layer
         hit == ~ixDirect(l) /\ live(ixCache[l], req.key, ixNow)
     IN /\ ixCache' = IF ixDirect(l) THEN ixCache ELSE [ixCache EXCEPT ![l] = get(@, req.key, ixNow)]
        /\ \/ hit /\ ixReq' = [ixReq EXCEPT ![r] = ixOnward(req, entryIn(ixCache[l], req.key).val)]
                  /\ UNCHANGED ixFlight
           \/ ~hit /\ ~ixDirect(l) /\ req.key \in ixFlight[l]
              /\ ixReq' = [ixReq EXCEPT ![r].at = "wait"] /\ UNCHANGED ixFlight
           \/ ~hit /\ (ixDirect(l) \/ req.key \notin ixFlight[l])
              /\ ixReq' = [ixReq EXCEPT ![r].at = "run"]
              /\ ixFlight' = IF ixDirect(l) THEN ixFlight ELSE [ixFlight EXCEPT ![l] = @ \cup {req.key}]
  /\ UNCHANGED <<ixDocs, ixGen, ixUntold, ixBlind, ixNow, ixWrites, ixBegun>>
IxProduce(r) ==
  /\ ixReq[r].at = "run"
  /\ ixReq' = [ixReq EXCEPT ![r].at = "made", ![r].val = ixAsk(ixReq[r])]
  /\ UNCHANGED <<ixDocs, ixGen, ixUntold, ixCache, ixFlight, ixBlind, ixNow, ixWrites, ixBegun>>
\* The value goes to everybody waiting for the key.
IxDeliver(r) ==
  /\ ixReq[r].at = "made"
  /\ LET req == ixReq[r]
         l == req.layer
         same(q) == q = r \/ (~ixDirect(l) /\ ixReq[q].at = "wait" /\ ixReq[q].layer = l /\ ixReq[q].key = req.key)
     IN /\ ixReq' = [q \in IxReaders |-> IF same(q) THEN ixOnward([ixReq[q] EXCEPT !.val = None], req.val) ELSE ixReq[q]]
        /\ ixFlight' = IF ixDirect(l) THEN ixFlight ELSE [ixFlight EXCEPT ![l] = @ \ {req.key}]
        /\ ixCache' = IF ixDirect(l) THEN ixCache
                      ELSE [ixCache EXCEPT ![l] = put(@, req.key, req.val, expiry(ixTTL(l), ixNow), IxCap)]
  /\ UNCHANGED <<ixDocs, ixGen, ixUntold, ixBlind, ixNow, ixWrites, ixBegun>>
\* The driver fails; every waiter is told so and nothing is stored.
IxFails(r) ==
  /\ ixReq[r].at = "run"
  /\ LET l == ixReq[r].layer
     IN /\ ixReq' = [q \in IxReaders |->
              IF q = r \/ (~ixDirect(l) /\ ixReq[q].at = "wait" /\ ixReq[q].layer = l /\ ixReq[q].key = ixReq[r].key)
              THEN ixIdle ELSE ixReq[q]]
        /\ ixFlight' = IF ixDirect(l) THEN ixFlight ELSE [ixFlight EXCEPT ![l] = @ \ {ixReq[r].key}]
  /\ UNCHANGED <<ixDocs, ixGen, ixUntold, ixCache, ixBlind, ixNow, ixWrites, ixBegun>>

-----------------------------------------------------------------------------
(* fetch: the documents of the page, from the cache by id and, for the      *)
(* rest, from the driver under the asker's permissions.                     *)

IxDocument(r, id) ==
  /\ ixReq[r].at = "page" /\ id \in ixReq[r].left
  /\ LET req == ixReq[r]
         found == live(ixCache["docs"], id, ixNow)
         have == IF found THEN [x \in DOMAIN req.have \cup {id} |->
                                 IF x = id THEN entryIn(ixCache["docs"], id).val ELSE req.have[x]]
                 ELSE req.have
         left == req.left \ {id}
     IN ixReq' = [ixReq EXCEPT ![r] = [req EXCEPT !.have = have, !.left = left,
          !.at = IF left # {} THEN @ ELSE IF DOMAIN have = req.cands THEN "shown" ELSE "fetch"]]
  /\ ixCache' = [ixCache EXCEPT !["docs"] = get(@, id, ixNow)]
  /\ UNCHANGED <<ixDocs, ixGen, ixUntold, ixFlight, ixBlind, ixNow, ixWrites, ixBegun>>
\* An id that stopped being readable is missing from what comes back.
IxRead(r) ==
  /\ ixReq[r].at = "fetch"
  /\ LET req == ixReq[r]
         ids == (req.cands \ DOMAIN req.have) \cap readable(ixDocs, req.p)
         keeps == IF ixKeepsDocs THEN ids ELSE {}
     IN ixReq' = [ixReq EXCEPT ![r] = [req EXCEPT
          !.have = [id \in DOMAIN @ \cup ids |-> IF id \in ids THEN ixDocs[id].ver ELSE @[id]],
          !.left = keeps, !.at = IF keeps = {} THEN "shown" ELSE "keep"]]
  /\ UNCHANGED <<ixDocs, ixGen, ixUntold, ixCache, ixFlight, ixBlind, ixNow, ixWrites, ixBegun>>
IxPutDocument(r, id) ==
  /\ ixReq[r].at = "keep" /\ id \in ixReq[r].left
  /\ LET left == ixReq[r].left \ {id}
     IN ixReq' = [ixReq EXCEPT ![r].left = left, ![r].at = IF left = {} THEN "shown" ELSE @]
  /\ ixCache' = [ixCache EXCEPT !["docs"] = put(@, id, ixReq[r].have[id], Never, IxCap)]
  /\ UNCHANGED <<ixDocs, ixGen, ixUntold, ixFlight, ixBlind, ixNow, ixWrites, ixBegun>>

IxDone(r) ==
  /\ ixReq[r].at = "shown"
  /\ ixReq' = [ixReq EXCEPT ![r] = ixIdle]
  /\ UNCHANGED <<ixDocs, ixGen, ixUntold, ixCache, ixFlight, ixBlind, ixNow, ixWrites, ixBegun>>
\* An operator empties every layer; calls in flight go on.
IxClear ==
  /\ \E l \in Layers : ixCache[l] # <<>>
  /\ ixCache' = [l \in Layers |-> <<>>]
  /\ UNCHANGED <<ixDocs, ixGen, ixUntold, ixFlight, ixBlind, ixReq, ixNow, ixWrites, ixBegun>>
IxTick ==
  /\ ixNow < IxMaxTime
  /\ ixNow' = ixNow + 1
  /\ UNCHANGED <<ixDocs, ixGen, ixUntold, ixCache, ixFlight, ixBlind, ixReq, ixWrites, ixBegun>>

\* Saved, edited, shared and withdrawn, or deleted.
IxWritten(id) ==
  {IxNewDoc, None} \cup (IF ixDocs[id] = None THEN {}
    ELSE {[ixDocs[id] EXCEPT !.ver = @ + 1]} \cup {[ixDocs[id] EXCEPT !.readers = @ \ {p}] : p \in IxAskers})
IxNext ==
  \/ \E id \in IxIds : \E d \in IxWritten(id) : IxCommit(id, d)
  \/ IxDropDocs \/ IxBumpGen \/ IxClear \/ IxTick
  \/ \E r \in IxReaders :
       \/ \E p \in IxAskers, op \in {"search", "recent", "filters"} : IxBegin(r, p, op)
       \/ IxLookup(r) \/ IxProduce(r) \/ IxDeliver(r) \/ IxFails(r)
       \/ IxRead(r) \/ IxDone(r)
       \/ \E id \in IxIds : IxDocument(r, id) \/ IxPutDocument(r, id)

IxSpec == IxInit /\ [][IxNext]_ixVars

-----------------------------------------------------------------------------
\* Type invariant: a key is in flight exactly while one request produces its
\* value, whatever failed, and no layer outgrows its capacity.
IxTypeOK ==
  /\ ixGen \in 0..IxMaxWrites /\ ixNow \in 0..IxMaxTime
  /\ \A l \in Layers : Len(ixCache[l]) <= IxCap
  /\ \A r \in IxReaders : ixReq[r].at \in {"idle", "want", "wait", "run", "made", "page", "fetch", "keep", "shown"}
  /\ \A l \in Layers : ixFlight[l] = {ixReq[r].key : r \in {q \in IxReaders :
       ixReq[q].at \in {"run", "made"} /\ ixReq[q].layer = l /\ ~ixDirect(l)}}

shownBy(r) == IF ixReq[r].at = "shown" /\ ixReq[r].op # "filters" THEN DOMAIN ixReq[r].have ELSE {}

\* A result shows only what its asker could read at some moment since the
\* request began, though orderings and documents are reused and the documents
\* are kept by id alone: a revocation told before a request is never undone by
\* somebody else's read.
RevokedNotShown ==
  ~ixBlind => \A r \in IxReaders : \A id \in shownBy(r) : id \in ixReq[r].may

\* What was saved and told before a search began, and stayed readable, is found.
SavedIsFound ==
  ~ixBlind => \A r \in IxReaders : ixReq[r].at = "shown" /\ ixReq[r].op # "filters" => ixReq[r].must \subseteq shownBy(r)

\* The corpus numbers a search ranks by are those of some moment since it began.
CorpusIsCurrent ==
  \A r \in IxReaders : ixReq[r].at = "shown" /\ ixReq[r].op = "search" => ixReq[r].count \in ixReq[r].counts

\* The shape of the corpus drawn for somebody was counted over what somebody
\* with the same visibility may read.
ShapeIsOwn ==
  \A r \in IxReaders : ixReq[r].at = "shown" /\ ixReq[r].op = "filters" => ixReq[r].shape.asker = ixReq[r].p

\* Over a driver that does not report its writes, every body shown was the
\* store's at some moment since the request began, and permitted then.
BlindReadsThrough ==
  ixBlind => \A r \in IxReaders : \A id \in shownBy(r) :
    ixReq[r].have[id] \in ixReq[r].versions[id] /\ id \in ixReq[r].may

\* A result holds what its asker may read and what was saved, whatever was reused
\* from other requests (index/cache.go).
ResultsArePermitted ==
  /\ IxTypeOK
  /\ RevokedNotShown
  /\ SavedIsFound
  /\ CorpusIsCurrent
  /\ ShapeIsOwn
  /\ BlindReadsThrough

\* The cache can serve a stale ordering and cannot serve stale content: every
\* body shown was the store's at some moment since the request began.
ContentIsCurrent ==
  \A r \in IxReaders : \A id \in shownBy(r) : ixReq[r].have[id] \in ixReq[r].versions[id]
=============================================================================
