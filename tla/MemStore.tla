------------------------------ MODULE MemStore ------------------------------
(***************************************************************************)
(* The reference store (store/memstore) with the broadcaster it embeds     *)
(* (store/notify.go).                                                      *)
(*                                                                         *)
(* Every operation runs under one mutex, so each is one action; the change *)
(* it reports is sent after the mutex is released, which is an action of   *)
(* its own (MemChanged).  The subscriber modelled is the one every cache   *)
(* is: told about a document, it reads the document again (memSeen).       *)
(*                                                                         *)
(* The other drivers are shown to implement this module: it is the         *)
(* abstract specification of a store.  The reading history is kept apart   *)
(* (MemHistoryNext), because there the drivers differ.                     *)
(***************************************************************************)
EXTENDS Store

VARIABLES
  memDocs,        \* id -> document or None
  memContent,     \* id -> bytes of a document that is not text, or None
  memVerified,    \* id -> [by, until] or None
  memOwners,      \* id -> correction [owner, was] or None
  memReports,     \* id -> report key -> instant, 0 for no report
  memAnswers,     \* <<tenant, answer id>> -> phrasings claimed, <<>> for none
  memPhrasings,   \* <<tenant, phrasing>> -> answer id or None
  memFeeds,       \* tenant -> [created, updated] of its one source, or None
  memOpens,       \* principal -> ids, the latest last
  memClosed,
  memPending,     \* changes committed and not yet reported
  memSeen,        \* what a subscriber read when it was last told
  memSaid         \* history: the owner the source reported last

memDocVars == <<memDocs, memContent, memVerified, memOwners, memReports, memSaid>>
memDeskVars == <<memAnswers, memPhrasings, memFeeds>>
memTellVars == <<memPending, memSeen>>
memVars == <<memDocVars, memDeskVars, memTellVars, memOpens, memClosed>>

memVisible(p, id) ==
  /\ memDocs[id] # None
  /\ Queryable(memDocs[id])
  /\ memDocs[id].tenant = p.tenant
  /\ Allows(memDocs[id].perms, p)

MemInit ==
  /\ memDocs = [id \in Ids |-> None]
  /\ memContent = [id \in Ids |-> None]
  /\ memVerified = [id \in Ids |-> None]
  /\ memOwners = [id \in Ids |-> None]
  /\ memReports = [id \in Ids |-> [k \in ReportKeys |-> 0]]
  /\ memAnswers = [x \in Tenants \X AnswerIds |-> <<>>]
  /\ memPhrasings = [x \in Tenants \X Phrasings |-> None]
  /\ memFeeds = [t \in Tenants |-> None]
  /\ memOpens = [p \in Principals |-> <<>>]
  /\ memClosed = FALSE
  /\ memPending = {}
  /\ memSeen = memDocs
  /\ memSaid = [id \in Ids |-> None]

---------------------------------------------------------------------------
(* The write path.                                                         *)

\* Mutant of memCorrect: a crawl writes the owner the source reports.
memCorrectForgets(id, d) == [d EXCEPT !.content = None]

(* A standing correction is applied again and remembers the new answer.    *)
memCorrect(id, d) ==
  [d EXCEPT !.content = None,
            !.owner = IF memOwners[id] = None THEN d.owner ELSE memOwners[id].owner]

memTell(ids) ==
  /\ Cardinality(memPending) < MaxPending
  /\ memPending' = IF ids = {} THEN memPending ELSE memPending \cup {ids}
  /\ UNCHANGED memSeen

memPutAll(batch) ==
  LET ids == Written(batch)
  IN  /\ ~memClosed
      /\ memDocs' = [id \in Ids |-> IF id \in ids THEN memCorrect(id, LastOf(batch, id))
                                    ELSE memDocs[id]]
      /\ memContent' = [id \in Ids |-> IF id \in ids THEN LastOf(batch, id).content
                                       ELSE memContent[id]]
      /\ memOwners' = [id \in Ids |->
                         IF id \in ids /\ memOwners[id] # None
                         THEN [memOwners[id] EXCEPT !.was = LastOf(batch, id).owner]
                         ELSE memOwners[id]]
      /\ memSaid' = [id \in Ids |-> IF id \in ids THEN LastOf(batch, id).owner ELSE memSaid[id]]
      /\ UNCHANGED <<memVerified, memReports, memDeskVars, memClosed>>

MemPut(batch) == memPutAll(batch) /\ memTell(Written(batch))

memRemove(ids) ==
  /\ ~memClosed
  /\ memDocs' = [id \in Ids |-> IF id \in ids THEN None ELSE memDocs[id]]
  /\ memContent' = [id \in Ids |-> IF id \in ids THEN None ELSE memContent[id]]
  /\ memVerified' = [id \in Ids |-> IF id \in ids THEN None ELSE memVerified[id]]
  /\ memOwners' = [id \in Ids |-> IF id \in ids THEN None ELSE memOwners[id]]
  /\ memReports' = [id \in Ids |-> IF id \in ids THEN [k \in ReportKeys |-> 0]
                                   ELSE memReports[id]]
  /\ memSaid' = [id \in Ids |-> IF id \in ids THEN None ELSE memSaid[id]]
  /\ UNCHANGED <<memDeskVars, memClosed>>

MemDelete(ids) == memRemove(ids) /\ memTell({id \in ids : memDocs[id] # None})

(* perms is a function from the ids asked about to descriptors.            *)
memAffected(tenant, perms) ==
  {id \in DOMAIN perms : memDocs[id] # None /\ memDocs[id].tenant = tenant}

memSetAll(tenant, perms) ==
  LET ids == memAffected(tenant, perms)
  IN  /\ ~memClosed
      /\ memDocs' = [id \in Ids |-> IF id \in ids THEN [memDocs[id] EXCEPT !.perms = perms[id]]
                                    ELSE memDocs[id]]
      /\ UNCHANGED <<memContent, memVerified, memOwners, memReports, memSaid,
                     memDeskVars, memClosed>>

MemSetPermissions(tenant, perms) ==
  memSetAll(tenant, perms) /\ memTell(memAffected(tenant, perms))

(* Notify.Changed, after the lock was released: every subscriber is told,  *)
(* and a subscriber reads what it was told about again.                    *)
MemChanged ==
  \E ids \in memPending :
    /\ memPending' = memPending \ {ids}
    /\ memSeen' = [id \in Ids |-> IF id \in ids THEN memDocs[id] ELSE memSeen[id]]
    /\ UNCHANGED <<memDocVars, memDeskVars, memClosed>>

MemClose ==
  /\ ~memClosed
  /\ memClosed' = TRUE
  /\ memDocs' = [id \in Ids |-> None]
  /\ memContent' = [id \in Ids |-> None]
  /\ UNCHANGED <<memVerified, memOwners, memReports, memSaid, memDeskVars, memTellVars>>

---------------------------------------------------------------------------
(* What people say about documents.  A document the caller may not read is *)
(* silently left alone by every one of these.                              *)

MemVerify(p, id, until) ==
  /\ ~memClosed /\ memVisible(p, id)
  /\ memVerified' = [memVerified EXCEPT ![id] = [by |-> p.subject, until |-> until]]
  /\ UNCHANGED <<memDocs, memContent, memOwners, memReports, memSaid, memDeskVars,
                 memTellVars, memClosed>>

MemUnverify(p, id) ==
  /\ ~memClosed /\ memVisible(p, id)
  /\ memVerified' = [memVerified EXCEPT ![id] = None]
  /\ UNCHANGED <<memDocs, memContent, memOwners, memReports, memSaid, memDeskVars,
                 memTellVars, memClosed>>

MemSetOwner(p, id, who) ==
  /\ ~memClosed /\ memVisible(p, id)
  /\ memOwners' = [memOwners EXCEPT ![id] =
                     [owner |-> who,
                      was |-> IF memOwners[id] # None THEN memOwners[id].was
                              ELSE memDocs[id].owner]]
  /\ memDocs' = [memDocs EXCEPT ![id].owner = who]
  /\ UNCHANGED <<memContent, memVerified, memReports, memSaid, memDeskVars, memTellVars,
                 memClosed>>

MemClearOwner(p, id) ==
  /\ ~memClosed /\ memVisible(p, id) /\ memOwners[id] # None
  /\ memOwners' = [memOwners EXCEPT ![id] = None]
  /\ memDocs' = [memDocs EXCEPT ![id].owner = memOwners[id].was]
  /\ UNCHANGED <<memContent, memVerified, memReports, memSaid, memDeskVars, memTellVars,
                 memClosed>>

MemReport(p, id, at) ==
  /\ ~memClosed /\ ReportKey(p) # "" /\ memVisible(p, id)
  /\ memReports' = [memReports EXCEPT ![id][ReportKey(p)] = at]
  /\ UNCHANGED <<memDocs, memContent, memVerified, memOwners, memSaid, memDeskVars,
                 memTellVars, memClosed>>

MemWithdraw(p, id) ==
  /\ ~memClosed /\ ReportKey(p) # "" /\ memVisible(p, id)
  /\ memReports' = [memReports EXCEPT ![id][ReportKey(p)] = 0]
  /\ UNCHANGED <<memDocs, memContent, memVerified, memOwners, memSaid, memDeskVars,
                 memTellVars, memClosed>>

MemResolve(p, id) ==
  /\ ~memClosed /\ memVisible(p, id)
  /\ memReports' = [memReports EXCEPT ![id] = [k \in ReportKeys |-> 0]]
  /\ UNCHANGED <<memDocs, memContent, memVerified, memOwners, memSaid, memDeskVars,
                 memTellVars, memClosed>>

---------------------------------------------------------------------------
(* Curated answers and the feeds of the supervisor.                        *)

(* forget: the phrasings an answer holds are given up.                     *)
memForget(tenant, id) ==
  [x \in DOMAIN memPhrasings |-> IF x[1] = tenant /\ memPhrasings[x] = id THEN None
                                 ELSE memPhrasings[x]]

MemCurate(p, a) ==
  LET claims == {<<p.tenant, a.keys[i]>> : i \in DOMAIN a.keys}
  IN  /\ ~memClosed
      /\ memPhrasings' = [x \in DOMAIN memPhrasings |->
                            IF x \in claims THEN a.id ELSE memForget(p.tenant, a.id)[x]]
      /\ memAnswers' = [memAnswers EXCEPT ![<<p.tenant, a.id>>] = a.keys]
      /\ UNCHANGED <<memDocVars, memFeeds, memTellVars, memClosed>>

MemRetract(p, id) ==
  /\ ~memClosed
  /\ memPhrasings' = memForget(p.tenant, id)
  /\ memAnswers' = [memAnswers EXCEPT ![<<p.tenant, id>>] = <<>>]
  /\ UNCHANGED <<memDocVars, memFeeds, memTellVars, memClosed>>

MemSaveFeed(tenant, now) ==
  /\ ~memClosed
  /\ memFeeds' = [memFeeds EXCEPT ![tenant] =
                    [created |-> IF memFeeds[tenant] = None THEN now
                                 ELSE memFeeds[tenant].created,
                     updated |-> now]]
  /\ UNCHANGED <<memDocVars, memAnswers, memPhrasings, memTellVars, memClosed>>

MemDropFeed(tenant) ==
  /\ ~memClosed
  /\ memFeeds' = [memFeeds EXCEPT ![tenant] = None]
  /\ UNCHANGED <<memDocVars, memAnswers, memPhrasings, memTellVars, memClosed>>

---------------------------------------------------------------------------
(* The reading history: the latest open last, one entry for a document,    *)
(* the oldest dropped past the limit.  Delete leaves it alone.             *)

MemRecordOpen(p, id) ==
  /\ ~memClosed /\ memVisible(p, id)
  /\ LET log == Append(SelectSeq(memOpens[p], LAMBDA x : x # id), id)
         over == IF Len(log) > OpenHistory THEN Len(log) - OpenHistory ELSE 0
     IN  memOpens' = [memOpens EXCEPT ![p] = SubSeq(log, over + 1, Len(log))]

---------------------------------------------------------------------------
(* What the reads answer.                                                  *)

MemGet(p, id) == IF memVisible(p, id) THEN memDocs[id] ELSE None

MemScan(p) == {id \in Ids : memVisible(p, id)}

MemGetContent(p, id) == IF memVisible(p, id) THEN memContent[id] ELSE None

MemVerifications(p) == [id \in {x \in MemScan(p) : memVerified[x] # None} |-> memVerified[id]]

MemCorrections(p) == [id \in {x \in MemScan(p) : memOwners[x] # None} |-> memOwners[id]]

(* gather: how many people reported a document, when last, whether the     *)
(* asker is one of them.                                                   *)
memGather(p, id) ==
  LET said == {k \in ReportKeys : memReports[id][k] # 0}
  IN  [count |-> Cardinality(said),
       last |-> CHOOSE t \in {memReports[id][k] : k \in said} :
                  \A k \in said : memReports[id][k] <= t,
       mine |-> ReportKey(p) \in said]

MemReportsOf(p) ==
  [id \in {x \in MemScan(p) : \E k \in ReportKeys : memReports[x][k] # 0} |-> memGather(p, id)]

(* The documents on somebody's own list: reported, readable by them and    *)
(* owned or written by them.                                               *)
MemReported(p) ==
  LET keys == {PrincipalKeys(p)[i] : i \in DOMAIN PrincipalKeys(p)}
  IN  {id \in DOMAIN MemReportsOf(p) :
         keys \cap (PersonKeys(memDocs[id].owner) \cup PersonKeys(memDocs[id].author)) # {}}

MemCurated(p, phrasing) ==
  LET id == memPhrasings[<<p.tenant, phrasing>>]
  IN  IF id = None \/ memAnswers[<<p.tenant, id>>] = <<>> THEN None ELSE id

MemAnswersOf(p) == {id \in AnswerIds : memAnswers[<<p.tenant, id>>] # <<>>}

(* Statistics and Near count over the tenant, Stats over everything.       *)
memCorpus(tenant) == {id \in Ids : /\ memDocs[id] # None
                                   /\ Queryable(memDocs[id])
                                   /\ memDocs[id].tenant = tenant}

MemStatistics(p, term) == Cardinality({id \in memCorpus(p.tenant) : term \in memDocs[id].terms})

MemStats ==
  [documents |-> Cardinality({id \in Ids : memDocs[id] # None /\ Queryable(memDocs[id])}),
   quarantined |-> Cardinality({id \in Ids : memDocs[id] # None /\ ~Queryable(memDocs[id])})]

MemQuarantined(tenant) == {id \in Ids : /\ memDocs[id] # None
                                        /\ memDocs[id].tenant = tenant
                                        /\ ~Queryable(memDocs[id])}

MemInventory(tenant, source) ==
  {[id |-> id, version |-> memDocs[id].version, held |-> ~Queryable(memDocs[id])] :
     id \in {x \in Ids : memDocs[x] # None /\ memDocs[x].tenant = tenant
                           /\ memDocs[x].source = source}}

MemReachable(p, kind) == Cardinality({id \in MemScan(p) : memDocs[id].kind = kind})

---------------------------------------------------------------------------
(* Correctness.                                                            *)

\* Type invariant of the reference store.
MemTypeOK ==
  /\ \A id \in Ids : memDocs[id] # None => memDocs[id].perms.mode \in Modes
  /\ memReports \in [Ids -> [ReportKeys -> Times \cup {0}]]
  /\ memPhrasings \in [Tenants \X Phrasings -> AnswerIds \cup {None}]
  /\ \A p \in Principals : memOpens[p] \in Seq(Ids)
  /\ memPending \subseteq SUBSET Ids
  /\ memClosed \in BOOLEAN

(* A correction outlives every crawl and can always be undone: while it    *)
(* stands it is the owner the document carries, and what it remembers is   *)
(* the source's latest answer, the one clearing it puts back.              *)
CorrectionStands ==
  ~memClosed =>
    \A id \in Ids : memDocs[id] # None =>
      IF memOwners[id] = None THEN memDocs[id].owner = memSaid[id]
      ELSE /\ memDocs[id].owner = memOwners[id].owner
           /\ memOwners[id].was = memSaid[id]

(* Nothing people said about a document is left once it is gone, so a      *)
(* document that comes back under the same id starts with nothing said.    *)
NothingAboutTheGone ==
  ~memClosed =>
    \A id \in Ids : memDocs[id] = None =>
      /\ memVerified[id] = None /\ memOwners[id] = None
      /\ memContent[id] = None
      /\ \A k \in ReportKeys : memReports[id][k] = 0

(* A phrasing leads to an answer that exists and claims that phrasing,     *)
(* however often answers were rewritten, stole each other's phrasings or   *)
(* were retracted.                                                         *)
PhrasingsAnswer ==
  \A t \in Tenants, k \in Phrasings :
    memPhrasings[<<t, k>>] # None =>
      \E i \in DOMAIN memAnswers[<<t, memPhrasings[<<t, k>>]>>] :
        memAnswers[<<t, memPhrasings[<<t, k>>]>>][i] = k

(* What decides a search: who may read a document and what its words are,  *)
(* not who owns it.                                                        *)
SameToASearch(a, b) ==
  \/ a = b
  \/ a # None /\ b # None /\ [a EXCEPT !.owner = b.owner] = b

(* A subscriber that has been told of everything agrees with the store on  *)
(* all a search depends on, whatever order it was told in (notify.go).     *)
SubscribersCatchUp ==
  ~memClosed /\ memPending = {} => \A id \in Ids : SameToASearch(memSeen[id], memDocs[id])

---------------------------------------------------------------------------
MemDocNext ==
  \/ \E b \in Batches : MemPut(b)
  \/ \E ids \in (SUBSET Ids) \ {{}} : MemDelete(ids)
  \/ \E t \in Tenants, ids \in (SUBSET Ids) \ {{}}, d \in Descriptors :
       MemSetPermissions(t, [id \in ids |-> d])
  \/ MemChanged

MemVerifyNext ==
  \E p \in Callers, id \in Ids :
    \/ \E t \in Times : MemVerify(p, id, t)
    \/ MemUnverify(p, id)

MemOwnNext ==
  \E p \in Callers, id \in Ids :
    \/ \E who \in People : MemSetOwner(p, id, who)
    \/ MemClearOwner(p, id)

MemReportNext ==
  \E p \in Callers, id \in Ids :
    \/ \E t \in Times : MemReport(p, id, t)
    \/ MemWithdraw(p, id)
    \/ MemResolve(p, id)

MemAnswerNext ==
  \E p \in Callers :
    \/ \E a \in Curations : MemCurate(p, a)
    \/ \E id \in AnswerIds : MemRetract(p, id)

MemFeedNext ==
  \E t \in Tenants :
    \/ \E now \in Times : MemSaveFeed(t, now)
    \/ MemDropFeed(t)

MemHistoryNext ==
  /\ \E p \in Callers, id \in Ids : MemRecordOpen(p, id)
  /\ UNCHANGED <<memDocVars, memDeskVars, memTellVars, memClosed>>

(* What every driver does alike.                                           *)
MemSharedNext ==
  \/ MemDocNext \/ MemVerifyNext \/ MemOwnNext \/ MemReportNext
  \/ MemAnswerNext \/ MemFeedNext

MemNext == ((MemSharedNext \/ MemClose) /\ UNCHANGED memOpens) \/ MemHistoryNext

MemSpec == MemInit /\ [][MemNext]_memVars

(* The contract the SQL drivers are held to: everything but the history.   *)
(* MemDataSpec says the same of the data alone, for a driver whose changes *)
(* are reported by whichever server made them.                             *)
memSharedVars == <<memDocVars, memDeskVars, memTellVars, memClosed>>
MemSharedSpec == MemInit /\ [][MemSharedNext]_memSharedVars

MemDataNext ==
  \/ /\ \/ \E b \in Batches : memPutAll(b)
        \/ \E ids \in (SUBSET Ids) \ {{}} : memRemove(ids)
        \/ \E t \in Tenants, ids \in (SUBSET Ids) \ {{}}, d \in Descriptors :
             memSetAll(t, [id \in ids |-> d])
     /\ UNCHANGED memTellVars
  \/ MemVerifyNext \/ MemOwnNext \/ MemReportNext \/ MemAnswerNext \/ MemFeedNext
MemDataSpec == MemInit /\ [][MemDataNext]_memSharedVars
=============================================================================
