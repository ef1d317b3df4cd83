---------------------------- MODULE SqliteStore ----------------------------
(***************************************************************************)
(* The SQLite store (store/sqlitestore): the tables, the transactions that *)
(* keep them in step, and the statements the reads run.                    *)
(*                                                                         *)
(* sqDb is the committed database, a record of tables.  A writing call     *)
(* holds the mutex and one deferred transaction: it reads in a snapshot,   *)
(* and its first write fails when another connection committed since       *)
(* (SQLITE_BUSY_SNAPSHOT); from then on it holds the write lock, so the    *)
(* statements of the calls that take no mutex wait.  sqTx is that call:    *)
(* its working copy of the tables, whether another connection committed    *)
(* before its first write, what is left to do and the ids it touched.      *)
(*                                                                         *)
(* The store implements MemStore: a step of a transaction is invisible and *)
(* its commit is the operation of the reference store.                     *)
(***************************************************************************)
EXTENDS Store, SequencesExt

CONSTANT Requests    \* the searches the reads are compared on

VARIABLES
  sqDb,        \* the committed tables
  sqTx,        \* the call holding the mutex, or None
  sqOpening,   \* calls between the two statements of RecordOpen: <<p, id>>
  sqOwed,      \* principals whose last trim failed
  sqTold,      \* documents changed by the call that is about to report
  sqSeen,      \* what a subscriber read when it was last told
  sqClosed

sqVars == <<sqDb, sqTx, sqOpening, sqOwed, sqTold, sqSeen, sqClosed>>
sqLogVars == <<sqOpening, sqOwed>>

(* The tables an empty database has after every migration has run.         *)
schemaDocuments ==
  [document |-> [id \in Ids |-> None], ref |-> [id \in Ids |-> {}],
   fts |-> [id \in Ids |-> {}], content |-> [id \in Ids |-> None]]

schemaRanking ==
  [data |-> [id \in Ids |-> None], posting |-> [id \in Ids |-> {}],
   corpus |-> [t \in Tenants |-> [documents |-> 0, tokens |-> 0]],
   termStat |-> [x \in Tenants \X Terms |-> 0]]

schemaDesks ==
  [open |-> [p \in Principals |-> [id \in Ids |-> 0]], feed |-> [t \in Tenants |-> None],
   verify |-> [id \in Ids |-> None], own |-> [id \in Ids |-> None]]

schemaSaid ==
  [report |-> [id \in Ids |-> [k \in ReportKeys |-> 0]],
   answer |-> [x \in Tenants \X AnswerIds |-> <<>>],
   phrasing |-> [x \in Tenants \X Phrasings |-> None]]

migrations == schemaDocuments @@ schemaRanking @@ schemaDesks @@ schemaSaid

SqInit ==
  /\ sqDb = migrations
  /\ sqTx = None
  /\ sqOpening = {}
  /\ sqOwed = {}
  /\ sqTold = {}
  /\ sqSeen = [id \in Ids |-> None]
  /\ sqClosed = FALSE

---------------------------------------------------------------------------
(* The permission rule in SQL (query.go).                                  *)

(* refsOf: the reference rows of one descriptor, an empty key left out.    *)
refsOf(perms) ==
  LET rows(effect, scope, refs, Key(_)) ==
        {[effect |-> effect, scope |-> scope, key |-> Key(r)] :
           r \in {x \in refs : Key(x) # <<"">>}}
  IN  rows("allow", "user", perms.allowUsers, UserKey)
        \cup rows("allow", "group", perms.allowGroups, GroupKey)
        \cup rows("deny", "user", perms.denyUsers, UserKey)
        \cup rows("deny", "group", perms.denyGroups, GroupKey)

ownerKeyOf(perms) == IF perms.owner.value = "" THEN <<>> ELSE UserKey(perms.owner)

sqNamed(db, p, id, effect) ==
  \E r \in db.ref[id] : /\ r.effect = effect
                        /\ \/ r.scope = "user" /\ r.key \in UserKeys(p)
                           \/ r.scope = "group" /\ r.key \in GroupKeys(p)

(* visible: the predicate every read joins with.                           *)
sqVisible(db, p, id) ==
  LET d == db.document[id]
  IN  /\ d # None
      /\ d.queryable
      /\ d.tenant = p.tenant
      /\ ~sqNamed(db, p, id, "deny")
      /\ \/ d.ownerKey # <<>> /\ d.ownerKey \in UserKeys(p)
         \/ d.mode = "public"
         \/ d.mode = "acl" /\ sqNamed(db, p, id, "allow")

(* reachable: the rule a second time, as two sets of ids joined once.      *)
sqReachable(db, p) ==
  LET named(effect) ==
        {id \in Ids : \E r \in db.ref[id] :
           r.effect = effect /\ r.scope = "user" /\ r.key \in UserKeys(p)}
          \cup
        {id \in Ids : \E r \in db.ref[id] :
           r.effect = effect /\ r.scope = "group" /\ r.key \in GroupKeys(p)}
  IN  {id \in {x \in Ids : db.document[x] # None} :
         /\ db.document[id].queryable /\ db.document[id].tenant = p.tenant
         /\ id \notin named("deny")
         /\ \/ db.document[id].ownerKey # <<>> /\ db.document[id].ownerKey \in UserKeys(p)
            \/ db.document[id].mode = "public"
            \/ db.document[id].mode = "acl" /\ id \in named("allow")}

(* filters: the request without its terms; no date is NULL.                *)
sqFilters(db, r, id) ==
  LET d == db.document[id]
  IN  /\ r.kinds # {} => d.kind \in r.kinds
      /\ r.owners # {} => d.ownerKeys \cap {Lower[v] : v \in r.owners \ {""}} # {}
      /\ r.since # 0 => d.modified # 0 /\ d.modified >= r.since
      /\ r.until # 0 => d.modified = 0 \/ d.modified <= r.until

(* match: the full text index leads, where the request has a term.         *)
sqMatch(db, r, id) == r.terms # {} => r.terms \cap db.fts[id] # {}

sqMatched(db, p, r) ==
  {id \in Ids : sqVisible(db, p, id) /\ sqFilters(db, r, id) /\ sqMatch(db, r, id)}

---------------------------------------------------------------------------
(* One document at a time, inside a transaction.                           *)

(* retire takes back what the stored row put into the statistics, under    *)
(* the tenant it was stored for, and drops its postings.                   *)
retire(db, id) ==
  LET row == db.document[id]
      gone == IF row # None /\ row.queryable THEN db.posting[id] ELSE {}
  IN  IF row = None THEN db
      ELSE [db EXCEPT
              !.termStat = [x \in DOMAIN db.termStat |->
                              IF x[1] = row.tenant /\ x[2] \in gone
                              THEN db.termStat[x] - 1 ELSE db.termStat[x]],
              !.corpus[row.tenant] =
                 IF row.queryable THEN [documents |-> @.documents - 1,
                                        tokens |-> @.tokens - row.tokens]
                 ELSE @,
              !.posting[id] = {}]

(* index puts a queryable document into the postings and the statistics.   *)
indexInto(db, id, d) ==
  IF ~Queryable(d) THEN db
  ELSE [db EXCEPT
          !.posting[id] = d.terms,
          !.termStat = [x \in DOMAIN db.termStat |->
                          IF x[1] = d.tenant /\ x[2] \in d.terms
                          THEN db.termStat[x] + 1 ELSE db.termStat[x]],
          !.corpus[d.tenant] = [documents |-> @.documents + 1,
                                tokens |-> @.tokens + Cardinality(d.terms)]]

rowOf(d) ==
  [tenant |-> d.tenant, source |-> d.source, kind |-> d.kind,
   authorKeys |-> PersonKeys(d.author), ownerKeys |-> PersonKeys(d.owner),
   modified |-> d.modified, mode |-> d.perms.mode, ownerKey |-> ownerKeyOf(d.perms),
   queryable |-> Queryable(d), version |-> d.version, tokens |-> Cardinality(d.terms)]

(* A None is no row of a document.                                         *)
ASSUME SqAssumption == None \notin {rowOf(d) : d \in Documents}

putOne(db, id, d) ==
  LET retired == retire(db, id)
      stored == [retired EXCEPT
                   !.document[id] = rowOf(d),
                   !.data[id] = [d EXCEPT !.content = None],
                   !.ref[id] = refsOf(d.perms),
                   !.content[id] = d.content,
                   !.fts[id] = IF Queryable(d) THEN d.terms ELSE {}]
  IN  indexInto(stored, id, d)

(* Delete, one id: the document goes and the foreign keys take the rest.   *)
deleteOne(db, id) ==
  LET retired == retire(db, id)
  IN  IF db.document[id] = None THEN db
      ELSE [retired EXCEPT
              !.fts[id] = {}, !.document[id] = None, !.data[id] = None,
              !.ref[id] = {}, !.content[id] = None, !.verify[id] = None,
              !.own[id] = None, !.report[id] = [k \in ReportKeys |-> 0],
              !.open = [p \in Principals |-> [@[p] EXCEPT ![id] = 0]]]

(* setOne rewrites the descriptor; only a document that crosses the        *)
(* quarantine line goes out of, or comes into, the index.                  *)
setOne(db, tenant, id, perms) ==
  LET row == db.document[id]
      d == [db.data[id] EXCEPT !.perms = perms]
      crossing == row.queryable # Queryable(d)
      out == IF crossing THEN [retire(db, id) EXCEPT !.fts[id] = {}] ELSE db
      set == [out EXCEPT !.document[id] = [@ EXCEPT !.mode = perms.mode,
                                                    !.ownerKey = ownerKeyOf(perms),
                                                    !.queryable = Queryable(d)],
                         !.data[id] = d,
                         !.ref[id] = refsOf(perms)]
  IN  IF row = None THEN db
      ELSE IF row.tenant # tenant THEN db
      ELSE IF crossing /\ Queryable(d)
           THEN indexInto([set EXCEPT !.fts[id] = d.terms], id, d)
           ELSE set

(* writeOwner: the corrected person goes into the stored document and into *)
(* the column the owner filter reads.                                      *)
writeOwner(db, id, who) ==
  [db EXCEPT !.data[id].owner = who, !.document[id].ownerKeys = PersonKeys(who)]

\* Mutant of keepOwners: what the source says now is not remembered.
keepOwnersOnly(db, batch) == db

(* keepOwners, before a batch is written: what the source says now is      *)
(* remembered, and the corrected owner is what will be stored.             *)
keepOwners(db, batch) ==
  [db EXCEPT !.own = [id \in Ids |->
     IF db.own[id] = None \/ id \notin Written(batch) THEN db.own[id]
     ELSE [db.own[id] EXCEPT !.was = LastOf(batch, id).owner]]]

---------------------------------------------------------------------------
(* The calls that hold the mutex and a transaction.                        *)

(* Other connections cannot commit while this one has written.             *)
sqWriting == sqTx # None /\ sqTx.wrote

sqBegin(call) ==
  /\ ~sqClosed /\ sqTx = None /\ sqTold = {}
  /\ sqTx' = [call |-> call, db |-> <<>>, wrote |-> FALSE, stale |-> FALSE,
              left |-> call.items, ids |-> {}]
  /\ UNCHANGED <<sqDb, sqLogVars, sqTold, sqSeen, sqClosed>>

SqPut(batch) == sqBegin([op |-> "put", items |-> batch])

SqDelete(ids) == sqBegin([op |-> "delete", items |-> SetToSeq(ids)])

SqSetPermissions(tenant, ids, perms) ==
  sqBegin([op |-> "perms", tenant |-> tenant, perms |-> perms, items |-> SetToSeq(ids)])

SqSetOwner(p, id, who) ==
  sqBegin([op |-> "own", p |-> p, who |-> who, items |-> <<id>>])

SqClearOwner(p, id) == sqBegin([op |-> "disown", p |-> p, items |-> <<id>>])

SqCurate(p, a) == sqBegin([op |-> "curate", p |-> p, items |-> <<a>>])

SqRetract(p, id) == sqBegin([op |-> "retract", p |-> p, items |-> <<id>>])

(* What one item of the call does to the working copy.                     *)
sqApply(db, call, item) ==
  CASE call.op = "put" ->
         LET owned == IF sqWriting THEN db ELSE keepOwners(db, call.items)
             d == IF owned.own[item.id] = None THEN item.doc
                  ELSE [item.doc EXCEPT !.owner = owned.own[item.id].owner]
         IN  putOne(owned, item.id, d)
    [] call.op = "delete" -> deleteOne(db, item)
    [] call.op = "perms" -> setOne(db, call.tenant, item, call.perms)
    [] call.op = "own" ->
         IF ~sqVisible(db, call.p, item) THEN db
         ELSE writeOwner([db EXCEPT !.own[item] =
                [owner |-> call.who,
                 was |-> IF db.own[item] = None THEN db.data[item].owner
                         ELSE db.own[item].was]], item, call.who)
    [] call.op = "disown" ->
         IF db.own[item] = None \/ ~sqVisible(db, call.p, item) THEN db
         ELSE writeOwner([db EXCEPT !.own[item] = None], item, db.own[item].was)
    [] call.op = "curate" ->
         LET dropped == [x \in DOMAIN db.phrasing |->
                           IF x[1] = call.p.tenant /\ db.phrasing[x] = item.id THEN None
                           ELSE db.phrasing[x]]
         IN  [db EXCEPT !.answer[<<call.p.tenant, item.id>>] = item.keys,
                        !.phrasing = [x \in DOMAIN dropped |->
                           IF x[1] = call.p.tenant /\ x[2] \in ToSet(item.keys) THEN item.id
                           ELSE dropped[x]]]
    [] call.op = "retract" ->
         [db EXCEPT !.answer[<<call.p.tenant, item>>] = <<>>,
                    !.phrasing = [x \in DOMAIN db.phrasing |->
                       IF x[1] = call.p.tenant /\ db.phrasing[x] = item THEN None
                       ELSE db.phrasing[x]]]

(* The ids the call will report: a document it wrote, or removed and had.  *)
sqReports(db, call, item) ==
  CASE call.op = "put" -> {item.id}
    [] call.op = "delete" -> IF db.document[item] = None THEN {} ELSE {item}
    [] call.op = "perms" -> {id \in {item} : db.document[id] # None
                                             /\ db.document[id].tenant = call.tenant}
    [] OTHER -> {}

(* One item.  The first write of the transaction needs the snapshot it     *)
(* read to be the latest, and from then on there is a working copy.        *)
SqStep ==
  /\ sqTx # None /\ sqTx.left # <<>> /\ ~sqTx.stale
  /\ LET db == IF sqWriting THEN sqTx.db ELSE sqDb
     IN  sqTx' = [sqTx EXCEPT !.db = sqApply(db, sqTx.call, Head(sqTx.left)), !.wrote = TRUE,
                              !.ids = @ \cup sqReports(db, sqTx.call, Head(sqTx.left)),
                              !.left = Tail(@)]
  /\ UNCHANGED <<sqDb, sqLogVars, sqTold, sqSeen, sqClosed>>

SqCommit ==
  /\ sqTx # None /\ sqTx.left = <<>>
  /\ sqDb' = sqTx.db
  /\ sqTold' = sqTx.ids
  /\ sqTx' = None
  /\ UNCHANGED <<sqLogVars, sqSeen, sqClosed>>

(* An error, a cancelled context, a snapshot that is no longer the latest, *)
(* or the process ending: the transaction is rolled back.                  *)
SqRollback ==
  /\ sqTx # None
  /\ sqTx' = None
  /\ UNCHANGED <<sqDb, sqLogVars, sqTold, sqSeen, sqClosed>>

(* Notify.Changes, called before the deferred unlock.                      *)
SqChanges ==
  /\ sqTold # {}
  /\ sqTold' = {}
  /\ sqSeen' = [id \in Ids |-> IF id \in sqTold THEN sqDb.data[id] ELSE sqSeen[id]]
  /\ UNCHANGED <<sqDb, sqTx, sqLogVars, sqClosed>>

---------------------------------------------------------------------------
(* The calls that are one statement and take no mutex.                     *)

sqStatement(db) ==
  /\ ~sqClosed /\ ~sqWriting
  /\ sqDb' = db
  /\ sqTx' = IF sqTx # None THEN [sqTx EXCEPT !.stale = (db # sqDb) \/ @] ELSE sqTx
  /\ UNCHANGED <<sqTold, sqSeen, sqClosed>>

SqVerify(p, id, until) ==
  /\ sqVisible(sqDb, p, id)
  /\ sqStatement([sqDb EXCEPT !.verify[id] = [by |-> p.subject, until |-> until]])
  /\ UNCHANGED sqLogVars

SqUnverify(p, id) ==
  /\ sqVisible(sqDb, p, id)
  /\ sqStatement([sqDb EXCEPT !.verify[id] = None])
  /\ UNCHANGED sqLogVars

SqReport(p, id, at) ==
  /\ ReportKey(p) # "" /\ sqVisible(sqDb, p, id)
  /\ sqStatement([sqDb EXCEPT !.report[id][ReportKey(p)] = at])
  /\ UNCHANGED sqLogVars

SqWithdraw(p, id) ==
  /\ ReportKey(p) # "" /\ sqVisible(sqDb, p, id)
  /\ sqStatement([sqDb EXCEPT !.report[id][ReportKey(p)] = 0])
  /\ UNCHANGED sqLogVars

SqResolve(p, id) ==
  /\ sqVisible(sqDb, p, id)
  /\ sqStatement([sqDb EXCEPT !.report[id] = [k \in ReportKeys |-> 0]])
  /\ UNCHANGED sqLogVars

(* SaveFeed keeps the date a feed was first created.                       *)
SqSaveFeed(tenant, now) ==
  /\ sqStatement([sqDb EXCEPT !.feed[tenant] =
        [created |-> IF @ = None THEN now ELSE @.created, updated |-> now]])
  /\ UNCHANGED sqLogVars

SqDropFeed(tenant) ==
  /\ sqStatement([sqDb EXCEPT !.feed[tenant] = None])
  /\ UNCHANGED sqLogVars

(* RecordOpen is two statements: the insert, then the trim, which drops    *)
(* what is older than the oldest of the newest OpenHistory.                *)
SqRecordOpen(p, id, at) ==
  /\ <<p, id>> \notin sqOpening
  /\ sqStatement(IF sqVisible(sqDb, p, id) THEN [sqDb EXCEPT !.open[p][id] = at] ELSE sqDb)
  /\ sqOpening' = sqOpening \cup {<<p, id>>}
  /\ UNCHANGED sqOwed

sqTrimmed(log) ==
  LET held == {id \in Ids : log[id] # 0}
      newest == {id \in held : Cardinality({x \in held : log[x] > log[id]}) < OpenHistory}
      oldest == CHOOSE t \in {log[id] : id \in newest} : \A id \in newest : log[id] >= t
  IN  [id \in Ids |-> IF id \in held /\ log[id] < oldest THEN 0 ELSE log[id]]

SqTrimOpens(p, id) ==
  /\ <<p, id>> \in sqOpening
  /\ sqStatement(IF \A x \in Ids : sqDb.open[p][x] = 0 THEN sqDb
                 ELSE [sqDb EXCEPT !.open[p] = sqTrimmed(@)])
  /\ sqOpening' = sqOpening \ {<<p, id>>}
  /\ sqOwed' = sqOwed \ {p}

(* The second statement fails: the open is kept and the trim is owed.      *)
SqTrimFails(p, id) ==
  /\ <<p, id>> \in sqOpening
  /\ sqOpening' = sqOpening \ {<<p, id>>}
  /\ sqOwed' = sqOwed \cup {p}
  /\ UNCHANGED <<sqDb, sqTx, sqTold, sqSeen, sqClosed>>

(* Close turns new calls away; a call that already began runs to its end.  *)
SqClose ==
  /\ ~sqClosed
  /\ sqClosed' = TRUE
  /\ UNCHANGED <<sqDb, sqTx, sqLogVars, sqTold, sqSeen>>

---------------------------------------------------------------------------
(* What the reads answer.                                                  *)

SqGet(p, id) == IF sqVisible(sqDb, p, id) THEN sqDb.data[id] ELSE None

SqScan(p) == {id \in Ids : sqVisible(sqDb, p, id)}

SqContent(p, id) == IF sqVisible(sqDb, p, id) THEN sqDb.content[id] ELSE None

SqRetrieve(p, r) == sqMatched(sqDb, p, r)

(* Rank's four statements: the pool of candidates, their frequencies, the  *)
(* total and the facet counts, a ticked field counted with its own         *)
(* constraint lifted.                                                      *)
SqFrequency(id, term) == term \in sqDb.posting[id]

SqTotal(p, r) == Cardinality(sqMatched(sqDb, p, r))

SqCounts(p, r, kind) ==
  LET over == IF r.kinds # {} THEN Without(r, "kind") ELSE r
      lifted == Cardinality({id \in sqMatched(sqDb, p, over) : sqDb.document[id].kind = kind})
      ticked == Cardinality({id \in sqMatched(sqDb, p, r) : sqDb.document[id].kind = kind})
  IN  IF r.kinds # {} /\ ticked > 0 THEN ticked ELSE lifted

SqStatistics(p, term) == sqDb.termStat[<<p.tenant, term>>]

SqCorpus(p) == sqDb.corpus[p.tenant]

SqStats ==
  [documents |-> Cardinality({id \in Ids : sqDb.document[id] # None /\ sqDb.document[id].queryable}),
   quarantined |-> Cardinality({id \in Ids : sqDb.document[id] # None /\ ~sqDb.document[id].queryable})]

SqReachable(p, kind) == Cardinality({id \in sqReachable(sqDb, p) : sqDb.document[id].kind = kind})

SqQuarantined(tenant) == {id \in Ids : /\ sqDb.document[id] # None
                                       /\ sqDb.document[id].tenant = tenant
                                       /\ ~sqDb.document[id].queryable}

SqInventory(tenant, source) ==
  {[id |-> id, version |-> sqDb.document[id].version, held |-> ~sqDb.document[id].queryable] :
     id \in {x \in Ids : sqDb.document[x] # None /\ sqDb.document[x].tenant = tenant
                           /\ sqDb.document[x].source = source}}

SqVerifications(p) == [id \in {x \in SqScan(p) : sqDb.verify[x] # None} |-> sqDb.verify[id]]

SqCorrections(p) == [id \in {x \in SqScan(p) : sqDb.own[x] # None} |-> sqDb.own[id]]

SqReports(p) ==
  LET said(id) == {k \in ReportKeys : sqDb.report[id][k] # 0}
  IN  [id \in {x \in SqScan(p) : said(x) # {}} |->
         [count |-> Cardinality(said(id)),
          last |-> CHOOSE t \in {sqDb.report[id][k] : k \in said(id)} :
                     \A k \in said(id) : sqDb.report[id][k] <= t,
          mine |-> ReportKey(p) \in said(id)]]

SqReported(p) ==
  LET keys == ToSet(PrincipalKeys(p))
  IN  {id \in DOMAIN SqReports(p) :
         keys \cap (sqDb.document[id].ownerKeys \cup sqDb.document[id].authorKeys) # {}}

SqCurated(p, phrasing) == sqDb.phrasing[<<p.tenant, phrasing>>]

SqAnswers(p) == {id \in AnswerIds : sqDb.answer[<<p.tenant, id>>] # <<>>}

---------------------------------------------------------------------------
SqDocNext ==
  \/ \E b \in Batches : SqPut(b)
  \/ \E ids \in (SUBSET Ids) \ {{}} : SqDelete(ids)
  \/ \E t \in Tenants, ids \in (SUBSET Ids) \ {{}}, d \in Descriptors :
       SqSetPermissions(t, ids, d)
  \/ SqStep
  \/ SqCommit
  \/ SqRollback
  \/ SqChanges

SqVerifyNext ==
  \E p \in Callers, id \in Ids :
    \/ \E t \in Times : SqVerify(p, id, t)
    \/ SqUnverify(p, id)

SqOwnNext ==
  \E p \in Callers, id \in Ids :
    \/ \E who \in People : SqSetOwner(p, id, who)
    \/ SqClearOwner(p, id)

SqReportNext ==
  \E p \in Callers, id \in Ids :
    \/ \E t \in Times : SqReport(p, id, t)
    \/ SqWithdraw(p, id)
    \/ SqResolve(p, id)

SqAnswerNext ==
  \E p \in Callers :
    \/ \E a \in Curations : SqCurate(p, a)
    \/ \E id \in AnswerIds : SqRetract(p, id)

SqFeedNext ==
  \E t \in Tenants :
    \/ \E now \in Times : SqSaveFeed(t, now)
    \/ SqDropFeed(t)

SqHistoryNext ==
  \E p \in Callers, id \in Ids :
    \/ \E t \in Times : SqRecordOpen(p, id, t)
    \/ SqTrimOpens(p, id)
    \/ SqTrimFails(p, id)

SqNext ==
  \/ SqDocNext \/ SqVerifyNext \/ SqOwnNext \/ SqReportNext
  \/ SqAnswerNext \/ SqFeedNext \/ SqHistoryNext \/ SqClose

SqSpec == SqInit /\ [][SqNext]_sqVars

---------------------------------------------------------------------------
(* Correctness.                                                            *)

(* The store as the reference store: the tables a reader decodes.          *)
Ref == INSTANCE MemStore WITH
  memDocs <- sqDb.data, memContent <- sqDb.content, memVerified <- sqDb.verify,
  memOwners <- sqDb.own, memReports <- sqDb.report, memAnswers <- sqDb.answer,
  memPhrasings <- sqDb.phrasing, memFeeds <- sqDb.feed,
  memOpens <- [p \in Principals |-> <<>>], memClosed <- FALSE,
  memPending <- {sqTold} \ {{}}, memSeen <- sqSeen,
  memSaid <- [id \in Ids |-> IF sqDb.data[id] = None THEN None
                             ELSE IF sqDb.own[id] = None THEN sqDb.data[id].owner
                             ELSE sqDb.own[id].was]

\* Type invariant: a document has its row exactly when it has its data, and a
\* writing call knows whether another connection committed before it wrote.
SqTypeOK ==
  /\ \A id \in Ids : (sqDb.document[id] = None) = (sqDb.data[id] = None)
  /\ sqTx = None \/ sqTx.stale \in BOOLEAN
  /\ sqOpening \subseteq (Principals \X Ids)
  /\ sqTold \subseteq Ids

(* Every operation of this driver is the operation of the reference store: *)
(* a transaction is all there or not there at all, whatever commits        *)
(* between its statements.                                                 *)
SqImplementsMem == Ref!MemSharedSpec

(* The numbers the scorer reads are what counting the stored documents     *)
(* would give: no sequence of rewrites, moves between tenants, quarantines *)
(* and deletes makes the postings, the full text index, the term counts or *)
(* the corpus size drift.                                                  *)
StatisticsTrue ==
  LET counted(t) == {id \in Ids : sqDb.data[id] # None /\ Queryable(sqDb.data[id])
                                   /\ sqDb.data[id].tenant = t}
  IN  /\ \A id \in Ids :
           LET words == IF sqDb.data[id] # None /\ Queryable(sqDb.data[id])
                        THEN sqDb.data[id].terms ELSE {}
           IN  sqDb.posting[id] = words /\ sqDb.fts[id] = words
      /\ \A t \in Tenants :
           /\ sqDb.corpus[t].documents = Cardinality(counted(t))
           /\ \A w \in Terms : sqDb.termStat[<<t, w>>] =
                Cardinality({id \in counted(t) : w \in sqDb.data[id].terms})

(* Every read gives the answer the reference store would give: the         *)
(* predicate in SQL, its second form for counting, the filters over        *)
(* columns and the counts agree with the rule over decoded documents.      *)
SqReadsAgree ==
  LET kinds == {sqDb.data[id].kind : id \in {x \in Ids : sqDb.data[x] # None}}
  IN \A p \in Principals :
    /\ SqScan(p) = Ref!MemScan(p)
    /\ \A id \in Ids : /\ SqGet(p, id) = Ref!MemGet(p, id)
                       /\ SqContent(p, id) = Ref!MemGetContent(p, id)
                       /\ \A w \in Terms : id \in SqScan(p) =>
                            SqFrequency(id, w) = (w \in sqDb.data[id].terms)
    /\ \A r \in Requests :
         /\ SqRetrieve(p, r) = {id \in Ref!MemScan(p) : Matches(r, sqDb.data[id])}
         /\ SqTotal(p, r) = Cardinality(SqRetrieve(p, r))
         /\ \A k \in kinds :
              SqCounts(p, r, k) = Cardinality({id \in SqScan(p) :
                 /\ Matches(Without(r, "kind"), sqDb.data[id])
                 /\ sqDb.data[id].kind = k})
    /\ \A w \in Terms : SqStatistics(p, w) = Ref!MemStatistics(p, w)
    /\ SqCorpus(p).documents = Cardinality(Ref!memCorpus(p.tenant))
    /\ \A k \in kinds :
         SqReachable(p, k) = Ref!MemReachable(p, k)
    /\ SqVerifications(p) = Ref!MemVerifications(p)
    /\ SqCorrections(p) = Ref!MemCorrections(p)
    /\ SqReports(p) = Ref!MemReportsOf(p) /\ SqReported(p) = Ref!MemReported(p)
    /\ \A k \in Phrasings : SqCurated(p, k) = Ref!MemCurated(p, k)
    /\ SqAnswers(p) = Ref!MemAnswersOf(p)
    /\ SqQuarantined(p.tenant) = Ref!MemQuarantined(p.tenant)
    /\ \A id \in {x \in Ids : sqDb.data[x] # None} :
         SqInventory(p.tenant, sqDb.data[id].source) = Ref!MemInventory(p.tenant, sqDb.data[id].source)
    /\ SqStats = Ref!MemStats

(* With no call between its two statements and no trim that failed, nobody *)
(* has more than OpenHistory opens, instants shared by several set aside.  *)
SqHistoryBounded ==
  \A p \in Principals : (p \notin sqOwed /\ \A id \in Ids : <<p, id>> \notin sqOpening) =>
    \A id \in Ids : sqDb.open[p][id] # 0 =>
      Cardinality({x \in Ids : sqDb.open[p][x] > sqDb.open[p][id]}) < OpenHistory
=============================================================================
