------------------------------ MODULE PgStore ------------------------------
(***************************************************************************)
(* The PostgreSQL store (store/pgstore): one database, several servers.    *)
(*                                                                         *)
(* A writing call is a transaction that takes the advisory write lock,     *)
(* reads what the batch replaces, writes the whole batch in aggregate      *)
(* statements and commits; a connection that breaks makes the call run     *)
(* again, up to Attempts times, also when the commit had happened and only *)
(* its acknowledgement was lost.  The other calls are one statement.  The  *)
(* tables only the lock protects change in no other way, so what the batch *)
(* does is one step at its commit, from what was read when the lock was    *)
(* taken.                                                                  *)
(***************************************************************************)
EXTENDS Store, SequencesExt

CONSTANTS
  Servers,       \* the processes sharing the database
  Attempts,      \* how often a call is tried
  LostAckOps,    \* the calls whose acknowledged commit may be lost
  Searches,      \* the searches the reads are compared on
  Builds,        \* server -> number of migrations its build carries
  Irreversible   \* migrations that ship no way back

VARIABLES
  pgDb,          \* the committed tables
  pgCall,        \* server -> the writing call it is in, idle for none
  pgLock,        \* the server holding the write lock, or None
  pgOwed,        \* server -> changed documents its subscribers must be told of
  pgOpening,     \* calls between the two statements of RecordOpen: <<p, id>>
  pgOver,        \* principals whose last trim failed
  pgStream,      \* the streaming read in progress, or None
  pgSchema,      \* the migrations applied, in order
  pgMigrating,   \* server -> the versions it read under the schema lock, or None
  pgClosed       \* servers that closed their pool

pgVars == <<pgDb, pgCall, pgLock, pgOwed, pgOpening, pgOver, pgStream, pgSchema,
            pgMigrating, pgClosed>>
pgLogVars == <<pgOpening, pgOver>>
pgCallVars == <<pgCall, pgLock, pgOwed>>
pgSchemaVars == <<pgSchema, pgMigrating>>

(* The tables an empty database has after every migration has run.         *)
pgDocuments ==
  [document |-> [id \in Ids |-> None], data |-> [id \in Ids |-> None],
   ref |-> [id \in Ids |-> {}], content |-> [id \in Ids |-> None],
   posting |-> [id \in Ids |-> {}],
   corpus |-> [t \in Tenants |-> [documents |-> 0, tokens |-> 0]],
   termStat |-> [x \in Tenants \X Terms |-> 0]]
pgOpens == [p \in Principals |-> [id \in Ids |-> 0]]
pgFeeds == [t \in Tenants |-> None]
pgVerified == [id \in Ids |-> None]
pgOwners == [id \in Ids |-> None]
pgSaid == [id \in Ids |-> [k \in ReportKeys |-> 0]]
pgAnswers == [x \in Tenants \X AnswerIds |-> <<>>]
pgPhrasings == [x \in Tenants \X Phrasings |-> None]

(* Beside the documents: what people did and said.                         *)
pgPeople ==
  [open |-> pgOpens, feed |-> pgFeeds, verify |-> pgVerified, own |-> pgOwners,
   report |-> pgSaid, answer |-> pgAnswers, phrasing |-> pgPhrasings]

pgIdle == [call |-> None, at |-> "idle", tries |-> 0, priors |-> None, ids |-> {}]

PgInit ==
  /\ pgDb = [t \in DOMAIN pgDocuments \cup DOMAIN pgPeople |->
              IF t \in DOMAIN pgDocuments THEN pgDocuments[t] ELSE pgPeople[t]]
  /\ pgCall = [s \in Servers |-> pgIdle]
  /\ pgLock = None
  /\ pgOwed = [s \in Servers |-> {}]
  /\ pgOpening = {}
  /\ pgOver = {}
  /\ pgStream = None
  /\ pgSchema = <<>>
  /\ pgMigrating = [s \in Servers |-> None]
  /\ pgClosed = {}

---------------------------------------------------------------------------
(* The permission rule and the filters in SQL (query.go).                  *)

pgRefsOf(perms) ==
  UNION {{[effect |-> e, scope |-> "user", key |-> UserKey(r)] :
            r \in {x \in (IF e = "allow" THEN perms.allowUsers ELSE perms.denyUsers) :
                     UserKey(x) # <<"">>}}
           \cup
         {[effect |-> e, scope |-> "group", key |-> GroupKey(r)] :
            r \in {x \in (IF e = "allow" THEN perms.allowGroups ELSE perms.denyGroups) :
                     GroupKey(x) # <<"">>}} : e \in {"allow", "deny"}}

pgVisible(db, p, id) ==
  LET d == db.document[id]
      keys == [user |-> UserKeys(p), group |-> GroupKeys(p)]
      named(effect) == \E r \in db.ref[id] : r.effect = effect /\ r.key \in keys[r.scope]
  IN  /\ d # None
      /\ d.queryable /\ d.tenant = p.tenant
      /\ ~named("deny")
      /\ \/ d.ownerKey # <<>> /\ d.ownerKey \in keys.user
         \/ d.mode = "public"
         \/ d.mode = "acl" /\ named("allow")

\* Mutant of pgFilters: a document with no date compares as NULL.
pgFiltersNull(db, r, id) ==
  LET d == db.document[id]
  IN  /\ r.kinds # {} => d.kind \in r.kinds
      /\ r.owners # {} => d.ownerKeys \cap {Lower[v] : v \in r.owners} # {}
      /\ r.since # 0 => d.modified # 0 /\ d.modified >= r.since
      /\ r.until # 0 => d.modified # 0 /\ d.modified <= r.until

(* filters: arrays of keys overlap; a document with no date is NULL.       *)
pgFilters(db, r, id) ==
  LET d == db.document[id]
  IN  /\ r.kinds # {} => d.kind \in r.kinds
      /\ r.owners # {} => d.ownerKeys \cap {Lower[v] : v \in r.owners} # {}
      /\ r.since # 0 => d.modified # 0 /\ d.modified >= r.since
      /\ r.until # 0 => d.modified = 0 \/ d.modified <= r.until

(* tsquery leaves the full text column out when there is no term.          *)
pgQuery(db, p, r) ==
  {id \in Ids : /\ pgVisible(db, p, id)
                /\ pgFilters(db, r, id)
                /\ r.terms # {} => r.terms \cap db.document[id].terms # {}}

---------------------------------------------------------------------------
(* The bulk statements (write.go, maintain.go, own.go).                    *)

(* readPriors, readStored and the row of SetOwner: the tables as the call  *)
(* reads them, once, after it has the lock.                                *)
pgRead(db) == [document |-> db.document, data |-> db.data, own |-> db.own, ref |-> db.ref]

pgAdd(db, t, ids, sign, tokens) ==
  [db EXCEPT
     !.termStat = [x \in DOMAIN @ |->
        IF x[1] = t THEN @[x] + sign * Cardinality({id \in ids : x[2] \in db.posting[id]})
        ELSE @[x]],
     !.corpus[t] = [documents |-> @.documents + sign * Cardinality(ids),
                    tokens |-> @.tokens + sign * tokens]]

(* retire: what the stored versions counted is taken back per tenant, then *)
(* their postings go.                                                      *)
pgRetire(db, priors, ids) ==
  LET counted(t) == {id \in ids : priors[id] # None /\ priors[id].queryable
                                    /\ priors[id].tenant = t}
      less == [t \in Tenants |->
                 pgAdd(db, t, counted(t), -1, SumFunction([id \in counted(t) |-> priors[id].tokens]))]
  IN  [db EXCEPT !.termStat = [x \in DOMAIN @ |-> less[x[1]].termStat[x]],
                 !.corpus = [t \in Tenants |-> less[t].corpus[t]],
                 !.posting = [id \in Ids |-> IF id \in ids THEN {} ELSE @[id]]]

(* The postings of the documents a call put in, and the counts read back   *)
(* out of them.                                                            *)
pgIndex(db, docs) ==
  LET back == {id \in DOMAIN docs : Queryable(docs[id])}
      in == [db EXCEPT !.posting = [id \in Ids |-> IF id \in back THEN docs[id].terms
                                                   ELSE @[id]]]
      of(t) == {id \in back : docs[id].tenant = t}
      more == [t \in Tenants |->
                 pgAdd(in, t, of(t), 1, SumFunction([id \in of(t) |-> Cardinality(docs[id].terms)]))]
  IN  [in EXCEPT !.termStat = [x \in DOMAIN @ |-> more[x[1]].termStat[x]],
                 !.corpus = [t \in Tenants |-> more[t].corpus[t]]]

pgRow(d) ==
  [tenant |-> d.tenant, source |-> d.source, kind |-> d.kind,
   authorKeys |-> PersonKeys(d.author), ownerKeys |-> PersonKeys(d.owner),
   modified |-> d.modified, mode |-> d.perms.mode,
   ownerKey |-> IF d.perms.owner.value = "" THEN <<>> ELSE UserKey(d.perms.owner),
   queryable |-> Queryable(d), version |-> d.version, tokens |-> Cardinality(d.terms),
   terms |-> IF Queryable(d) THEN d.terms ELSE {}]

(* A None is no row of a document and no server.                           *)
ASSUME PgAssumption == None \notin {pgRow(d) : d \in Documents} /\ None \notin Servers

(* keepOwners: the documents of a batch with the corrected owners.         *)
pgKept(priors, docs) ==
  [id \in DOMAIN docs |-> IF priors.own[id] # None
                          THEN [docs[id] EXCEPT !.owner = priors.own[id].owner]
                          ELSE docs[id]]

(* replace: the rows of the batch, and what the source says now of the     *)
(* owners that were corrected.                                             *)
pgReplace(db, priors, docs) ==
  LET ids == DOMAIN docs
      kept == pgKept(priors, docs)
  IN  [db EXCEPT
         !.own = [id \in Ids |-> IF id \in ids /\ priors.own[id] # None
                                 THEN [@[id] EXCEPT !.was = docs[id].owner] ELSE @[id]],
         !.document = [id \in Ids |-> IF id \in ids THEN pgRow(kept[id]) ELSE @[id]],
         !.data = [id \in Ids |-> IF id \in ids THEN [kept[id] EXCEPT !.content = None]
                                  ELSE @[id]],
         !.ref = [id \in Ids |-> IF id \in ids THEN pgRefsOf(docs[id].perms) ELSE @[id]],
         !.content = [id \in Ids |-> IF id \in ids THEN docs[id].content ELSE @[id]]]

(* write: keepOwners, retire, replace, the postings, the statistics.       *)
pgWrite(db, priors, docs) ==
  pgIndex(pgReplace(pgRetire(db, priors.document, DOMAIN docs), priors, docs),
          pgKept(priors, docs))

(* remove: the ones that were there; the foreign keys cascade.             *)
pgFound(priors, ids) == {id \in ids : priors.document[id] # None}

pgDrop(db, found) ==
  LET gone(table, empty) == [id \in Ids |-> IF id \in found THEN empty ELSE table[id]]
  IN  [db EXCEPT !.document = gone(@, None), !.data = gone(@, None), !.ref = gone(@, {}),
                 !.content = gone(@, None), !.verify = gone(@, None), !.own = gone(@, None),
                 !.report = gone(@, [k \in ReportKeys |-> 0]),
                 !.open = [p \in Principals |-> gone(@[p], 0)]]

pgRemove(db, priors, ids) ==
  pgDrop(pgRetire(db, priors.document, pgFound(priors, ids)), pgFound(priors, ids))

(* setPermissions: the documents of the tenant get the descriptor, and     *)
(* those that cross the quarantine line leave, or come back into, the      *)
(* index.                                                                  *)
pgSettable(priors, tenant, ids) ==
  {id \in pgFound(priors, ids) : priors.document[id].tenant = tenant}

pgFlipped(priors, stored) ==
  {id \in DOMAIN stored : priors.document[id].queryable # Queryable(stored[id])}

pgDescribed(row, d, flipped) ==
  [row EXCEPT !.mode = d.perms.mode, !.ownerKey = pgRow(d).ownerKey, !.queryable = Queryable(d),
              !.terms = IF flipped THEN pgRow(d).terms ELSE @]

pgDescribe(db, priors, stored) ==
  [db EXCEPT
     !.document = [id \in Ids |-> IF id \in DOMAIN stored
                                  THEN pgDescribed(@[id], stored[id], id \in pgFlipped(priors, stored))
                                  ELSE @[id]],
     !.data = [id \in Ids |-> IF id \in DOMAIN stored THEN stored[id] ELSE @[id]],
     !.ref = [id \in Ids |-> IF id \in DOMAIN stored THEN pgRefsOf(stored[id].perms) ELSE @[id]]]

pgSetPermissions(db, priors, tenant, ids, perms) ==
  LET stored == [id \in pgSettable(priors, tenant, ids) |->
                   [priors.data[id] EXCEPT !.perms = perms]]
      flipped == pgFlipped(priors, stored)
  IN  pgIndex(pgDescribe(pgRetire(db, priors.document, flipped), priors, stored),
              [id \in flipped |-> stored[id]])

(* writeOwner: the stored document and the column the filter reads.        *)
pgWriteOwner(db, id, d, who) ==
  [db EXCEPT !.data[id] = [d EXCEPT !.owner = who], !.document[id].ownerKeys = PersonKeys(who)]

\* Mutant of pgSetOwner: what the source said is read from the document.
pgSetOwnerFromDocument(db, priors, p, id, who) ==
  IF ~pgVisible(priors, p, id) THEN db
  ELSE pgWriteOwner([db EXCEPT !.own[id] = [owner |-> who, was |-> priors.data[id].owner]],
                    id, priors.data[id], who)

pgSetOwner(db, priors, p, id, who) ==
  IF ~pgVisible(priors, p, id) THEN db
  ELSE pgWriteOwner([db EXCEPT !.own[id] =
         [owner |-> who, was |-> IF priors.own[id] = None THEN priors.data[id].owner
                                 ELSE priors.own[id].was]], id, priors.data[id], who)

pgClearOwner(db, priors, p, id) ==
  IF priors.own[id] = None \/ ~pgVisible(priors, p, id) THEN db
  ELSE pgWriteOwner([db EXCEPT !.own[id] = None], id, priors.data[id], priors.own[id].was)

(* Curate and Retract: the phrasings the answer held go, then come the     *)
(* ones it claims, taken from whoever had them.                            *)
pgUnphrased(db, t, a) ==
  [x \in DOMAIN db.phrasing |-> IF x[1] = t /\ db.phrasing[x] = a THEN None ELSE db.phrasing[x]]

pgCurate(db, t, a) ==
  [db EXCEPT !.answer[<<t, a.id>>] = a.keys,
             !.phrasing = [x \in DOMAIN @ |-> IF x[1] = t /\ x[2] \in ToSet(a.keys) THEN a.id
                                              ELSE pgUnphrased(db, t, a.id)[x]]]

pgRetract(db, t, a) ==
  [db EXCEPT !.phrasing = pgUnphrased(db, t, a), !.answer[<<t, a>>] = <<>>]

pgApply(db, c, priors) ==
  CASE c.op = "put" -> pgWrite(db, priors, [id \in Written(c.batch) |-> LastOf(c.batch, id)])
    [] c.op = "delete" -> pgRemove(db, priors, c.ids)
    [] c.op = "perms" -> pgSetPermissions(db, priors, c.tenant, c.ids, c.perms)
    [] c.op = "own" -> pgSetOwner(db, priors, c.p, c.id, c.who)
    [] c.op = "disown" -> pgClearOwner(db, priors, c.p, c.id)
    [] c.op = "curate" -> pgCurate(db, c.tenant, c.answer)
    [] c.op = "retract" -> pgRetract(db, c.tenant, c.id)

\* Mutant of pgReports: a batch reports only the documents that are new.
pgReportsNew(c, priors) ==
  CASE c.op = "put" -> Written(c.batch) \ pgFound(priors, Written(c.batch))
    [] c.op = "delete" -> pgFound(priors, c.ids)
    [] c.op = "perms" -> pgSettable(priors, c.tenant, c.ids)
    [] OTHER -> {}

(* What the attempt that succeeds reports to the server's subscribers.     *)
pgReports(c, priors) ==
  CASE c.op = "put" -> Written(c.batch)
    [] c.op = "delete" -> pgFound(priors, c.ids)
    [] c.op = "perms" -> pgSettable(priors, c.tenant, c.ids)
    [] OTHER -> {}

---------------------------------------------------------------------------
(* retry and transact.                                                     *)

PgBegin(s, call) ==
  /\ s \notin pgClosed /\ pgCall[s].at = "idle"
  /\ pgCall' = [pgCall EXCEPT ![s] = [call |-> call, at |-> "begin", tries |-> 1,
                                      priors |-> None, ids |-> {}]]
  /\ UNCHANGED <<pgDb, pgLock, pgOwed, pgLogVars, pgStream, pgSchemaVars, pgClosed>>

\* Mutant of PgLockWrites: the lock is per server.
PgLockWritesAlone(s) ==
  /\ pgCall[s].at = "begin"
  /\ pgCall' = [pgCall EXCEPT ![s].at = "work", ![s].priors = pgRead(pgDb),
                              ![s].ids = pgReports(pgCall[s].call, pgRead(pgDb))]
  /\ UNCHANGED <<pgDb, pgLock, pgOwed, pgLogVars, pgStream, pgSchemaVars, pgClosed>>

(* lockWrites, and the reads that follow it.                               *)
PgLockWrites(s) ==
  /\ pgCall[s].at = "begin"
  /\ pgLock = None
  /\ pgLock' = s
  /\ pgCall' = [pgCall EXCEPT ![s].at = "work", ![s].priors = pgRead(pgDb),
                              ![s].ids = pgReports(pgCall[s].call, pgRead(pgDb))]
  /\ UNCHANGED <<pgDb, pgOwed, pgLogVars, pgStream, pgSchemaVars, pgClosed>>

pgCommitted(s) ==
  /\ pgCall[s].at = "work"
  /\ pgDb' = pgApply(pgDb, pgCall[s].call, pgCall[s].priors)
  /\ pgLock' = IF pgLock = s THEN None ELSE pgLock
  /\ pgOwed' = [pgOwed EXCEPT ![s] = @ \cup pgCall[s].ids]

(* The call returns, and reports what its last attempt did.                *)
PgCommit(s) ==
  /\ pgCommitted(s)
  /\ pgCall' = [pgCall EXCEPT ![s].at = "tell", ![s].priors = None]
  /\ UNCHANGED <<pgLogVars, pgStream, pgSchemaVars, pgClosed>>

PgChanges(s) ==
  /\ pgCall[s].at = "tell"
  /\ pgOwed' = [pgOwed EXCEPT ![s] = @ \ pgCall[s].ids]
  /\ pgCall' = [pgCall EXCEPT ![s] = pgIdle]
  /\ UNCHANGED <<pgDb, pgLock, pgLogVars, pgStream, pgSchemaVars, pgClosed>>

(* What a broken connection leads to: another attempt, or an error to the  *)
(* caller, who then has to run the call again itself.                      *)
pgAgain(s) ==
  pgCall' = [pgCall EXCEPT ![s] =
    IF @.tries < Attempts THEN [call |-> @.call, at |-> "begin", tries |-> @.tries + 1,
                                priors |-> None, ids |-> {}]
    ELSE pgIdle]

(* The connection breaks before the commit: the transaction is gone.       *)
PgFail(s) ==
  /\ pgCall[s].at \in {"begin", "work"}
  /\ pgAgain(s)
  /\ pgLock' = IF pgLock = s THEN None ELSE pgLock
  /\ pgOwed' = IF pgCall[s].tries < Attempts THEN pgOwed ELSE [pgOwed EXCEPT ![s] = {}]
  /\ UNCHANGED <<pgDb, pgLogVars, pgStream, pgSchemaVars, pgClosed>>

(* The connection breaks after the commit and before its answer: the call  *)
(* cannot tell, and runs again.                                            *)
PgLostAck(s) ==
  /\ pgCall[s].at = "work" /\ pgCall[s].call.op \in LostAckOps
  /\ pgCall[s].tries < Attempts
  /\ pgCommitted(s)
  /\ pgAgain(s)
  /\ UNCHANGED <<pgLogVars, pgStream, pgSchemaVars, pgClosed>>

PgClose(s) ==
  /\ s \notin pgClosed
  /\ pgClosed' = pgClosed \cup {s}
  /\ UNCHANGED <<pgDb, pgCallVars, pgLogVars, pgStream, pgSchemaVars>>

---------------------------------------------------------------------------
(* The calls that are one statement and take no lock.                      *)

pgStatement(db) ==
  /\ pgDb' = db
  /\ UNCHANGED <<pgCallVars, pgStream, pgSchemaVars, pgClosed>>

PgVerify(p, id, until) ==
  /\ pgVisible(pgDb, p, id)
  /\ pgStatement([pgDb EXCEPT !.verify[id] = [by |-> p.subject, until |-> until]])
  /\ UNCHANGED pgLogVars

PgUnverify(p, id) ==
  /\ pgVisible(pgDb, p, id)
  /\ pgStatement([pgDb EXCEPT !.verify[id] = None])
  /\ UNCHANGED pgLogVars

PgReport(p, id, at) ==
  /\ ReportKey(p) # "" /\ pgVisible(pgDb, p, id)
  /\ pgStatement([pgDb EXCEPT !.report[id][ReportKey(p)] = at])
  /\ UNCHANGED pgLogVars

PgWithdraw(p, id) ==
  /\ ReportKey(p) # "" /\ pgVisible(pgDb, p, id)
  /\ pgStatement([pgDb EXCEPT !.report[id][ReportKey(p)] = 0])
  /\ UNCHANGED pgLogVars

PgResolve(p, id) ==
  /\ pgVisible(pgDb, p, id)
  /\ pgStatement([pgDb EXCEPT !.report[id] = [k \in ReportKeys |-> 0]])
  /\ UNCHANGED pgLogVars

PgSaveFeed(tenant, now) ==
  /\ pgStatement([pgDb EXCEPT !.feed[tenant] =
        [created |-> IF @ = None THEN now ELSE @.created, updated |-> now]])
  /\ UNCHANGED pgLogVars

PgDropFeed(tenant) ==
  /\ pgStatement([pgDb EXCEPT !.feed[tenant] = None])
  /\ UNCHANGED pgLogVars

(* RecordOpen: the insert, then the trim to the newest OpenHistory rows,   *)
(* any of those that share the instant at the cut.                         *)
PgRecordOpen(p, id, at) ==
  /\ <<p, id>> \notin pgOpening
  /\ pgStatement(IF pgVisible(pgDb, p, id) THEN [pgDb EXCEPT !.open[p][id] = at] ELSE pgDb)
  /\ pgOpening' = pgOpening \cup {<<p, id>>}
  /\ UNCHANGED pgOver

pgNewest(log) ==
  LET held == {id \in Ids : log[id] # 0}
      n == IF Cardinality(held) < OpenHistory THEN Cardinality(held) ELSE OpenHistory
  IN  {kept \in SUBSET held : /\ Cardinality(kept) = n
                              /\ \A x \in kept, y \in held \ kept : log[x] >= log[y]}

PgTrimOpens(p, id) ==
  /\ <<p, id>> \in pgOpening
  /\ \E kept \in pgNewest(pgDb.open[p]) :
       pgStatement([pgDb EXCEPT !.open[p] = [x \in Ids |-> IF x \in kept THEN @[x] ELSE 0]])
  /\ pgOpening' = pgOpening \ {<<p, id>>}
  /\ pgOver' = pgOver \ {p}

PgTrimFails(p, id) ==
  /\ <<p, id>> \in pgOpening
  /\ pgOpening' = pgOpening \ {<<p, id>>}
  /\ pgOver' = pgOver \cup {p}
  /\ UNCHANGED <<pgDb, pgCallVars, pgStream, pgSchemaVars, pgClosed>>

---------------------------------------------------------------------------
(* stream: the rows of one query are handed to the caller one by one, and  *)
(* a broken connection is tried again only up to the first row.            *)

pgOnStream(stream) ==
  /\ pgStream' = stream
  /\ UNCHANGED <<pgDb, pgCallVars, pgLogVars, pgSchemaVars, pgClosed>>

PgRetrieve(p, r) ==
  /\ pgStream = None
  /\ pgOnStream([p |-> p, r |-> r, rows |-> SetToSeq(pgQuery(pgDb, p, r)), got |-> <<>>,
                 sent |-> 0, tries |-> 1, end |-> ""])

PgStreamRow ==
  /\ pgStream # None /\ pgStream.end = "" /\ pgStream.sent < Len(pgStream.rows)
  /\ pgOnStream([pgStream EXCEPT !.sent = @ + 1,
                                 !.got = Append(@, pgStream.rows[pgStream.sent + 1])])

PgStreamEnd ==
  /\ pgStream # None /\ pgStream.end = "" /\ pgStream.sent = Len(pgStream.rows)
  /\ pgOnStream([pgStream EXCEPT !.end = "nil"])

(* rows.Err: out of attempts is an error; with a row delivered the next    *)
(* attempt returns nil at once; otherwise the query runs again.            *)
PgStreamBreaks ==
  /\ pgStream # None /\ pgStream.end = ""
  /\ pgOnStream(
       IF pgStream.tries >= Attempts THEN [pgStream EXCEPT !.end = "error"]
       ELSE IF pgStream.got # <<>> THEN [pgStream EXCEPT !.end = "nil"]
       ELSE [pgStream EXCEPT !.tries = @ + 1, !.sent = 0,
                             !.rows = SetToSeq(pgQuery(pgDb, pgStream.p, pgStream.r))])

PgStreamDone ==
  /\ pgStream # None /\ pgStream.end # ""
  /\ pgOnStream(None)

---------------------------------------------------------------------------
(* migrate and Rollback: one transaction under the schema lock, which      *)
(* reads the versions applied and then writes.                             *)

pgSchemaFree == \A s \in Servers : pgMigrating[s] = None

pgOnSchema(schema, s, read) ==
  /\ pgSchema' = schema
  /\ pgMigrating' = [pgMigrating EXCEPT ![s] = read]
  /\ UNCHANGED <<pgDb, pgCallVars, pgLogVars, pgStream, pgClosed>>

PgMigrateBegin(s) ==
  /\ pgMigrating[s] = None /\ pgSchemaFree
  /\ pgOnSchema(pgSchema, s, pgSchema)

(* More versions than this build knows, or not a prefix: refuse to open.   *)
pgRefuses(s, applied) ==
  Len(applied) > Builds[s] \/ \E i \in DOMAIN applied : applied[i] # i

PgMigrate(s) ==
  /\ pgMigrating[s] # None
  /\ pgOnSchema(IF pgRefuses(s, pgMigrating[s]) THEN pgSchema
                ELSE pgSchema \o [i \in 1..(Builds[s] - Len(pgMigrating[s])) |->
                                    Len(pgMigrating[s]) + i], s, None)

(* Rollback to a version.  A migration above it with no way back refuses   *)
(* the whole, and one this build does not know ends the process (ms[v-1]); *)
(* either way the transaction goes.                                        *)
PgRollback(s, version) ==
  LET undone == {v \in ToSet(pgMigrating[s]) : v > version}
      stuck == undone \cap Irreversible # {} \/ \E v \in undone : v > Builds[s]
  IN  /\ pgMigrating[s] # None /\ version \in 0..Builds[s]
      /\ pgOnSchema(IF stuck THEN pgSchema
                    ELSE SelectSeq(pgSchema, LAMBDA v : v \notin undone), s, None)

---------------------------------------------------------------------------
(* What the reads answer.                                                  *)

PgGet(p, id) == IF pgVisible(pgDb, p, id) THEN pgDb.data[id] ELSE None

PgScan(p) == {id \in Ids : pgVisible(pgDb, p, id)}

PgContent(p, id) == IF pgVisible(pgDb, p, id) THEN pgDb.content[id] ELSE None

PgFrequency(id, term) == term \in pgDb.posting[id]

PgTotal(p, r) == Cardinality(pgQuery(pgDb, p, r))

(* counts: a ticked field over the match set with its constraint lifted,   *)
(* the ticked values over the match set itself.                            *)
PgCounts(p, r, kind) ==
  LET of(q) == Cardinality({id \in pgQuery(pgDb, p, q) : pgDb.document[id].kind = kind})
  IN  IF r.kinds # {} /\ of(r) > 0 THEN of(r) ELSE of(Without(r, "kind"))

PgStatistics(p, term) == pgDb.termStat[<<p.tenant, term>>]

PgStats ==
  LET held == {id \in Ids : pgDb.document[id] # None}
  IN  [documents |-> Cardinality({id \in held : pgDb.document[id].queryable}),
       quarantined |-> Cardinality({id \in held : ~pgDb.document[id].queryable})]

PgReachable(p, kind) == Cardinality({id \in PgScan(p) : pgDb.document[id].kind = kind})

PgQuarantined(tenant) == {id \in Ids : /\ pgDb.document[id] # None
                                       /\ pgDb.document[id].tenant = tenant
                                       /\ ~pgDb.document[id].queryable}

PgInventory(tenant, source) ==
  {[id |-> id, version |-> pgDb.document[id].version, held |-> ~pgDb.document[id].queryable] :
     id \in {x \in Ids : pgDb.document[x] # None /\ pgDb.document[x].tenant = tenant
                           /\ pgDb.document[x].source = source}}

PgVerifications(p) == [id \in {x \in PgScan(p) : pgDb.verify[x] # None} |-> pgDb.verify[id]]

PgCorrections(p) == [id \in {x \in PgScan(p) : pgDb.own[x] # None} |-> pgDb.own[id]]

(* latest: one row for a document, with the count and whether one is mine. *)
PgReports(p) ==
  LET said(id) == {k \in ReportKeys : pgDb.report[id][k] # 0}
      times(id) == {pgDb.report[id][k] : k \in said(id)}
  IN  [id \in {x \in PgScan(p) : said(x) # {}} |->
         [count |-> Cardinality(said(id)),
          last |-> CHOOSE t \in times(id) : \A u \in times(id) : u <= t,
          mine |-> ReportKey(p) \in said(id)]]

PgReported(p) ==
  {id \in DOMAIN PgReports(p) :
     ToSet(PrincipalKeys(p)) \cap (pgDb.document[id].ownerKeys
                                     \cup pgDb.document[id].authorKeys) # {}}

PgCurated(p, phrasing) ==
  LET id == pgDb.phrasing[<<p.tenant, phrasing>>]
  IN  IF id # None /\ pgDb.answer[<<p.tenant, id>>] # <<>> THEN id ELSE None

PgAnswers(p) == {id \in AnswerIds : pgDb.answer[<<p.tenant, id>>] # <<>>}

---------------------------------------------------------------------------
PgWorkNext ==
  \E s \in Servers : PgLockWrites(s) \/ PgCommit(s) \/ PgChanges(s) \/ PgFail(s) \/ PgLostAck(s)

PgDocNext ==
  \/ \E s \in Servers :
       \/ \E b \in Batches : PgBegin(s, [op |-> "put", batch |-> b])
       \/ \E ids \in (SUBSET Ids) \ {{}} : PgBegin(s, [op |-> "delete", ids |-> ids])
       \/ \E t \in Tenants, ids \in (SUBSET Ids) \ {{}}, d \in Descriptors :
            PgBegin(s, [op |-> "perms", tenant |-> t, ids |-> ids, perms |-> d])
  \/ PgWorkNext

PgVerifyNext ==
  \E p \in Callers, id \in Ids :
    (\E t \in Times : PgVerify(p, id, t)) \/ PgUnverify(p, id)

PgOwnNext ==
  \E s \in Servers, p \in Callers, id \in Ids :
    \/ \E who \in People : PgBegin(s, [op |-> "own", p |-> p, id |-> id, who |-> who])
    \/ PgBegin(s, [op |-> "disown", p |-> p, id |-> id])

PgReportNext ==
  \E p \in Callers, id \in Ids :
    (\E t \in Times : PgReport(p, id, t)) \/ PgWithdraw(p, id) \/ PgResolve(p, id)

PgAnswerNext ==
  \E s \in Servers, t \in {p.tenant : p \in Callers} :
    \/ \E a \in Curations : PgBegin(s, [op |-> "curate", tenant |-> t, answer |-> a])
    \/ \E id \in AnswerIds : PgBegin(s, [op |-> "retract", tenant |-> t, id |-> id])

PgFeedNext ==
  \E t \in Tenants : (\E now \in Times : PgSaveFeed(t, now)) \/ PgDropFeed(t)

PgHistoryNext ==
  \E p \in Callers, id \in Ids :
    (\E t \in Times : PgRecordOpen(p, id, t)) \/ PgTrimOpens(p, id) \/ PgTrimFails(p, id)

PgStreamNext ==
  \/ \E p \in Callers, r \in Searches : PgRetrieve(p, r)
  \/ PgStreamRow \/ PgStreamEnd \/ PgStreamBreaks \/ PgStreamDone

PgSchemaNext ==
  \E s \in Servers :
    PgMigrateBegin(s) \/ PgMigrate(s) \/ \E v \in 0..Builds[s] : PgRollback(s, v)

PgNext ==
  \/ PgDocNext \/ PgVerifyNext \/ PgOwnNext \/ PgReportNext \/ PgAnswerNext \/ PgFeedNext
  \/ PgHistoryNext \/ PgStreamNext \/ PgSchemaNext \/ \E s \in Servers : PgClose(s)

PgSpec == PgInit /\ [][PgNext]_pgVars

---------------------------------------------------------------------------
(* Correctness.                                                            *)

PgRef == INSTANCE MemStore WITH
  memDocs <- pgDb.data, memContent <- pgDb.content, memVerified <- pgDb.verify,
  memOwners <- pgDb.own, memReports <- pgDb.report, memAnswers <- pgDb.answer,
  memPhrasings <- pgDb.phrasing, memFeeds <- pgDb.feed,
  memOpens <- [p \in Principals |-> <<>>], memClosed <- FALSE,
  memPending <- {}, memSeen <- [id \in Ids |-> None],
  memSaid <- [id \in Ids |-> IF pgDb.data[id] = None THEN None
                             ELSE IF pgDb.own[id] = None THEN pgDb.data[id].owner
                             ELSE pgDb.own[id].was]

\* Type invariant: a document has its row exactly when it has its data, one server
\* at most has the write lock, and no call runs more often than Attempts.
PgTypeOK ==
  /\ \A id \in Ids : (pgDb.document[id] = None) = (pgDb.data[id] = None)
  /\ pgLock \in Servers \cup {None}
  /\ \A s \in Servers : pgCall[s].at # "idle" => pgCall[s].tries \in 1..Attempts
  /\ pgOwed \in [Servers -> SUBSET Ids]

(* Whatever servers share the database, and however often a call ran       *)
(* again, every commit is one operation of the reference store on the data *)
(* (Store.transact, retry).                                                *)
PgImplementsMem == PgRef!MemDataSpec

(* The maintained counts are what counting the documents would give, for   *)
(* every order in which servers take the lock, break and run again         *)
(* (lockWrites).                                                           *)
PgStatisticsTrue ==
  LET counted(t) == {id \in Ids : pgDb.data[id] # None /\ Queryable(pgDb.data[id])
                                   /\ pgDb.data[id].tenant = t}
  IN  \A t \in Tenants :
        /\ pgDb.corpus[t].documents = Cardinality(counted(t))
        /\ pgDb.corpus[t].tokens =
             SumFunction([id \in counted(t) |-> Cardinality(pgDb.data[id].terms)])
        /\ \A w \in Terms : pgDb.termStat[<<t, w>>] =
             Cardinality({id \in counted(t) : w \in pgDb.data[id].terms})

(* Every read gives the answer of the reference store over the same data.  *)
PgReadsAgree ==
  LET kinds == {pgDb.data[id].kind : id \in {x \in Ids : pgDb.data[x] # None}}
  IN \A p \in Principals :
    /\ PgScan(p) = PgRef!MemScan(p)
    /\ \A id \in Ids : /\ PgGet(p, id) = PgRef!MemGet(p, id)
                       /\ PgContent(p, id) = PgRef!MemGetContent(p, id)
                       /\ \A w \in Terms : id \in PgScan(p) =>
                            PgFrequency(id, w) = (w \in pgDb.data[id].terms)
    /\ \A r \in Searches :
         /\ pgQuery(pgDb, p, r) = {id \in PgRef!MemScan(p) : Matches(r, pgDb.data[id])}
         /\ PgTotal(p, r) = Cardinality({id \in PgRef!MemScan(p) : Matches(r, pgDb.data[id])})
         /\ \A k \in kinds :
              PgCounts(p, r, k) = Cardinality({id \in PgScan(p) :
                 /\ Matches(Without(r, "kind"), pgDb.data[id])
                 /\ pgDb.data[id].kind = k})
    /\ \A w \in Terms : PgStatistics(p, w) = PgRef!MemStatistics(p, w)
    /\ \A k \in kinds :
         PgReachable(p, k) = PgRef!MemReachable(p, k)
    /\ PgVerifications(p) = PgRef!MemVerifications(p)
    /\ PgCorrections(p) = PgRef!MemCorrections(p)
    /\ PgReports(p) = PgRef!MemReportsOf(p) /\ PgReported(p) = PgRef!MemReported(p)
    /\ \A k \in Phrasings : PgCurated(p, k) = PgRef!MemCurated(p, k)
    /\ PgAnswers(p) = PgRef!MemAnswersOf(p)
    /\ PgQuarantined(p.tenant) = PgRef!MemQuarantined(p.tenant)
    /\ \A id \in {x \in Ids : pgDb.data[x] # None} :
         PgInventory(p.tenant, pgDb.data[id].source) = PgRef!MemInventory(p.tenant, pgDb.data[id].source)
    /\ PgStats = PgRef!MemStats

(* A writing call that returned without an error has told the subscribers  *)
(* of its server about every document it changed, also in an attempt whose *)
(* acknowledgement was lost.                                               *)
ChangesAreTold == \A s \in Servers : pgCall[s].at = "idle" => pgOwed[s] = {}

(* A streaming read never hands the caller a document twice, whatever      *)
(* connection breaks (stream).                                             *)
RowsOnce == pgStream # None => IsInjective(pgStream.got)

(* A read that reports no error has handed over the whole match set.       *)
ReadsAreWhole ==
  pgStream # None /\ pgStream.end = "nil" => ToSet(pgStream.got) = ToSet(pgStream.rows)

(* The schema is a prefix of the migrations, with any number of builds     *)
(* starting at once.                                                       *)
SchemaIsAPrefix == \A i \in DOMAIN pgSchema : pgSchema[i] = i

(* Between calls, nobody has more than OpenHistory opens.                  *)
PgHistoryBounded ==
  \A p \in Principals : (p \notin pgOver /\ \A id \in Ids : <<p, id>> \notin pgOpening) =>
    Cardinality({id \in Ids : pgDb.open[p][id] # 0}) <= OpenHistory
=============================================================================
