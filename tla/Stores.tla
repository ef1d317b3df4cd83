------------------------------- MODULE Stores -------------------------------
(***************************************************************************)
(* What the three storage drivers promise together.                        *)
(***************************************************************************)
EXTENDS MemStore, SqliteStore, PgStore

\* Every read of both SQL drivers gives the answer the permission rule and the
\* reference store give over the same documents (query.go, rank.go, access.go).
\* The reads see committed tables alone, and whatever the tables, a call going on
\* may fail and leave them as they are: they are looked at with no call going on.
ReadsAgree ==
  /\ sqTx = None /\ sqTold = {} => SqReadsAgree
  /\ (\A s \in Servers : pgCall[s].at = "idle") => PgReadsAgree

\* What the drivers keep by increments is what recomputing would give: statistics,
\* the bounded history, the list of migrations, and the types of the tables
\* (write.go, open.go, schema.go).
TablesHold ==
  /\ MemTypeOK
  /\ SqTypeOK
  /\ PgTypeOK
  /\ StatisticsTrue
  /\ PgStatisticsTrue
  /\ SqHistoryBounded
  /\ PgHistoryBounded
  /\ SchemaIsAPrefix

\* What people said about a document stands as long as the document and no
\* longer: corrections, verifications, reports and the phrasings of answers
\* (own.go, verify.go, report.go, curate.go).
SaidStands == CorrectionStands /\ NothingAboutTheGone /\ PhrasingsAnswer

\* Whoever is told of the changes, or handed the rows, gets each of them:
\* subscribers agree with the store, a call that returned has told its server,
\* and no row is streamed twice (notify.go, transact, stream).
ChangesReach == SubscribersCatchUp /\ ChangesAreTold /\ RowsOnce
=============================================================================
