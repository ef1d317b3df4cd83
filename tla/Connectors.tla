----------------------------- MODULE Connectors -----------------------------
(***************************************************************************)
(* What every connector promises, whichever system it reads: the pipeline, *)
(* that a crawl goes on where it stopped, and whoever may not read a       *)
(* document, that it is indexed under what its source said of it.  The     *)
(* adapters, and the files their cursors may be kept in, share no state.   *)
(***************************************************************************)
EXTENDS ThreadSource, ObjectSource, Checkpoint, Jira, Confluence, AclMap

CrawlSpec == TsSpec /\ OsSpec /\ CkSpec
RulesSpec == TsSpec /\ OsSpec /\ JrSpec /\ CfSpec /\ AmSpec

\* A crawl goes on where it stopped, however often it was interrupted: what is not
\* indexed as it is lies ahead of the cursor, and the checkpoint read is the one
\* saved (threadsource, objectsource, checkpoint.go).
CrawlsResume ==
  /\ TsTypeOK /\ NothingLost
  /\ OsTypeOK /\ AheadOfCursor /\ TagNeverAhead
  /\ LeavesOldOrNew /\ ResumesOwn

\* A document is never under a rule wider than one its source had: own rules and
\* restrictions stand, and what cannot be expressed is held back.  A rule that is
\* rewritten is applied in time by runs that start at the beginning of what they
\* list: not in the containers, nor to the keys, a resumed run began behind, nor
\* to a bucket's list a new process is the first to read; nor to an object that
\* could not be read or was written behind the listing (RevocationBounded and
\* ListApplied; threadsource, jirasource, confluencesource, objectsource, aclmap).
RulesAreTheSources ==
  /\ OwnRuleKept /\ RevocationBounded
  /\ LevelNeverGuessed /\ RuleNeverWider
  /\ CrawlSeesRestrictions /\ IntersectionQuarantined /\ SpaceNeverWider
  /\ ListApplied
  /\ MapsFaithfully /\ QuarantinesUnmappable

=============================================================================
