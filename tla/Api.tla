-------------------------------- MODULE Api --------------------------------
(* The handlers that put a document in front of somebody (api): a page is   *)
(* read from the driver, put to the sources once more (Recheck), decorated, *)
(* recorded and written; and the handlers people say things about documents *)
(* with, which are several calls to the driver with nothing held between    *)
(* them.  Other requests, the crawl and the sources go on in between.       *)
EXTENDS Cache, FiniteSets

CONSTANTS
  ApRequests,           \* each is one request
  ApPeople, ApIds, ApAdmins,
  ApRechecked,          \* the documents of the sources a checker is wired for, none by default
  ApVersioned,          \* the documents of the sources that say when one changed
  ApPage,               \* how many rows a page of results holds
  ApMaxChanges          \* what the crawl and the sources do

\* A document as the index has it, and a correction of its owner.
Docs == [readers: SUBSET ApPeople, author: ApPeople, owner: ApPeople, said: ApPeople, ver: Nat \ {0}]
Corrections == [owner: ApPeople, was: ApPeople]
Trail == [outcome: {"served", "refused", "failed"}, docs: SUBSET ApIds, count: Int]

ASSUME ApAssumption ==
  /\ ApPage \in Nat \ {0} /\ ApAdmins \subseteq ApPeople /\ IsFiniteSet(ApIds) /\ IsFiniteSet(ApPeople)
  /\ None \notin Docs \cup Corrections \cup Trail

VARIABLES
  apDocs,       \* the index: id -> [readers, author, owner, said (the source's), ver] or None
  apMay,        \* the sources: who may read what, as pairs
  apHeard,      \* what the recheck may still go by: also who lost a document a moment ago
  apCorrected,  \* id -> [owner, was] or None
  apReports,    \* id -> person -> when their report was written, 0 for never
  apVerified,   \* id -> when somebody's claim was written, 0 for never
  apCard,       \* the sources of the answer written for the query, or None
  apThumbs,     \* what is cached: {[id, ver, picture]}
  apReq,        \* the requests, and what each was answered
  apClock,      \* the order of those writes
  apChanges
apStored == <<apDocs, apCorrected, apReports, apVerified, apThumbs, apClock>>
apWorld == <<apMay, apHeard, apCard, apChanges>>
apVars == <<apStored, apWorld, apReq>>

Pages == {"search", "suggest", "documents", "recent", "reported"}
Panels == {"document", "content", "thumbnail"}
Claims == {"report", "withdraw", "resolve", "verify", "unverify", "setOwner", "clearOwner"}

apNew == [at |-> "idle", op |-> None, p |-> None, id |-> None, doc |-> None,
          hits |-> {}, quotes |-> {}, cited |-> {}, total |-> 0, status |-> 0, rec |-> None,
          note |-> None, could |-> {}, saw |-> {}, said |-> {}, missed |-> FALSE]
NoReports == [p \in ApPeople |-> 0]
apSees(p, id) == apDocs[id] # None /\ p \in apDocs[id].readers
apReadable(p) == {id \in ApIds : apSees(p, id)}
\* A document of a source nobody wired a checker for is as readable as the index
\* says.
stillAllowed(p) == {id \in ApIds : id \in ApRechecked => <<p, id>> \in apHeard}

\* A document has its author and its owner for readers, and another person may
\* have been put in the owner's place or have reported it already.
ApInit ==
  /\ \E author, owner, other \in ApPeople : owner # other /\
       /\ apCorrected \in [ApIds -> {None, [owner |-> other, was |-> owner]}]
       /\ apDocs = [id \in ApIds |-> [readers |-> ApPeople, ver |-> 1, author |-> author, said |-> owner,
                     owner |-> IF apCorrected[id] = None THEN owner ELSE other]]
       /\ apReports \in [ApIds -> {NoReports, [NoReports EXCEPT ![other] = 1]}]
  /\ apMay = ApPeople \X ApIds /\ apHeard = ApPeople \X (ApIds \cap ApRechecked)
  /\ apVerified = [id \in ApIds |-> 0]
  /\ apCard \in {None, ApIds}
  /\ apThumbs = {}
  /\ apReq = [r \in ApRequests |-> apNew]
  /\ apClock = 1 /\ apChanges = 0

apStep(r, next) == apReq' = [apReq EXCEPT ![r] = next]
apAnswer(r, status, next) == apStep(r, [next EXCEPT !.at = "answered", !.status = status])
apRecord(outcome, docs, count) == [outcome |-> outcome, docs |-> docs, count |-> count]

-----------------------------------------------------------------------------
\* A credential and a directory that answers make a principal; anything else is
\* an answer already.
ApAuthenticate(r, op, p, id) ==
  /\ apReq[r].at = "idle"
  /\ apStep(r, [apReq[r] EXCEPT !.at = "begun", !.op = op, !.p = p, !.id = id,
                !.could = stillAllowed(p), !.saw = apReadable(p),
                !.said = IF apDocs[id] = None THEN {} ELSE {apDocs[id].said}])
  /\ UNCHANGED <<apStored, apWorld>>
ApUnauthenticated(r, status) ==
  /\ apReq[r].at = "idle"
  /\ apAnswer(r, status, apReq[r])
  /\ UNCHANGED <<apStored, apWorld>>

Parsed == {"search", "documents", "recent", "reported", "thumbnail", "report", "verify", "setOwner"}
\* A request that cannot be read is answered before anything is looked at, and
\* so are a claim no driver here keeps and an empty typeahead: nothing was seen,
\* and there is no record.
ApAnsweredAtOnce(r, status) ==
  /\ apReq[r].at = "begun"
  /\ \/ status = 400 /\ apReq[r].op \in Parsed
     \/ status = 501 /\ apReq[r].op \in Claims
     \/ status = 200 /\ apReq[r].op = "suggest"
  /\ apAnswer(r, status, apReq[r])
  /\ UNCHANGED <<apStored, apWorld>>

apUnfinished(q) == apReq[q].at \notin {"idle", "answered"}
apAsks(r, op, at) == apReq[r].op = op /\ apReq[r].at = at
apFound(r, hits, quotes, total) ==
  /\ apStep(r, [apReq[r] EXCEPT !.at = "found", !.hits = hits, !.quotes = quotes, !.total = total])
  /\ UNCHANGED <<apStored, apWorld>>
apFails(r, status, outcome) ==
  /\ apAnswer(r, status, [apReq[r] EXCEPT !.rec = apRecord(outcome, {}, 0), !.hits = {}])
  /\ UNCHANGED <<apStored, apWorld>>
\* The driver finds what the query matches; a page of it is shown and may be
\* quoted.
ApSearch(r) ==
  /\ apAsks(r, "search", "begun")
  /\ LET matches == apReadable(apReq[r].p) IN
     \/ \E hits \in SUBSET matches, quotes \in SUBSET matches :
          /\ Cardinality(hits) <= ApPage /\ (Cardinality(hits) < ApPage => hits = matches)
          /\ quotes \subseteq hits
          /\ apFound(r, hits, quotes, Cardinality(matches))
     \/ apFails(r, 500, "failed")
\* The typeahead still has its operators when the search fails.
ApSuggest(r) ==
  /\ apAsks(r, "suggest", "begun")
  /\ apFound(r, apReadable(apReq[r].p), {}, 0) \/ apFails(r, 200, "failed")
\* A list of ids somebody holds; one that cannot be read is an empty page.
ApDocuments(r) ==
  /\ apAsks(r, "documents", "begun")
  /\ apFound(r, {apReq[r].id} \cap apReadable(apReq[r].p), {}, 0) \/ apFails(r, 200, "served")
\* What was said about the asker's own documents; a driver that keeps no reports
\* has an empty page.
ApFlagged(r) ==
  /\ apAsks(r, "reported", "begun")
  /\ \/ apFound(r, {id \in apReadable(apReq[r].p) :
                     apDocs[id].owner = apReq[r].p /\ apReports[id] # NoReports}, {}, 0)
     \/ apFails(r, 200, "served")
     \/ apFails(r, 500, "failed")
\* The home page reads what this person opened, without which it can do, and
\* then what changed; both are put to the sources together.
ApOpened(r, opens) ==
  /\ apAsks(r, "recent", "begun") /\ opens \subseteq apReadable(apReq[r].p)
  /\ apStep(r, [apReq[r] EXCEPT !.at = "opened", !.hits = opens])
  /\ UNCHANGED <<apStored, apWorld>>
ApRecent(r) ==
  /\ apAsks(r, "recent", "opened")
  /\ apFound(r, apReq[r].hits \cup apReadable(apReq[r].p), {}, 0) \/ apFails(r, 500, "failed")

\* What the sources still allow, less what they did not answer about in time.
\* An answer is used again for its lifetime.
keep(p, ids, lost) == {id \in ids : id \in ApRechecked => id \notin lost /\ <<p, id>> \in apHeard}
\* A row that went takes its quote with it.
onlyQuoting(quotes, hits) == quotes \cap hits
\* The total comes down with the rows.
floor(req, kept) == (req.total + Cardinality(kept)) - Cardinality(req.hits)
\* The page as the sources have it.  The typeahead has as many rows as its
\* operators leave room for.
ApKeep(r, lost, shown) ==
  /\ apReq[r].at = "found"
  /\ LET req == apReq[r]
         kept == keep(req.p, req.hits, lost)
         search == req.op = "search"
     IN /\ shown \subseteq kept /\ (req.op # "suggest" => shown = kept)
        /\ apStep(r, [apReq[r] EXCEPT !.at = IF search THEN "card" ELSE "ready", !.hits = shown,
                      !.total = IF search THEN floor(req, kept) ELSE Cardinality(shown),
                      !.quotes = onlyQuoting(req.quotes, kept)])
  /\ UNCHANGED <<apStored, apWorld>>

\* An answer somebody wrote stands in place of the quotes.  Its sources are
\* read as this person, and a driver that cannot leaves them off, or the whole
\* card.
ApCurated(r, fetched) ==
  /\ apReq[r].at = "card"
  /\ \/ fetched = {} /\ apStep(r, [apReq[r] EXCEPT !.at = "ready"])
     \/ /\ apCard # None /\ fetched \in {{}, apCard \cap apReadable(apReq[r].p)}
        /\ apStep(r, [apReq[r] EXCEPT !.at = "cited", !.cited = fetched, !.quotes = {}])
  /\ UNCHANGED <<apStored, apWorld>>
\* A citation the source withdrew is not drawn.
stillVisible(p, docs, lost) == keep(p, docs, lost)
ApCited(r, lost) ==
  /\ apReq[r].at = "cited"
  /\ apStep(r, [apReq[r] EXCEPT !.at = "ready", !.cited = stillVisible(apReq[r].p, apReq[r].cited, lost)])
  /\ UNCHANGED <<apStored, apWorld>>
\* What goes on the record is what is on the page.
apShown(req) == req.hits
\* The record is written and then the response.
ApServe(r) ==
  /\ apReq[r].at = "ready"
  /\ apAnswer(r, 200, [apReq[r] EXCEPT !.rec = apRecord("served", apShown(apReq[r]), apReq[r].total)])
  /\ UNCHANGED <<apStored, apWorld>>

-----------------------------------------------------------------------------
\* Not there, not theirs, withdrawn and, of bytes, kept by no driver here are one
\* answer and one record.
apNothing(r, status, outcome) ==
  apAnswer(r, status, [apReq[r] EXCEPT !.rec = apRecord(outcome, {apReq[r].id}, 0), !.hits = {}])
refused(r) == apNothing(r, 404, "refused")
failed(r) == apNothing(r, 500, "failed")
ApGet(r) ==
  /\ apReq[r].at = "begun" /\ apReq[r].op \in Panels
  /\ \/ (apReq[r].op # "document" \/ ~ apSees(apReq[r].p, apReq[r].id)) /\ refused(r)
     \/ apSees(apReq[r].p, apReq[r].id) /\ apStep(r, [apReq[r] EXCEPT !.at = "got", !.doc = apDocs[apReq[r].id]])
     \/ failed(r)
  /\ UNCHANGED <<apStored, apWorld>>
\* The source is asked before any bytes are read.
ApStillReadable(r, lost) ==
  /\ apReq[r].at = "got"
  /\ IF keep(apReq[r].p, {apReq[r].id}, lost) = {} THEN refused(r)
     ELSE apStep(r, [apReq[r] EXCEPT !.at = IF apReq[r].op = "document" THEN "ready" ELSE "bytes",
                     !.hits = {apReq[r].id}, !.total = 1])
  /\ UNCHANGED <<apStored, apWorld>>
\* The bytes are a second read, which applies the principal again.
ApContent(r) ==
  /\ apReq[r].at = "bytes" /\ apReq[r].op = "content"
  /\ \/ ~ apSees(apReq[r].p, apReq[r].id) /\ refused(r)
     \/ apSees(apReq[r].p, apReq[r].id) /\ apStep(r, [apReq[r] EXCEPT !.at = "ready", !.note = apDocs[apReq[r].id].ver])
     \/ failed(r)
  /\ UNCHANGED <<apStored, apWorld>>
\* A document without a version has one key for all of them.
thumbnailKey(id, doc) == <<id, IF id \in ApVersioned THEN doc.ver ELSE 0>>
\* A picture in hand needs no bytes, unless the cache has let it go by now; one
\* that cannot be drawn is not there.
ApThumbnail(r) ==
  /\ apReq[r].at = "bytes" /\ apReq[r].op = "thumbnail"
  /\ LET key == thumbnailKey(apReq[r].id, apReq[r].doc)
         held == {t \in apThumbs : t.key = key}
     IN \/ \E t \in held : apStep(r, [apReq[r] EXCEPT !.at = "ready", !.note = t.picture]) /\ UNCHANGED apThumbs
        \/ /\ apSees(apReq[r].p, apReq[r].id)
           /\ apStep(r, [apReq[r] EXCEPT !.at = "ready", !.note = apDocs[apReq[r].id].ver])
           /\ apThumbs' = (apThumbs \ held) \cup {[key |-> key, picture |-> apDocs[apReq[r].id].ver]}
        \/ /\ refused(r)
           /\ UNCHANGED apThumbs
  /\ UNCHANGED <<apDocs, apCorrected, apReports, apVerified, apClock, apWorld>>

-----------------------------------------------------------------------------
mayVerify(p, doc) == p \in ApAdmins \/ p \in {doc.owner, doc.author}
\* Somebody who may not see a document is told it is not there, and somebody
\* who may is told why they cannot do this.  A report takes no more than reading.
mayCurate(r) ==
  LET p == apReq[r].p  id == apReq[r].id IN
  IF ~ apSees(p, id) THEN 404
  ELSE IF apReq[r].op \notin {"report", "withdraw"} /\ ~ mayVerify(p, apDocs[id]) THEN 403 ELSE 200
ApMayCurate(r) ==
  /\ apReq[r].at = "begun" /\ apReq[r].op \in Claims
  /\ \/ mayCurate(r) = 200 /\ apStep(r, [apReq[r] EXCEPT !.at = "may", !.doc = apDocs[apReq[r].id]])
     \/ mayCurate(r) # 200 /\ apAnswer(r, mayCurate(r), apReq[r])
     \/ apAnswer(r, 500, apReq[r])
  /\ UNCHANGED <<apStored, apWorld>>

\* The driver leaves alone what the caller may not read by now.
apWrites(r, f, v) ==
  IF apSees(apReq[r].p, apReq[r].id) THEN [f EXCEPT ![apReq[r].id] = v] ELSE f
\* One write each, and nothing of it when it fails.
ApResolve(r) ==
  /\ apReq[r].at = "may" /\ apReq[r].op = "resolve"
  /\ apReports' = apWrites(r, apReports, NoReports)
  /\ apAnswer(r, 204, apReq[r])
  /\ UNCHANGED <<apDocs, apCorrected, apVerified, apThumbs, apClock, apWorld>>
ApUnverify(r) ==
  /\ apReq[r].at = "may" /\ apReq[r].op = "unverify"
  /\ apVerified' = apWrites(r, apVerified, 0)
  /\ apAnswer(r, 204, apReq[r])
  /\ UNCHANGED <<apDocs, apCorrected, apReports, apThumbs, apClock, apWorld>>
ApSetOwner(r, next) ==
  /\ apReq[r].at = "may" /\ apReq[r].op = "setOwner"
  /\ LET id == apReq[r].id IN
     IF apSees(apReq[r].p, id)
     THEN /\ apCorrected' = [apCorrected EXCEPT ![id] =
               [owner |-> next, was |-> IF @ = None THEN apDocs[id].owner ELSE @.was]]
          /\ apDocs' = [apDocs EXCEPT ![id].owner = next]
     ELSE UNCHANGED <<apCorrected, apDocs>>
  /\ apAnswer(r, 200, [apReq[r] EXCEPT !.note = next])
  /\ UNCHANGED <<apReports, apVerified, apThumbs, apClock, apWorld>>
ApClaimFails(r) ==
  /\ apReq[r].at \in {"may", "noted"}
  /\ apAnswer(r, 500, apReq[r])
  /\ UNCHANGED <<apStored, apWorld>>

\* One report of each person, which they may take back; what stands afterwards
\* is read again, and left off when it cannot be.
apSays(r, now) ==
  /\ apReports' = apWrites(r, apReports, [apReports[apReq[r].id] EXCEPT ![apReq[r].p] = now])
  /\ apStep(r, [apReq[r] EXCEPT !.at = "wrote"])
  /\ apClock' = apClock + 1
  /\ UNCHANGED <<apDocs, apCorrected, apVerified, apThumbs, apWorld>>
ApReport(r) == apAsks(r, "report", "may") /\ apSays(r, apClock + 1)
ApTakeBack(r) == apAsks(r, "withdraw", "may") /\ apSays(r, 0)
ApReported(r) ==
  /\ apAsks(r, "report", "wrote") \/ apAsks(r, "withdraw", "wrote")
  /\ \E stands \in {0, IF apSees(apReq[r].p, apReq[r].id)
                         THEN Cardinality({p \in ApPeople : apReports[apReq[r].id][p] # 0}) ELSE 0} :
       apAnswer(r, 200, [apReq[r] EXCEPT !.note = stands])
  /\ UNCHANGED <<apStored, apWorld>>

\* Mutant of ApVerify: the reports are cleared before the claim is made.
ApVerifyAfter(r) ==
  /\ apReq[r].op = "verify"
  /\ \/ /\ apReq[r].at = "may"
        /\ apReports' = apWrites(r, apReports, NoReports)
        /\ apStep(r, [apReq[r] EXCEPT !.at = "wrote"])
        /\ UNCHANGED <<apDocs, apCorrected, apVerified, apThumbs, apClock, apWorld>>
     \/ /\ apReq[r].at = "wrote"
        /\ apVerified' = apWrites(r, apVerified, apClock + 1)
        /\ apClock' = apClock + 1
        /\ apAnswer(r, 200, [apReq[r] EXCEPT !.note = apClock + 1])
        /\ UNCHANGED <<apDocs, apCorrected, apReports, apThumbs, apWorld>>
\* As well as can be done: the claim is recorded already.
resolveAfterVerify(r) ==
  \/ apReports' = apWrites(r, apReports, NoReports) /\ apAnswer(r, 200, apReq[r])
  \/ UNCHANGED apReports /\ apAnswer(r, 200, [apReq[r] EXCEPT !.note = None])
\* The claim, and then the reports it answers.
ApVerify(r) ==
  /\ apReq[r].op = "verify"
  /\ \/ /\ apReq[r].at = "may"
        /\ apVerified' = apWrites(r, apVerified, apClock + 1)
        /\ apClock' = apClock + 1
        /\ apStep(r, [apReq[r] EXCEPT !.at = "wrote", !.note = apClock + 1])
        /\ UNCHANGED <<apDocs, apCorrected, apReports, apThumbs, apWorld>>
     \/ /\ apReq[r].at = "wrote"
        /\ resolveAfterVerify(r)
        /\ UNCHANGED <<apDocs, apCorrected, apVerified, apThumbs, apClock, apWorld>>

\* The driver's own undoing of a correction; other requests see it happen.
apClear(r) ==
  LET id == apReq[r].id
      stands == apSees(apReq[r].p, id) /\ apCorrected[id] # None
  IN /\ IF stands THEN /\ apDocs' = [apDocs EXCEPT ![id].owner = apCorrected[id].was]
                       /\ apCorrected' = [apCorrected EXCEPT ![id] = None]
        ELSE UNCHANGED <<apDocs, apCorrected>>
     /\ apReq' = [q \in ApRequests |->
          IF q = r THEN [apReq[r] EXCEPT !.at = "answered", !.status = 200]
          ELSE IF stands /\ apUnfinished(q) /\ apReq[q].id = id THEN [apReq[q] EXCEPT !.missed = TRUE] ELSE apReq[q]]
     /\ UNCHANGED <<apReports, apVerified, apThumbs, apClock, apWorld>>
correction(r) == IF apSees(apReq[r].p, apReq[r].id) THEN apCorrected[apReq[r].id] ELSE None
\* What the source said is in the correction that is about to go.  One that
\* cannot be read is taken for none, and the document's owner for the source's.
ApClearOwner(r) ==
  /\ apReq[r].op = "clearOwner"
  /\ \/ /\ apReq[r].at = "may"
        /\ \E c \in {correction(r), None} :
             apStep(r, [apReq[r] EXCEPT !.at = "noted", !.missed = @ \/ c # correction(r),
                        !.note = IF c = None THEN apReq[r].doc.owner ELSE c.was])
        /\ UNCHANGED <<apStored, apWorld>>
     \/ apReq[r].at = "noted" /\ apClear(r)

-----------------------------------------------------------------------------
\* A reader loses a document at its source; the index hears of it with the next
\* crawl, which also reports the owner the source has now.
ApWithdraw(p, id) ==
  /\ apChanges < ApMaxChanges
  /\ apChanges' = apChanges + 1
  /\ apMay' = apMay \ {<<p, id>>}
  /\ UNCHANGED <<apStored, apHeard, apCard, apReq>>
\* The answers given before that come to the end of their lifetime.
ApExpire(p, id) ==
  /\ <<p, id>> \in apHeard \ apMay
  /\ apHeard' = apHeard \ {<<p, id>>}
  /\ UNCHANGED <<apStored, apMay, apCard, apChanges, apReq>>
ApCrawl(id, owner) ==
  /\ apChanges < ApMaxChanges /\ apDocs[id] # None
  /\ apChanges' = apChanges + 1
  /\ LET doc == apDocs[id]
     IN apDocs' = [apDocs EXCEPT ![id] =
          [doc EXCEPT !.readers = {p \in ApPeople : <<p, id>> \in apMay}, !.ver = doc.ver + 1, !.said = owner,
           !.owner = IF apCorrected[id] = None THEN owner ELSE apCorrected[id].owner]]
  /\ apCorrected' = [apCorrected EXCEPT ![id] = IF @ = None THEN None ELSE [@ EXCEPT !.was = owner]]
  /\ apReq' = [q \in ApRequests |-> IF apUnfinished(q) /\ apReq[q].id = id
                                     THEN [apReq[q] EXCEPT !.said = @ \cup {owner}] ELSE apReq[q]]
  /\ UNCHANGED <<apReports, apVerified, apThumbs, apClock, apMay, apHeard, apCard>>
ApDelete(id) ==
  /\ apChanges < ApMaxChanges /\ apDocs[id] # None
  /\ apChanges' = apChanges + 1
  /\ apDocs' = [apDocs EXCEPT ![id] = None]
  /\ apCorrected' = [apCorrected EXCEPT ![id] = None]
  /\ apReports' = [apReports EXCEPT ![id] = NoReports]
  /\ apVerified' = [apVerified EXCEPT ![id] = 0]
  /\ UNCHANGED <<apThumbs, apClock, apMay, apHeard, apCard, apReq>>

apPageStep(r) ==
  \/ ApSearch(r) \/ ApSuggest(r) \/ ApDocuments(r) \/ ApFlagged(r) \/ ApRecent(r)
  \/ \E opens \in SUBSET ApIds : ApOpened(r, opens)
  \/ \E lost \in SUBSET ApIds, shown \in SUBSET ApIds : ApKeep(r, lost, shown)
  \/ \E fetched \in SUBSET ApIds : ApCurated(r, fetched)
  \/ \E lost \in SUBSET ApIds : ApCited(r, lost)
  \/ ApServe(r)
apPanelStep(r) ==
  \/ ApGet(r) \/ ApContent(r) \/ ApThumbnail(r)
  \/ \E lost \in SUBSET ApIds : ApStillReadable(r, lost)
apClaimStep(r) ==
  \/ ApMayCurate(r) \/ ApResolve(r) \/ ApUnverify(r) \/ ApClaimFails(r)
  \/ \E next \in ApPeople : ApSetOwner(r, next)
  \/ ApReport(r) \/ ApTakeBack(r) \/ ApReported(r) \/ ApVerify(r) \/ ApClearOwner(r)
ApNext ==
  \/ \E r \in ApRequests :
       \/ \E op \in Pages \cup Panels \cup Claims, p \in ApPeople, id \in ApIds : ApAuthenticate(r, op, p, id)
       \/ \E status \in {401, 503} : ApUnauthenticated(r, status)
       \/ \E status \in {200, 400, 501} : ApAnsweredAtOnce(r, status)
       \/ apPageStep(r) \/ apPanelStep(r) \/ apClaimStep(r)
  \/ \E id \in ApIds : \E p \in ApPeople : ApWithdraw(p, id) \/ ApExpire(p, id) \/ ApCrawl(id, p)
  \/ \E id \in ApIds : ApDelete(id)

ApSpec == ApInit /\ [][ApNext]_apVars

-----------------------------------------------------------------------------
apDone == {r \in ApRequests : apReq[r].at = "answered" /\ apReq[r].op # None}
apOn(req) == req.hits \cup req.quotes \cup req.cited

\* No response, in its rows, its quotes, the sources of its written answer or
\* its bytes, holds a document of a checked source that the source had withdrawn
\* from the asker longer than an answer's lifetime before the request came in,
\* however far behind the index is (handleSearch, documents, handleContent,
\* handleThumbnail).
WithdrawnNotShown == \A r \in apDone : apReq[r].status = 200 => apOn(apReq[r]) \subseteq apReq[r].could

\* A search that shows every match counts what it shows: the total never tells
\* somebody that a row they were not given matched (handleSearch).
TotalGivesNothingAway ==
  \A r \in apDone : LET req == apReq[r] IN
    req.op = "search" /\ req.status = 200 /\ Cardinality(req.saw) <= ApPage =>
      req.total = Cardinality(req.hits)

\* Every request that was for a document's content left a record, which names
\* the rows that were shown and, of a refusal, the one that was asked for; only a
\* request that could not be read or asked for nothing left none.  The sources a
\* written answer cites are in the response and not on the record
\* (accessed and the handlers that call it).
TrailIsWhole ==
  \A r \in apDone : LET req == apReq[r] IN
    req.op \in Pages \cup Panels =>
      IF req.rec = None THEN apOn(req) = {} /\ (req.status = 400 \/ req.op = "suggest")
      ELSE /\ req.rec.outcome = "served" => req.rec.docs = req.hits /\ req.status = 200
           /\ req.rec.outcome = "refused" => req.rec.docs = {req.id} /\ req.hits = {}

\* A document the asker could not read when the request came in, and cannot now,
\* is not there, whichever handler is asked: being forbidden something is for
\* those who can see it (mayCurate, readable, handleDocument).
UnreadableIsNotThere ==
  \A r \in apDone : LET req == apReq[r] IN
    req.op \in Panels \cup Claims /\ req.id \notin req.saw => req.status \in {400, 404, 500, 501}

\* When a claim has been answered and the reports it answers were cleared, what
\* still stands was reported after the claim, unless the claimant has lost the
\* document since.  A report made after the claim and before its clearing is
\* cleared with the others, and nothing here forbids it (handleVerify).
ClaimAnswersReports ==
  \A r \in apDone : LET req == apReq[r] IN
    req.op = "verify" /\ req.status = 200 /\ req.note # None /\ apVerified[req.id] = req.note
      /\ apSees(req.p, req.id) =>
      \A p \in ApPeople : apReports[req.id][p] # 0 => apReports[req.id][p] > req.note

\* The owner a cleared correction is answered with is one the source reported
\* while the request ran, unless another request cleared it meanwhile, the driver
\* could not read it or the asker has lost the document (handleClearOwner).
ClearedOwnerIsTheSources ==
  \A r \in apDone : LET req == apReq[r] IN
    req.op = "clearOwner" /\ req.status = 200 /\ ~ req.missed /\ apSees(req.p, req.id) => req.note \in req.said

\* A picture is never of an older version than the document was read at, also
\* when it comes out of the cache, if its source names versions (thumbnailKey).
PictureIsNotOld ==
  \A r \in apDone : LET req == apReq[r] IN
    req.op = "thumbnail" /\ req.status = 200 /\ req.id \in ApVersioned => req.note >= req.doc.ver

\* The values the variables take.
ApTypeOK ==
  /\ \A id \in ApIds : apDocs[id] # None =>
       apDocs[id].readers \subseteq ApPeople /\ apDocs[id].owner \in ApPeople
  /\ \A id \in ApIds : apCorrected[id] # None => apDocs[id].owner = apCorrected[id].owner
  /\ \A r \in ApRequests : apReq[r].total <= Cardinality(ApIds) /\ apOn(apReq[r]) \subseteq ApIds

\* No response shows what a checked source withdrew longer ago than an answer
\* lives, gives a hidden match away in its total or tells of an unreadable document;
\* every row shown is on the trail; and a claim, a cleared correction and a
\* versioned picture are what their answers say, with other requests and the crawl
\* between a handler's calls (api).
HandlersAnswerTrue ==
  /\ ApTypeOK
  /\ WithdrawnNotShown
  /\ TotalGivesNothingAway
  /\ TrailIsWhole
  /\ UnreadableIsNotThere
  /\ ClaimAnswersReports
  /\ ClearedOwnerIsTheSources
  /\ PictureIsNotOld
=============================================================================
