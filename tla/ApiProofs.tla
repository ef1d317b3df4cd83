------------------------------ MODULE ApiProofs ------------------------------
(***************************************************************************)
(* Proofs about the handlers and the trail they leave, for every number of *)
(* people, documents and requests at once: what a response may hold, what  *)
(* a claim does and what is left on the record (Api); and that the audit   *)
(* log keeps and gives back what it accepted, for every number of          *)
(* handlers, size of the queue and the buffer, and retention (Audit).      *)
(***************************************************************************)
EXTENDS Api, Audit, TLAPS, FiniteSetTheorems, SequenceTheorems

Ops == Pages \cup Panels \cup Claims
Places == {"idle", "begun", "opened", "found", "card", "cited", "ready", "got", "bytes",
           "may", "noted", "wrote", "answered"}
Requests ==
  [at: Places, op: Ops \cup {None}, p: ApPeople \cup {None}, id: ApIds \cup {None},
   doc: Docs \cup {None}, hits: SUBSET ApIds, quotes: SUBSET ApIds, cited: SUBSET ApIds,
   total: Int, status: Nat, rec: Trail \cup {None}, note: Nat \cup ApPeople \cup {None},
   could: SUBSET ApIds, saw: SUBSET ApIds, said: SUBSET ApPeople, missed: BOOLEAN]

(* What the handlers share.  The index may still list who the source has     *)
(* withdrawn and never the other way round; a correction is what the document *)
(* carries and remembers what the source says; whatever is written comes      *)
(* after what was; a picture is no older than what it is filed under.         *)
DocHolds(id) ==
  /\ apDocs[id] = None => apCorrected[id] = None
  /\ apDocs[id] # None =>
       /\ \A p \in ApPeople : <<p, id>> \in apMay => p \in apDocs[id].readers
       /\ apCorrected[id] = None => apDocs[id].owner = apDocs[id].said
       /\ apCorrected[id] # None => /\ apDocs[id].owner = apCorrected[id].owner
                                    /\ apDocs[id].said = apCorrected[id].was
  /\ apVerified[id] <= apClock /\ \A p \in ApPeople : apReports[id][p] <= apClock
WorldHolds ==
  /\ apDocs \in [ApIds -> Docs \cup {None}]
  /\ apCorrected \in [ApIds -> Corrections \cup {None}]
  /\ apReports \in [ApIds -> [ApPeople -> Nat]]
  /\ apVerified \in [ApIds -> Nat]
  /\ apClock \in Nat
  /\ \A id \in ApIds : DocHolds(id)
  /\ \A t \in apThumbs : t.key[2] \in Nat /\ t.picture \in Nat /\ t.picture >= t.key[2]

(* A request that got past its credential.                                   *)
Known(req) == req.at # "idle" /\ (req.at = "answered" => req.op # None)
Going(req) == req.at \notin {"idle", "answered"}

(* Where a request of each kind can be, and what it cannot hold by then.     *)
Placed(req) ==
  /\ Known(req) => req.op \in Ops /\ req.p \in ApPeople /\ req.id \in ApIds
  /\ req.at = "idle" => req.op = None
  /\ req.at = "opened" => req.op = "recent"
  /\ req.at = "found" => req.op \in Pages
  /\ req.at \in {"card", "cited"} => req.op = "search"
  /\ req.at = "ready" => req.op \in Pages \cup Panels
  /\ req.at \in {"got", "bytes"} => req.op \in Panels
  /\ req.at \in {"may", "noted", "wrote"} => req.op \in Claims
  /\ req.at \in {"idle", "begun", "got", "may", "noted", "wrote"} => req.hits = {}
  /\ req.at \notin {"found", "card", "ready", "answered"} => req.quotes = {}
  /\ req.at \notin {"cited", "ready", "answered"} => req.cited = {}
  /\ req.at # "answered" => req.rec = None
  /\ req.total <= Cardinality(ApIds)

(* What the sources and the index would allow now is what they allowed when   *)
(* the request came in, or less; and what was put to the sources is in it.    *)
Allowed(req) ==
  /\ Known(req) => \A i \in ApIds : i \in stillAllowed(req.p) => i \in req.could
  /\ Known(req) => \A i \in ApIds : apSees(req.p, i) => i \in req.saw
  /\ req.at \in {"card", "ready", "bytes"} => apOn(req) \subseteq req.could
  /\ req.at = "cited" => req.hits \subseteq req.could
  /\ req.at \in {"got", "bytes", "may", "noted", "wrote"} => req.id \in req.saw
  /\ req.at = "ready" /\ req.op \in Panels => req.id \in req.saw

(* A search all of whose matches fit on the page has counted its rows.       *)
Counted(req) ==
  req.op = "search" /\ req.at \in {"found", "card", "cited", "ready"} /\ Cardinality(req.saw) <= ApPage =>
    req.total = Cardinality(req.hits)

(* A claim was written under a number of its own.                            *)
Claimed(req) ==
  /\ req.op = "verify" /\ req.at = "wrote" => req.note \in Nat \ {0} /\ req.note <= apClock
  /\ req.op = "verify" /\ req.at = "answered" /\ req.status = 200 /\ req.note # None =>
       req.note \in Nat \ {0} /\ req.note <= apClock

(* What an undone correction is answered with was known before it was undone. *)
Cleared(req) ==
  /\ Going(req) /\ apDocs[req.id] # None => apDocs[req.id].said \in req.said
  /\ req.at = "may" => req.doc \in Docs
  /\ req.op = "clearOwner" /\ req.at = "may" /\ ~ req.missed /\ apDocs[req.id] # None
       /\ apCorrected[req.id] = None => req.doc.owner \in req.said
  /\ req.op = "clearOwner" /\ req.at = "noted" /\ ~ req.missed /\ apSees(req.p, req.id) =>
       req.note \in req.said

(* The document read first is no newer than what is there.                   *)
Pictured(req) ==
  /\ req.at \in {"got", "bytes"} =>
       /\ req.doc \in Docs
       /\ apDocs[req.id] # None => req.doc.ver <= apDocs[req.id].ver
  /\ req.at = "ready" /\ req.op = "thumbnail" =>
       req.doc \in Docs /\ req.note \in Nat /\ (req.id \in ApVersioned => req.note >= req.doc.ver)

(* The properties, of one request.                                           *)
AnsweredTrue(req) ==
  req.at = "answered" /\ req.op # None =>
    /\ req.status = 200 => apOn(req) \subseteq req.could
    /\ req.op = "search" /\ req.status = 200 /\ Cardinality(req.saw) <= ApPage =>
         req.total = Cardinality(req.hits)
    /\ req.op \in Pages \cup Panels =>
         IF req.rec = None THEN apOn(req) = {} /\ (req.status = 400 \/ req.op = "suggest")
         ELSE /\ req.rec.outcome = "served" => req.rec.docs = req.hits /\ req.status = 200
              /\ req.rec.outcome = "refused" => req.rec.docs = {req.id} /\ req.hits = {}
    /\ req.op \in Panels \cup Claims /\ req.id \notin req.saw => req.status \in {400, 404, 500, 501}
    /\ req.op = "verify" /\ req.status = 200 /\ req.note # None /\ apVerified[req.id] = req.note
         /\ apSees(req.p, req.id) =>
         \A p \in ApPeople : apReports[req.id][p] # 0 => apReports[req.id][p] > req.note
    /\ req.op = "clearOwner" /\ req.status = 200 /\ ~ req.missed /\ apSees(req.p, req.id) =>
         req.note \in req.said
    /\ req.op = "thumbnail" /\ req.status = 200 /\ req.id \in ApVersioned => req.note >= req.doc.ver

Holds(req) ==
  /\ req \in Requests
  /\ Placed(req) /\ Allowed(req) /\ Counted(req) /\ Claimed(req) /\ Cleared(req) /\ Pictured(req)
  /\ AnsweredTrue(req)

ApInv ==
  /\ WorldHolds
  /\ DOMAIN apReq = ApRequests
  /\ \A r \in ApRequests : Holds(apReq[r])

-----------------------------------------------------------------------------
(* The invariant says what is promised, and holds at first.                 *)

LEMMA Consequence == ApInv => HandlersAnswerTrue
<1>. SUFFICES ASSUME ApInv PROVE HandlersAnswerTrue
  OBVIOUS
<1>1. ApTypeOK
  <2>1. ASSUME NEW id \in ApIds, apDocs[id] # None
        PROVE  apDocs[id].readers \subseteq ApPeople /\ apDocs[id].owner \in ApPeople
    BY <2>1 DEF ApInv, WorldHolds, Docs
  <2>2. ASSUME NEW id \in ApIds, apCorrected[id] # None PROVE apDocs[id].owner = apCorrected[id].owner
    BY <2>2 DEF ApInv, WorldHolds, DocHolds
  <2>3. ASSUME NEW r \in ApRequests
        PROVE  apReq[r].total <= Cardinality(ApIds) /\ apOn(apReq[r]) \subseteq ApIds
    BY DEF ApInv, Holds, Placed, Requests, apOn
  <2>. QED BY <2>1, <2>2, <2>3 DEF ApTypeOK
<1>2. ASSUME NEW r \in apDone PROVE apReq[r].at = "answered" /\ apReq[r].op # None /\ AnsweredTrue(apReq[r])
  BY DEF ApInv, Holds, apDone
<1>3. WithdrawnNotShown /\ TotalGivesNothingAway
  BY <1>2 DEF AnsweredTrue, WithdrawnNotShown, TotalGivesNothingAway
<1>4. TrailIsWhole
  BY <1>2 DEF AnsweredTrue, TrailIsWhole
<1>5. UnreadableIsNotThere
  BY <1>2 DEF AnsweredTrue, UnreadableIsNotThere
<1>6. ClaimAnswersReports
  BY <1>2 DEF AnsweredTrue, ClaimAnswersReports
<1>7. ClearedOwnerIsTheSources
  BY <1>2 DEF AnsweredTrue, ClearedOwnerIsTheSources
<1>8. PictureIsNotOld
  BY <1>2 DEF AnsweredTrue, PictureIsNotOld
<1>. QED BY <1>1, <1>3, <1>4, <1>5, <1>6, <1>7, <1>8 DEF HandlersAnswerTrue

LEMMA FullSize == Cardinality(ApIds) \in Nat /\ ApPage \in Nat \ {0}
BY FS_CardinalityType, ApAssumption

LEMMA InitInv == ApInit => ApInv
<1>. SUFFICES ASSUME ApInit PROVE ApInv
  OBVIOUS
<1>1. NoReports \in [ApPeople -> Nat]
  BY DEF NoReports
<1>2. PICK author \in ApPeople, owner \in ApPeople, other \in ApPeople :
        /\ owner # other
        /\ apCorrected \in [ApIds -> {None, [owner |-> other, was |-> owner]}]
        /\ apDocs = [id \in ApIds |-> [readers |-> ApPeople, ver |-> 1, author |-> author, said |-> owner,
                      owner |-> IF apCorrected[id] = None THEN owner ELSE other]]
        /\ apReports \in [ApIds -> {NoReports, [NoReports EXCEPT ![other] = 1]}]
  BY DEF ApInit
<1>3. ASSUME NEW id \in ApIds PROVE apDocs[id] \in Docs /\ apCorrected[id] \in Corrections \cup {None}
  BY <1>2 DEF Docs, Corrections
<1>4. ASSUME NEW id \in ApIds PROVE apReports[id] \in [ApPeople -> 0 .. 1]
  BY <1>1, <1>2 DEF NoReports
<1>5. WorldHolds
  <2>1. ASSUME NEW id \in ApIds PROVE DocHolds(id)
    <3>1. apDocs[id] # None
      BY <1>3, ApAssumption
    <3>2. \A p \in ApPeople : p \in apDocs[id].readers
      BY <1>2
    <3>3. apCorrected[id] = None => apDocs[id].owner = apDocs[id].said
      BY <1>2
    <3>4. apCorrected[id] # None => apDocs[id].owner = apCorrected[id].owner /\ apDocs[id].said = apCorrected[id].was
      BY <1>2
    <3>5. apVerified[id] <= apClock /\ \A p \in ApPeople : apReports[id][p] <= apClock
      BY <1>4 DEF ApInit
    <3>. QED BY <3>1, <3>2, <3>3, <3>4, <3>5 DEF DocHolds
  <2>2. apDocs \in [ApIds -> Docs \cup {None}] /\ apCorrected \in [ApIds -> Corrections \cup {None}]
    BY <1>2, <1>3
  <2>3. apReports \in [ApIds -> [ApPeople -> Nat]]
    BY <1>1, <1>2 DEF NoReports
  <2>. QED BY <2>1, <2>2, <2>3 DEF WorldHolds, ApInit
<1>6. apNew \in Requests
  BY DEF apNew, Requests, Places
<1>7. Placed(apNew)
  BY FullSize DEF apNew, Placed, Known
<1>8. Allowed(apNew) /\ Counted(apNew) /\ Claimed(apNew) /\ Cleared(apNew) /\ Pictured(apNew) /\ AnsweredTrue(apNew)
  BY DEF apNew, Allowed, Known, Counted, Claimed, Cleared, Going, Pictured, AnsweredTrue
<1>. QED BY <1>5, <1>6, <1>7, <1>8 DEF ApInv, Holds, ApInit
-----------------------------------------------------------------------------
(* What the rest of the world may do to a request that waits.               *)

\* The sources and the index take readers away, documents that went do not come
\* back, versions grow, and what is written is numbered after what was.
Moves ==
  /\ WorldHolds'
  /\ apHeard' \subseteq apHeard
  /\ \A p \in ApPeople, i \in ApIds : apSees(p, i)' => apSees(p, i)
  /\ \A i \in ApIds : apDocs'[i] # None => apDocs[i] # None /\ apDocs'[i].ver >= apDocs[i].ver
  /\ apClock' >= apClock
  /\ \A i \in ApIds : apVerified'[i] \in {0, apVerified[i]} \/ apVerified'[i] > apClock
  /\ \A i \in ApIds, p \in ApPeople :
       apReports'[i][p] \in {0, apReports[i][p]} \/ apReports'[i][p] > apClock

\* A request that waits hears of what the source says now, and that a correction
\* was undone.
Hears(req, new) ==
  /\ new \in Requests
  /\ \E said \in SUBSET ApPeople, missed \in BOOLEAN : new = [req EXCEPT !.said = said, !.missed = missed]
  /\ req.said \subseteq new.said /\ (req.missed => new.missed)
  /\ Going(req) /\ apDocs'[req.id] # None =>
       /\ apDocs'[req.id].said \in {apDocs[req.id].said} \cup new.said
       /\ apCorrected'[req.id] = None => apCorrected[req.id] = None \/ new.missed

LEMMA HeardFields ==
  ASSUME NEW req \in Requests, NEW new, Hears(req, new)
  PROVE  /\ new.at = req.at /\ new.op = req.op /\ new.p = req.p /\ new.id = req.id /\ new.doc = req.doc
         /\ new.hits = req.hits /\ new.quotes = req.quotes /\ new.cited = req.cited /\ new.total = req.total
         /\ new.status = req.status /\ new.rec = req.rec /\ new.note = req.note
         /\ new.could = req.could /\ new.saw = req.saw
BY DEF Hears, Requests

LEMMA Keeps ==
  ASSUME ApInv, Moves, NEW req, Holds(req), NEW new, Hears(req, new)
  PROVE  Holds(new)'
<1>. DEFINE same ==
         /\ new.at = req.at /\ new.op = req.op /\ new.p = req.p /\ new.id = req.id /\ new.doc = req.doc
         /\ new.hits = req.hits /\ new.quotes = req.quotes /\ new.cited = req.cited /\ new.total = req.total
         /\ new.status = req.status /\ new.rec = req.rec /\ new.note = req.note
         /\ new.could = req.could /\ new.saw = req.saw
<1>1. same /\ req \in Requests /\ new \in Requests
  BY HeardFields, ZenonT(40) DEF Holds, Hears
<1>2. Known(req) => req.op \in Ops /\ req.p \in ApPeople /\ req.id \in ApIds
  BY DEF Holds, Placed
<1>3. Placed(new)'
  BY <1>1 DEF Holds, Placed, Known
<1>4. Allowed(new)'
  BY <1>1, <1>2 DEF Holds, Allowed, Known, apOn, Moves, stillAllowed
<1>5. Counted(new)'
  BY <1>1 DEF Holds, Counted
<1>6. Claimed(new)'
  BY <1>1 DEF Holds, Claimed, Moves, ApInv, WorldHolds
<1>7. Cleared(new)'
  <2>1. Going(req) => Known(req)
    BY DEF Going, Known
  <2>2. Going(new) /\ apDocs'[new.id] # None => apDocs'[new.id].said \in new.said
    BY <1>1, <1>2, <2>1 DEF Holds, Cleared, Going, Hears, Moves
  <2>3. new.at = "may" => new.doc \in Docs
    BY <1>1 DEF Holds, Cleared
  <2>4. ASSUME new.op = "clearOwner", new.at = "may", ~ new.missed, apDocs'[new.id] # None, apCorrected'[new.id] = None
        PROVE  new.doc.owner \in new.said
    BY <1>1, <1>2, <2>1, <2>4 DEF Holds, Cleared, Going, Hears, Moves
  <2>5. ASSUME new.op = "clearOwner", new.at = "noted", ~ new.missed, apSees(new.p, new.id)'
        PROVE  new.note \in new.said
    BY <1>1, <1>2, <2>1, <2>5 DEF Holds, Cleared, Going, Hears, Moves
  <2>. QED BY <2>2, <2>3, <2>4, <2>5 DEF Cleared, Going
<1>8. Pictured(new)'
  <2>1. ASSUME new.at \in {"got", "bytes"}
        PROVE  new.doc \in Docs /\ (apDocs'[new.id] # None => new.doc.ver <= apDocs'[new.id].ver)
    <3>1. req.id \in ApIds /\ new.doc \in Docs
      BY <1>1, <1>2, <2>1 DEF Known, Holds, Pictured
    <3>2. SUFFICES ASSUME apDocs'[new.id] # None PROVE new.doc.ver <= apDocs'[new.id].ver
      BY <3>1
    <3>3. apDocs[req.id] # None /\ apDocs'[req.id].ver >= apDocs[req.id].ver
      BY <1>1, <3>1, <3>2 DEF Moves
    <3>4. req.doc.ver <= apDocs[req.id].ver
      BY <1>1, <2>1, <3>3 DEF Holds, Pictured
    <3>5. req.doc.ver \in Nat /\ apDocs[req.id].ver \in Nat /\ apDocs'[req.id].ver \in Nat
      BY <1>1, <3>1, <3>2, <3>3 DEF Docs, Moves, ApInv, WorldHolds
    <3>. QED BY <1>1, <3>3, <3>4, <3>5
  <2>. QED BY <1>1, <2>1 DEF Holds, Pictured
<1>9. AnsweredTrue(new)'
  <2>. SUFFICES ASSUME new.at = "answered", new.op # None PROVE AnsweredTrue(new)'
    BY DEF AnsweredTrue
  <2>1. req.op \in Ops /\ req.p \in ApPeople /\ req.id \in ApIds /\ AnsweredTrue(req) /\ req.at = "answered" /\ req.op # None
    BY <1>1, <1>2 DEF Known, Holds
  <2>2. ASSUME new.op = "verify", new.status = 200, new.note # None, apVerified'[new.id] = new.note,
               apSees(new.p, new.id)', NEW p \in ApPeople, apReports'[new.id][p] # 0
        PROVE  apReports'[new.id][p] > new.note
    <3>1. new.note \in Nat \ {0} /\ new.note <= apClock
      BY <1>1, <2>1, <2>2 DEF Holds, Claimed
    <3>2. apVerified[req.id] = req.note
      BY <1>1, <2>1, <2>2, <3>1 DEF Moves, ApInv, WorldHolds
    <3>3. apSees(req.p, req.id)
      BY <1>1, <2>1, <2>2 DEF Moves
    <3>4. apReports[req.id][p] # 0 => apReports[req.id][p] > req.note
      BY <1>1, <2>1, <2>2, <3>2, <3>3 DEF AnsweredTrue
    <3>5. apReports[req.id][p] \in Nat /\ apReports'[req.id][p] \in Nat /\ apClock \in Nat
      BY <2>1 DEF Moves, ApInv, WorldHolds
    <3>. QED BY <1>1, <2>1, <2>2, <3>1, <3>4, <3>5 DEF Moves
  <2>3. ASSUME new.op = "clearOwner", new.status = 200, ~ new.missed, apSees(new.p, new.id)'
        PROVE  new.note \in new.said
    <3>1. ~ req.missed /\ apSees(req.p, req.id)
      BY <1>1, <2>1, <2>3 DEF Hears, Moves
    <3>. QED BY <1>1, <2>1, <2>3, <3>1 DEF AnsweredTrue, Hears
  <2>. QED BY <1>1, <2>1, <2>2, <2>3 DEF AnsweredTrue, apOn
<1>. QED BY <1>1, <1>3, <1>4, <1>5, <1>6, <1>7, <1>8, <1>9 DEF Holds
\* A request takes its step, and what it does to the world is only what the
\* others may see.
LEMMA StepsTo ==
  ASSUME ApInv, Moves, NEW r \in ApRequests, NEW next, Holds(next)', apStep(r, next),
         \A q \in ApRequests \ {r} : Hears(apReq[q], apReq[q])
  PROVE  ApInv'
<1>1. DOMAIN apReq' = ApRequests /\ apReq'[r] = next /\ \A q \in ApRequests \ {r} : apReq'[q] = apReq[q]
  BY DEF apStep, ApInv
<1>2. ASSUME NEW q \in ApRequests, q # r PROVE Holds(apReq[q])'
  <2>1. Holds(apReq[q]) /\ Hears(apReq[q], apReq'[q])
    BY <1>1, <1>2 DEF ApInv
  <2>2. ASSUME NEW new, new = apReq'[q] PROVE Holds(new)'
    BY <2>1, <2>2, Keeps
  <2>. QED BY <2>2 DEF Holds
<1>3. Holds(apReq[r])'
  <2>1. ASSUME NEW new, new = apReq'[r] PROVE Holds(new)'
    BY <1>1, <2>1
  <2>. QED BY <2>1
<1>. QED BY <1>1, <1>2, <1>3 DEF ApInv, Moves

LEMMA StepsAndMoves ==
  ASSUME ApInv, Moves, NEW r \in ApRequests, NEW next, Holds(next), apStep(r, next), Hears(next, next),
         \A q \in ApRequests \ {r} : Hears(apReq[q], apReq[q])
  PROVE  ApInv'
<1>1. Holds(next)'
  BY Keeps
<1>. QED BY <1>1, StepsTo

\* Whoever hears nothing new goes on as before.
LEMMA HearsNothing ==
  ASSUME NEW req \in Requests,
         Going(req) /\ apDocs'[req.id] # None =>
           /\ apDocs'[req.id].said = apDocs[req.id].said
           /\ apCorrected'[req.id] = None => apCorrected[req.id] = None
  PROVE  Hears(req, req)
<1>1. req = [req EXCEPT !.said = req.said, !.missed = req.missed]
  BY DEF Requests
<1>2. req.said \in SUBSET ApPeople /\ req.missed \in BOOLEAN
  BY DEF Requests
<1>3. \E said \in SUBSET ApPeople, missed \in BOOLEAN : req = [req EXCEPT !.said = said, !.missed = missed]
  BY <1>1, <1>2
<1>. QED BY <1>3 DEF Hears

\* Nothing of what the handlers share changes.
LEMMA StillMoves ==
  ASSUME ApInv, UNCHANGED <<apStored, apWorld>>
  PROVE  Moves /\ \A req \in Requests : Hears(req, req)
<1>1. /\ apDocs' = apDocs /\ apCorrected' = apCorrected /\ apReports' = apReports /\ apVerified' = apVerified
      /\ apThumbs' = apThumbs /\ apClock' = apClock /\ apMay' = apMay /\ apHeard' = apHeard
  BY DEF apStored, apWorld
<1>2. WorldHolds'
  BY <1>1 DEF ApInv, WorldHolds, DocHolds
<1>3. \A i \in ApIds : apDocs[i] # None => apDocs[i].ver \in Nat
  BY DEF ApInv, WorldHolds, Docs
<1>4. apClock \in Nat
  BY DEF ApInv, WorldHolds
<1>5. Moves
  BY <1>1, <1>2, <1>3, <1>4 DEF Moves, apSees
<1>6. ASSUME NEW req \in Requests PROVE Hears(req, req)
  BY <1>1, HearsNothing
<1>. QED BY <1>5, <1>6

\* Most steps change nothing but the request.
LEMMA Quiet ==
  ASSUME ApInv, UNCHANGED <<apStored, apWorld>>, NEW r \in ApRequests, NEW next, Holds(next), apStep(r, next)
  PROVE  ApInv'
<1>1. next \in Requests /\ \A q \in ApRequests : apReq[q] \in Requests
  BY DEF Holds, ApInv
<1>. QED BY <1>1, StillMoves, StepsAndMoves
-----------------------------------------------------------------------------
(* Credentials, and requests that cannot be read.                           *)

LEMMA AuthenticateInv ==
  ASSUME ApInv, NEW r \in ApRequests, NEW op \in Ops, NEW p \in ApPeople, NEW id \in ApIds,
         ApAuthenticate(r, op, p, id)
  PROVE  ApInv'
<1>. DEFINE req == apReq[r]
            could == stillAllowed(p)
            said == IF apDocs[id] = None THEN {} ELSE {apDocs[id].said}
            next == [req EXCEPT !.at = "begun", !.op = op, !.p = p, !.id = id, !.could = could,
                                !.saw = apReadable(p), !.said = said]
<1>1. apStep(r, next) /\ UNCHANGED <<apStored, apWorld>> /\ req.at = "idle"
  BY DEF ApAuthenticate
<1>2. req \in Requests /\ Holds(req)
  BY DEF ApInv, Holds
<1>3. said \in SUBSET ApPeople /\ could \in SUBSET ApIds /\ apReadable(p) \in SUBSET ApIds
  BY DEF ApInv, WorldHolds, Docs, apReadable, stillAllowed
<1>. HIDE DEF could, said
<1>4. next \in Requests
  BY <1>2, <1>3 DEF Requests, Places
<1>5. /\ next.at = "begun" /\ next.op = op /\ next.p = p /\ next.id = id /\ next.could = could
      /\ next.saw = apReadable(p) /\ next.said = said
      /\ next.hits = req.hits /\ next.quotes = req.quotes /\ next.cited = req.cited
      /\ next.rec = req.rec /\ next.total = req.total
  BY <1>2 DEF Requests
<1>. HIDE DEF next
<1>6. Placed(next)
  BY <1>1, <1>2, <1>5 DEF Holds, Placed, Known
<1>7. Allowed(next)
  BY <1>5 DEF Allowed, Known, could, apReadable
<1>8. Cleared(next)
  BY <1>5 DEF Cleared, said
<1>9. Counted(next) /\ Claimed(next) /\ Pictured(next) /\ AnsweredTrue(next)
  BY <1>5 DEF Counted, Claimed, Pictured, AnsweredTrue
<1>. QED BY <1>1, <1>4, <1>6, <1>7, <1>8, <1>9, Quiet DEF Holds

\* A status without a record is the whole answer where nothing was looked at.
Plain(req, status) ==
  /\ req.op # None =>
       /\ req.at # "idle" /\ req.hits = {} /\ req.quotes = {} /\ req.cited = {}
       /\ req.op = "search" => status # 200
       /\ req.op \in Pages \cup Panels => req.rec = None /\ (status = 400 \/ req.op = "suggest")
       /\ req.op \in Panels \cup Claims => status \in {400, 404, 500, 501} \/ req.id \in req.saw
  /\ req.op \in {"verify", "clearOwner", "thumbnail"} => status # 200

LEMMA AnswersPlainly ==
  ASSUME ApInv, NEW r \in ApRequests, NEW status \in Nat, apAnswer(r, status, apReq[r]),
         UNCHANGED <<apStored, apWorld>>, Plain(apReq[r], status)
  PROVE  ApInv'
<1>. DEFINE req == apReq[r]
            next == [req EXCEPT !.at = "answered", !.status = status]
<1>1. apStep(r, next)
  BY DEF apAnswer
<1>2. req \in Requests /\ Holds(req)
  BY DEF ApInv, Holds
<1>4. next \in Requests
  BY <1>2 DEF Requests, Places
<1>5. /\ next.at = "answered" /\ next.status = status /\ next.op = req.op /\ next.p = req.p /\ next.id = req.id
      /\ next.could = req.could /\ next.saw = req.saw /\ next.said = req.said /\ next.doc = req.doc
      /\ next.hits = req.hits /\ next.quotes = req.quotes /\ next.cited = req.cited
      /\ next.rec = req.rec /\ next.total = req.total /\ next.note = req.note /\ next.missed = req.missed
  BY <1>2 DEF Requests
<1>. HIDE DEF next
<1>6. Placed(next)
  BY <1>2, <1>5 DEF Holds, Placed, Known
<1>7. Allowed(next)
  BY <1>2, <1>5 DEF Holds, Allowed, Known, Plain
<1>8. Cleared(next) /\ Counted(next) /\ Claimed(next) /\ Pictured(next)
  BY <1>5 DEF Cleared, Going, Counted, Claimed, Pictured, Plain
<1>9. AnsweredTrue(next)
  BY <1>5 DEF AnsweredTrue, apOn, Plain
<1>. QED BY <1>1, <1>4, <1>6, <1>7, <1>8, <1>9, Quiet DEF Holds

LEMMA UnauthenticatedInv ==
  ASSUME ApInv, NEW r \in ApRequests, NEW status \in {401, 503}, ApUnauthenticated(r, status)
  PROVE  ApInv'
<1>1. apReq[r].op = None
  BY DEF ApInv, Holds, Placed, ApUnauthenticated
<1>2. Plain(apReq[r], status)
  BY <1>1 DEF Plain
<1>. QED BY <1>2, AnswersPlainly DEF ApUnauthenticated

LEMMA AnsweredAtOnceInv ==
  ASSUME ApInv, NEW r \in ApRequests, NEW status \in {200, 400, 501}, ApAnsweredAtOnce(r, status)
  PROVE  ApInv'
<1>1. Placed(apReq[r]) /\ apReq[r].at = "begun"
  BY DEF ApInv, Holds, ApAnsweredAtOnce
<1>2. apReq[r].hits = {} /\ apReq[r].quotes = {} /\ apReq[r].cited = {} /\ apReq[r].rec = None
  BY <1>1 DEF Placed
<1>3. Plain(apReq[r], status)
  BY <1>1, <1>2 DEF Plain, ApAnsweredAtOnce, Pages, Panels, Claims, Parsed
<1>4. status \in Nat
  OBVIOUS
<1>5. apAnswer(r, status, apReq[r]) /\ UNCHANGED <<apStored, apWorld>>
  BY DEF ApAnsweredAtOnce
<1>. QED BY <1>3, <1>4, <1>5, AnswersPlainly
-----------------------------------------------------------------------------
(* A page.                                                                  *)

\* The request with what was found, and with its answer and record.
foundIn(req, hits, quotes, total) ==
  [req EXCEPT !.at = "found", !.hits = hits, !.quotes = quotes, !.total = total]
recordedIn(req, rec, status) ==
  [req EXCEPT !.rec = rec, !.hits = {}, !.at = "answered", !.status = status]
servedIn(req, rec, status) == [req EXCEPT !.rec = rec, !.at = "answered", !.status = status]

LEMMA Served ==
  ASSUME NEW req \in Requests, NEW rec \in Trail \cup {None}, NEW status \in Nat
  PROVE  servedIn(req, rec, status) \in Requests
BY DEF servedIn, Requests, Places

LEMMA Recorded ==
  ASSUME NEW req \in Requests, NEW rec \in Trail \cup {None}, NEW status \in Nat
  PROVE  recordedIn(req, rec, status) \in Requests
BY DEF recordedIn, Requests, Places

LEMMA Found ==
  ASSUME NEW req \in Requests, NEW hits \in SUBSET ApIds, NEW quotes \in SUBSET ApIds, NEW total \in Int
  PROVE  foundIn(req, hits, quotes, total) \in Requests
BY DEF foundIn, Requests, Places

\* Where a failed or an empty page is the answer, nothing was drawn yet.
LEMMA FailsInv ==
  ASSUME ApInv, NEW r \in ApRequests, NEW status \in {200, 500}, NEW outcome \in {"served", "failed"},
         apFails(r, status, outcome), apReq[r].at \in {"begun", "opened"}, apReq[r].op \in Pages,
         status = 200 => apReq[r].op # "search", outcome = "served" => status = 200
  PROVE  ApInv'
<1>. DEFINE req == apReq[r]
            rec == apRecord(outcome, {}, 0)
            next == recordedIn(req, rec, status)
<1>1. req \in Requests /\ Holds(req)
  BY DEF ApInv, Holds
<1>2. apStep(r, next) /\ UNCHANGED <<apStored, apWorld>>
  BY <1>1 DEF apFails, apAnswer, apStep, Requests, recordedIn
<1>3. rec \in Trail /\ rec.outcome = outcome /\ rec.docs = {} /\ rec # None
  BY ApAssumption DEF apRecord, Trail
<1>. HIDE DEF rec
<1>4. next \in Requests
  BY <1>1, <1>3, Recorded
<1>5. /\ next.at = "answered" /\ next.status = status /\ next.op = req.op /\ next.p = req.p /\ next.id = req.id
      /\ next.could = req.could /\ next.saw = req.saw /\ next.hits = {} /\ next.quotes = req.quotes
      /\ next.cited = req.cited /\ next.rec = rec /\ next.total = req.total
  BY <1>1 DEF Requests, recordedIn, foundIn
<1>6. req.quotes = {} /\ req.cited = {} /\ req.at # "idle" /\ Placed(req) /\ Allowed(req)
  BY <1>1 DEF Holds, Placed
<1>. HIDE DEF next
<1>7. Placed(next)
  BY <1>5, <1>6 DEF Placed, Known
<1>8. Allowed(next)
  BY <1>5, <1>6 DEF Allowed, Known
<1>9. req.op \notin Panels \cup Claims
  BY DEF Pages, Panels, Claims
<1>10. Cleared(next) /\ Counted(next) /\ Claimed(next) /\ Pictured(next)
  BY <1>5, <1>9 DEF Cleared, Going, Counted, Claimed, Pictured, Panels, Claims
<1>11. AnsweredTrue(next)
  BY <1>3, <1>5, <1>6, <1>9 DEF AnsweredTrue, apOn, Panels, Claims
<1>. QED BY <1>2, <1>4, <1>7, <1>8, <1>10, <1>11, Quiet DEF Holds

LEMMA FoundInv ==
  ASSUME ApInv, NEW r \in ApRequests, NEW hits \in SUBSET ApIds, NEW quotes \in SUBSET ApIds, NEW total \in Nat,
         apFound(r, hits, quotes, total), apReq[r].at \in {"begun", "opened"}, apReq[r].op \in Pages,
         total <= Cardinality(ApIds),
         apReq[r].op = "search" /\ Cardinality(apReq[r].saw) <= ApPage => total = Cardinality(hits)
  PROVE  ApInv'
<1>. DEFINE req == apReq[r]
            next == foundIn(req, hits, quotes, total)
<1>1. req \in Requests /\ Holds(req)
  BY DEF ApInv, Holds
<1>2. apStep(r, next) /\ UNCHANGED <<apStored, apWorld>>
  BY DEF apFound, foundIn
<1>4. next \in Requests
  BY <1>1, Found
<1>5. /\ next.at = "found" /\ next.op = req.op /\ next.p = req.p /\ next.id = req.id /\ next.said = req.said
      /\ next.could = req.could /\ next.saw = req.saw /\ next.hits = hits /\ next.quotes = quotes
      /\ next.cited = req.cited /\ next.rec = req.rec /\ next.total = total
  BY <1>1 DEF Requests, recordedIn, foundIn
<1>6. req.cited = {} /\ req.rec = None /\ Placed(req) /\ Allowed(req) /\ Cleared(req)
  BY <1>1 DEF Holds, Placed
<1>. HIDE DEF next
<1>7. Placed(next)
  BY <1>5, <1>6 DEF Placed, Known
<1>8. Allowed(next)
  BY <1>5, <1>6 DEF Allowed, Known
<1>9. Cleared(next)
  BY <1>5, <1>6 DEF Cleared, Going
<1>10. Counted(next) /\ Claimed(next) /\ Pictured(next) /\ AnsweredTrue(next)
  BY <1>5 DEF Counted, Claimed, Pictured, AnsweredTrue
<1>. QED BY <1>2, <1>4, <1>7, <1>8, <1>9, <1>10, Quiet DEF Holds

\* What somebody may read has a size, and was in the index when they came.
LEMMA Readables ==
  ASSUME ApInv, NEW req, Holds(req), Known(req)
  PROVE  /\ apReadable(req.p) \subseteq req.saw /\ apReadable(req.p) \subseteq ApIds
         /\ IsFiniteSet(req.saw) /\ Cardinality(req.saw) \in Nat
         /\ IsFiniteSet(apReadable(req.p)) /\ Cardinality(apReadable(req.p)) \in 0 .. Cardinality(ApIds)
         /\ Cardinality(apReadable(req.p)) <= Cardinality(req.saw)
<1>1. apReadable(req.p) \subseteq req.saw /\ apReadable(req.p) \subseteq ApIds /\ req.saw \subseteq ApIds
  BY DEF Holds, Allowed, apReadable, Requests
<1>2. IsFiniteSet(req.saw) /\ Cardinality(req.saw) \in Nat
  BY <1>1, ApAssumption, FS_Subset, FS_CardinalityType
<1>3. IsFiniteSet(apReadable(req.p)) /\ Cardinality(apReadable(req.p)) \in Nat
  BY <1>1, ApAssumption, FS_Subset, FS_CardinalityType
<1>4. Cardinality(apReadable(req.p)) <= Cardinality(ApIds) /\ Cardinality(apReadable(req.p)) <= Cardinality(req.saw)
  BY <1>1, <1>2, ApAssumption, FS_Subset
<1>. QED BY <1>1, <1>2, <1>3, <1>4, FullSize

LEMMA SearchInv == ASSUME ApInv, NEW r \in ApRequests, ApSearch(r) PROVE ApInv'
<1>. DEFINE req == apReq[r]
            matches == apReadable(req.p)
<1>1. req.at = "begun" /\ req.op = "search" /\ Holds(req) /\ Known(req) /\ req.op \in Pages
  BY DEF ApInv, ApSearch, apAsks, Known, Pages
<1>2. CASE apFails(r, 500, "failed")
  BY <1>1, <1>2, FailsInv
<1>3. ASSUME NEW hits \in SUBSET matches, NEW quotes \in SUBSET matches,
             Cardinality(hits) <= ApPage, Cardinality(hits) < ApPage => hits = matches,
             apFound(r, hits, quotes, Cardinality(matches))
      PROVE  ApInv'
  <2>1. /\ matches \subseteq ApIds /\ IsFiniteSet(matches) /\ Cardinality(matches) \in 0 .. Cardinality(ApIds)
        /\ Cardinality(matches) <= Cardinality(req.saw) /\ Cardinality(req.saw) \in Nat
    BY <1>1, Readables
  <2>2. Cardinality(hits) \in Nat /\ Cardinality(hits) <= Cardinality(matches)
    BY <2>1, FS_Subset, FS_CardinalityType
  <2>3. Cardinality(req.saw) <= ApPage => Cardinality(matches) = Cardinality(hits)
    BY <1>3, <2>1, <2>2, FullSize
  <2>4. Cardinality(matches) \in Nat /\ Cardinality(matches) <= Cardinality(ApIds)
    BY <2>1, FullSize
  <2>5. hits \in SUBSET ApIds /\ quotes \in SUBSET ApIds
    BY <2>1
  <2>. HIDE DEF matches
  <2>. QED BY <1>1, <1>3, <2>3, <2>4, <2>5, FoundInv
<1>. QED BY <1>2, <1>3 DEF ApSearch
LEMMA ListsInv ==
  ASSUME ApInv, NEW r \in ApRequests, ApSuggest(r) \/ ApDocuments(r) \/ ApFlagged(r)
  PROVE  ApInv'
<1>. DEFINE req == apReq[r]
<1>1. req.at \in {"begun", "opened"} /\ req.op \in Pages /\ req.op # "search"
  BY DEF ApSuggest, ApDocuments, ApFlagged, apAsks, Pages
<1>2. ASSUME NEW hits \in SUBSET ApIds, apFound(r, hits, {}, 0) PROVE ApInv'
  <2>1. 0 <= Cardinality(ApIds) /\ 0 \in Nat /\ {} \in SUBSET ApIds
    BY FullSize
  <2>. QED BY <1>1, <1>2, <2>1, FoundInv
<1>3. ASSUME NEW status \in {200, 500}, NEW outcome \in {"served", "failed"}, apFails(r, status, outcome),
             outcome = "served" => status = 200
      PROVE  ApInv'
  BY <1>1, <1>3, FailsInv
<1>4. CASE ApSuggest(r)
  BY <1>2, <1>3, <1>4 DEF ApSuggest, apReadable
<1>5. CASE ApDocuments(r)
  BY <1>2, <1>3, <1>5 DEF ApDocuments, apReadable
<1>6. CASE ApFlagged(r)
  <2>. DEFINE hits == {id \in apReadable(req.p) : apDocs[id].owner = req.p /\ apReports[id] # NoReports}
  <2>1. hits \in SUBSET ApIds
    BY DEF apReadable
  <2>2. apFound(r, hits, {}, 0) \/ apFails(r, 200, "served") \/ apFails(r, 500, "failed")
    BY <1>6 DEF ApFlagged
  <2>. HIDE DEF hits
  <2>. QED BY <1>2, <1>3, <2>1, <2>2
<1>. QED BY <1>4, <1>5, <1>6

LEMMA OpenedInv ==
  ASSUME ApInv, NEW r \in ApRequests, NEW opens \in SUBSET ApIds, ApOpened(r, opens)
  PROVE  ApInv'
<1>. DEFINE req == apReq[r]
            next == [req EXCEPT !.at = "opened", !.hits = opens]
<1>1. req \in Requests /\ Holds(req)
  BY DEF ApInv, Holds
<1>2. apStep(r, next) /\ UNCHANGED <<apStored, apWorld>> /\ req.at = "begun" /\ req.op = "recent"
  BY DEF ApOpened, apAsks
<1>4. next \in Requests
  BY <1>1 DEF Requests, Places
<1>5. /\ next.at = "opened" /\ next.op = req.op /\ next.p = req.p /\ next.id = req.id /\ next.said = req.said
      /\ next.could = req.could /\ next.saw = req.saw /\ next.hits = opens /\ next.quotes = req.quotes
      /\ next.cited = req.cited /\ next.rec = req.rec /\ next.total = req.total
  BY <1>1 DEF Requests
<1>6. Placed(req) /\ Allowed(req) /\ Cleared(req)
  BY <1>1 DEF Holds
<1>. HIDE DEF next
<1>7. Placed(next)
  BY <1>2, <1>5, <1>6 DEF Placed, Known
<1>8. Allowed(next)
  BY <1>2, <1>5, <1>6 DEF Allowed, Known
<1>9. Cleared(next)
  BY <1>2, <1>5, <1>6 DEF Cleared, Going
<1>10. Counted(next) /\ Claimed(next) /\ Pictured(next) /\ AnsweredTrue(next)
  BY <1>5 DEF Counted, Claimed, Pictured, AnsweredTrue
<1>. QED BY <1>2, <1>4, <1>7, <1>8, <1>9, <1>10, Quiet DEF Holds

LEMMA RecentInv == ASSUME ApInv, NEW r \in ApRequests, ApRecent(r) PROVE ApInv'
<1>1. apReq[r].at \in {"begun", "opened"} /\ apReq[r].op \in Pages /\ apReq[r].op # "search"
  BY DEF ApRecent, apAsks, Pages
<1>2. CASE apFails(r, 500, "failed")
  BY <1>1, <1>2, FailsInv
<1>3. CASE apFound(r, apReq[r].hits \cup apReadable(apReq[r].p), {}, 0)
  <2>1. ASSUME NEW hits \in SUBSET ApIds, apFound(r, hits, {}, 0) PROVE ApInv'
    <3>1. 0 <= Cardinality(ApIds) /\ 0 \in Nat /\ {} \in SUBSET ApIds
      BY FullSize
    <3>. QED BY <1>1, <2>1, <3>1, FoundInv
  <2>2. apReq[r].hits \cup apReadable(apReq[r].p) \in SUBSET ApIds
    BY DEF ApInv, Holds, Requests, apReadable
  <2>. QED BY <1>3, <2>1, <2>2
<1>. QED BY <1>2, <1>3 DEF ApRecent

\* What the sources still allow was allowed when the request came in.
LEMMA Kept ==
  ASSUME ApInv, NEW req, Holds(req), Known(req), NEW ids \in SUBSET ApIds, NEW lost
  PROVE  keep(req.p, ids, lost) \subseteq ids \cap req.could
BY DEF Holds, Allowed, keep, stillAllowed

LEMMA KeepInv ==
  ASSUME ApInv, NEW r \in ApRequests, NEW lost \in SUBSET ApIds, NEW shown \in SUBSET ApIds, ApKeep(r, lost, shown)
  PROVE  ApInv'
<1>. DEFINE req == apReq[r]
            kept == keep(req.p, req.hits, lost)
            total == IF req.op = "search" THEN floor(req, kept) ELSE Cardinality(shown)
            at == IF req.op = "search" THEN "card" ELSE "ready"
            quotes == onlyQuoting(req.quotes, kept)
            next == [req EXCEPT !.at = at, !.hits = shown, !.total = total, !.quotes = quotes]
<1>1. req \in Requests /\ Holds(req) /\ Placed(req) /\ Allowed(req) /\ Counted(req) /\ Cleared(req)
  BY DEF ApInv, Holds
<1>2. /\ apStep(r, next) /\ UNCHANGED <<apStored, apWorld>> /\ req.at = "found"
      /\ shown \subseteq kept /\ (req.op # "suggest" => shown = kept)
  BY DEF ApKeep
<1>3. kept \subseteq req.hits /\ kept \subseteq req.could /\ req.op \in Pages /\ req.hits \in SUBSET ApIds
  BY <1>1, <1>2, Kept DEF Requests, Placed, Known
<1>4. /\ Cardinality(kept) \in Nat /\ Cardinality(req.hits) \in Nat /\ Cardinality(kept) <= Cardinality(req.hits)
      /\ Cardinality(shown) \in Nat /\ Cardinality(shown) <= Cardinality(ApIds)
  BY <1>2, <1>3, ApAssumption, FS_Subset, FS_CardinalityType
<1>5. total \in Int /\ total <= Cardinality(ApIds)
  BY <1>1, <1>4, FullSize DEF floor, Requests, Placed
<1>6. req.op = "search" /\ Cardinality(req.saw) <= ApPage => total = Cardinality(shown)
  BY <1>1, <1>2, <1>4 DEF floor, Counted
<1>7. quotes \in SUBSET ApIds /\ quotes \subseteq kept /\ at \in Places
  BY <1>3 DEF onlyQuoting, Places
<1>. HIDE DEF total, quotes, at
<1>8. next \in Requests
  <2>1. req \in Requests
    BY <1>1
  <2>. HIDE DEF req
  <2>. QED BY <1>5, <1>7, <2>1 DEF Requests
<1>9. /\ next.at = at /\ next.op = req.op /\ next.p = req.p /\ next.id = req.id /\ next.said = req.said
      /\ next.could = req.could /\ next.saw = req.saw /\ next.hits = shown /\ next.quotes = quotes
      /\ next.cited = req.cited /\ next.rec = req.rec /\ next.total = total
  BY <1>1 DEF Requests
<1>. HIDE DEF next, kept
<1>10. Placed(next)
  BY <1>1, <1>2, <1>3, <1>5, <1>9 DEF Placed, Known, at
<1>11. Allowed(next)
  <2>1. apOn(next) \subseteq req.could
    BY <1>1, <1>2, <1>3, <1>7, <1>9 DEF Placed, apOn
  <2>2. req.op \notin Panels
    BY <1>3 DEF Pages, Panels
  <2>. QED BY <1>1, <1>2, <1>9, <2>1, <2>2 DEF Allowed, Known, at
<1>12. Cleared(next)
  BY <1>1, <1>2, <1>9 DEF Cleared, Going, at
<1>13. Counted(next)
  BY <1>6, <1>9 DEF Counted
<1>14. Claimed(next) /\ Pictured(next) /\ AnsweredTrue(next)
  BY <1>3, <1>9 DEF Claimed, Pictured, AnsweredTrue, at, Pages
<1>. QED BY <1>2, <1>8, <1>10, <1>11, <1>12, <1>13, <1>14, Quiet DEF Holds
LEMMA CuratedInv ==
  ASSUME ApInv, NEW r \in ApRequests, NEW fetched \in SUBSET ApIds, ApCurated(r, fetched)
  PROVE  ApInv'
<1>. DEFINE req == apReq[r]
<1>1. req \in Requests /\ Holds(req) /\ Placed(req) /\ Allowed(req) /\ Counted(req) /\ Cleared(req)
  BY DEF ApInv, Holds
<1>2. req.at = "card" /\ UNCHANGED <<apStored, apWorld>> /\ req.op = "search"
  BY <1>1 DEF ApCurated, Placed
<1>3. CASE apStep(r, [req EXCEPT !.at = "ready"])
  <2>. DEFINE next == [req EXCEPT !.at = "ready"]
  <2>1. apStep(r, next)
    BY <1>3
  <2>2. next \in Requests
    BY <1>1 DEF Requests, Places
  <2>3. /\ next.at = "ready" /\ next.op = req.op /\ next.p = req.p /\ next.id = req.id /\ next.said = req.said
        /\ next.could = req.could /\ next.saw = req.saw /\ next.hits = req.hits /\ next.quotes = req.quotes
        /\ next.cited = req.cited /\ next.rec = req.rec /\ next.total = req.total
    BY <1>1 DEF Requests
  <2>. HIDE DEF next
  <2>4. Placed(next)
    BY <1>1, <1>2, <2>3 DEF Placed, Known, Pages
  <2>5. Allowed(next)
    BY <1>1, <1>2, <2>3 DEF Allowed, Known, apOn, Panels
  <2>6. Cleared(next) /\ Counted(next) /\ Claimed(next) /\ Pictured(next) /\ AnsweredTrue(next)
    BY <1>1, <1>2, <2>3 DEF Cleared, Going, Counted, Claimed, Pictured, AnsweredTrue
  <2>. QED BY <1>2, <2>1, <2>2, <2>4, <2>5, <2>6, Quiet DEF Holds
<1>4. CASE apStep(r, [req EXCEPT !.at = "cited", !.cited = fetched, !.quotes = {}])
  <2>. DEFINE next == [req EXCEPT !.at = "cited", !.cited = fetched, !.quotes = {}]
  <2>1. apStep(r, next)
    BY <1>4
  <2>2. next \in Requests
    BY <1>1 DEF Requests, Places
  <2>3. /\ next.at = "cited" /\ next.op = req.op /\ next.p = req.p /\ next.id = req.id /\ next.said = req.said
        /\ next.could = req.could /\ next.saw = req.saw /\ next.hits = req.hits /\ next.quotes = {}
        /\ next.cited = fetched /\ next.rec = req.rec /\ next.total = req.total
    BY <1>1 DEF Requests
  <2>. HIDE DEF next
  <2>4. Placed(next)
    BY <1>1, <1>2, <2>3 DEF Placed, Known
  <2>5. Allowed(next)
    BY <1>1, <1>2, <2>3 DEF Allowed, Known, apOn
  <2>6. Cleared(next) /\ Counted(next) /\ Claimed(next) /\ Pictured(next) /\ AnsweredTrue(next)
    BY <1>1, <1>2, <2>3 DEF Cleared, Going, Counted, Claimed, Pictured, AnsweredTrue
  <2>. QED BY <1>2, <2>1, <2>2, <2>4, <2>5, <2>6, Quiet DEF Holds
<1>. QED BY <1>3, <1>4 DEF ApCurated

LEMMA CitedInv ==
  ASSUME ApInv, NEW r \in ApRequests, NEW lost \in SUBSET ApIds, ApCited(r, lost)
  PROVE  ApInv'
<1>. DEFINE req == apReq[r]
            cited == stillVisible(req.p, req.cited, lost)
            next == [req EXCEPT !.at = "ready", !.cited = cited]
<1>1. req \in Requests /\ Holds(req) /\ Placed(req) /\ Allowed(req) /\ Counted(req) /\ Cleared(req)
  BY DEF ApInv, Holds
<1>2. apStep(r, next) /\ UNCHANGED <<apStored, apWorld>> /\ req.at = "cited" /\ req.op = "search"
  BY <1>1 DEF ApCited, Placed
<1>3. cited \subseteq ApIds /\ cited \subseteq req.could
  BY <1>1, <1>2, Kept DEF Requests, Known, stillVisible
<1>. HIDE DEF cited
<1>4. next \in Requests
  BY <1>1, <1>3 DEF Requests, Places
<1>5. /\ next.at = "ready" /\ next.op = req.op /\ next.p = req.p /\ next.id = req.id /\ next.said = req.said
      /\ next.could = req.could /\ next.saw = req.saw /\ next.hits = req.hits /\ next.quotes = req.quotes
      /\ next.cited = cited /\ next.rec = req.rec /\ next.total = req.total
  BY <1>1 DEF Requests
<1>. HIDE DEF next
<1>6. Placed(next)
  BY <1>1, <1>2, <1>5 DEF Placed, Known, Pages
<1>7. Allowed(next)
  BY <1>1, <1>2, <1>3, <1>5 DEF Allowed, Known, Placed, apOn, Panels
<1>8. Cleared(next) /\ Counted(next) /\ Claimed(next) /\ Pictured(next) /\ AnsweredTrue(next)
  BY <1>1, <1>2, <1>5 DEF Cleared, Going, Counted, Claimed, Pictured, AnsweredTrue
<1>. QED BY <1>2, <1>4, <1>6, <1>7, <1>8, Quiet DEF Holds

LEMMA ServeInv == ASSUME ApInv, NEW r \in ApRequests, ApServe(r) PROVE ApInv'
<1>. DEFINE req == apReq[r]
            rec == apRecord("served", apShown(req), req.total)
            next == servedIn(req, rec, 200)
<1>1. req \in Requests /\ Holds(req) /\ Placed(req) /\ Allowed(req) /\ Counted(req) /\ Cleared(req) /\ Pictured(req)
  BY DEF ApInv, Holds
<1>2. apStep(r, next) /\ UNCHANGED <<apStored, apWorld>> /\ req.at = "ready" /\ req.op \in Pages \cup Panels
  BY <1>1 DEF ApServe, apAnswer, apStep, Requests, Placed, servedIn
<1>3. rec \in Trail /\ rec # None /\ rec.outcome = "served" /\ rec.docs = req.hits
  <2>1. rec \in Trail
    BY <1>1 DEF apRecord, Trail, apShown, Requests
  <2>. QED BY <2>1, ApAssumption DEF apRecord, apShown
<1>. HIDE DEF rec
<1>4. next \in Requests
  BY <1>1, <1>3, Served
<1>5. /\ next.at = "answered" /\ next.op = req.op /\ next.p = req.p /\ next.id = req.id /\ next.said = req.said
      /\ next.could = req.could /\ next.saw = req.saw /\ next.hits = req.hits /\ next.quotes = req.quotes
      /\ next.cited = req.cited /\ next.rec = rec /\ next.total = req.total /\ next.status = 200
      /\ next.note = req.note /\ next.doc = req.doc
  BY <1>1 DEF Requests, servedIn
<1>. HIDE DEF next
<1>6. Placed(next)
  BY <1>1, <1>2, <1>5 DEF Placed, Known
<1>7. Allowed(next)
  BY <1>1, <1>2, <1>5 DEF Allowed, Known
<1>8. req.op \notin Claims
  BY <1>2 DEF Pages, Panels, Claims
<1>9. Cleared(next) /\ Counted(next) /\ Claimed(next) /\ Pictured(next)
  BY <1>5, <1>8 DEF Cleared, Going, Counted, Claimed, Pictured, Claims
<1>10. AnsweredTrue(next)
  <2>1. apOn(next) \subseteq req.could
    BY <1>1, <1>2, <1>5 DEF Allowed, apOn
  <2>2. next.op = "search" /\ Cardinality(next.saw) <= ApPage => next.total = Cardinality(next.hits)
    BY <1>1, <1>2, <1>5 DEF Counted
  <2>3. next.op \in Panels => next.id \in next.saw
    BY <1>1, <1>2, <1>5 DEF Allowed
  <2>4. next.op = "thumbnail" /\ next.id \in ApVersioned => next.note >= next.doc.ver
    BY <1>1, <1>2, <1>5 DEF Pictured
  <2>. QED BY <1>2, <1>3, <1>5, <1>8, <2>1, <2>2, <2>3, <2>4 DEF AnsweredTrue, Claims
<1>. QED BY <1>2, <1>4, <1>6, <1>7, <1>9, <1>10, Quiet DEF Holds
-----------------------------------------------------------------------------
(* One document.                                                            *)

LEMMA NothingInv ==
  ASSUME ApInv, NEW r \in ApRequests, NEW status \in {404, 500}, NEW outcome \in {"refused", "failed"},
         apNothing(r, status, outcome), apReq[r].at \in {"begun", "got", "bytes"}, apReq[r].op \in Panels,
         UNCHANGED <<apStored, apWorld>>
  PROVE  ApInv'
<1>. DEFINE req == apReq[r]
            rec == apRecord(outcome, {req.id}, 0)
            next == recordedIn(req, rec, status)
<1>1. req \in Requests /\ Holds(req) /\ Placed(req) /\ Allowed(req)
  BY DEF ApInv, Holds
<1>2. apStep(r, next) /\ req.id \in ApIds
  BY <1>1 DEF apNothing, apAnswer, apStep, Requests, recordedIn, Placed, Known
<1>3. rec \in Trail /\ rec # None /\ rec.outcome = outcome /\ rec.docs = {req.id}
  <2>1. rec \in Trail
    BY <1>2 DEF apRecord, Trail
  <2>. QED BY <2>1, ApAssumption DEF apRecord
<1>. HIDE DEF rec
<1>4. next \in Requests
  BY <1>1, <1>3, Recorded
<1>5. /\ next.at = "answered" /\ next.status = status /\ next.op = req.op /\ next.p = req.p /\ next.id = req.id
      /\ next.could = req.could /\ next.saw = req.saw /\ next.hits = {} /\ next.quotes = req.quotes
      /\ next.cited = req.cited /\ next.rec = rec /\ next.total = req.total
  BY <1>1 DEF Requests, recordedIn
<1>. HIDE DEF next
<1>6. Placed(next)
  BY <1>1, <1>5 DEF Placed, Known
<1>7. Allowed(next)
  BY <1>1, <1>5 DEF Allowed, Known
<1>8. req.op \notin Claims /\ req.op # "search"
  BY DEF Panels, Claims
<1>9. Cleared(next) /\ Counted(next) /\ Claimed(next) /\ Pictured(next)
  BY <1>5, <1>8 DEF Cleared, Going, Counted, Claimed, Pictured, Claims
<1>10. AnsweredTrue(next)
  BY <1>3, <1>5, <1>8 DEF AnsweredTrue, Claims
<1>. QED BY <1>2, <1>4, <1>6, <1>7, <1>9, <1>10, Quiet DEF Holds

LEMMA GetInv == ASSUME ApInv, NEW r \in ApRequests, ApGet(r) PROVE ApInv'
<1>. DEFINE req == apReq[r]
            doc == apDocs[req.id]
            next == [req EXCEPT !.at = "got", !.doc = doc]
<1>1. req \in Requests /\ Holds(req) /\ Placed(req) /\ Allowed(req) /\ Cleared(req)
  BY DEF ApInv, Holds
<1>2. req.at = "begun" /\ req.op \in Panels /\ UNCHANGED <<apStored, apWorld>> /\ req.id \in ApIds
  BY <1>1 DEF ApGet, Placed, Known
<1>3. CASE refused(r) \/ failed(r)
  BY <1>2, <1>3, NothingInv DEF refused, failed
<1>4. CASE apSees(req.p, req.id) /\ apStep(r, next)
  <2>1. doc \in Docs /\ req.id \in req.saw
    BY <1>1, <1>2, <1>4 DEF ApInv, WorldHolds, apSees, Allowed, Known
  <2>2. next \in Requests
    <3>1. req \in Requests
      BY <1>1
    <3>. HIDE DEF req, doc
    <3>. QED BY <2>1, <3>1 DEF Requests, Places
  <2>3. doc.ver \in Nat
    BY <2>1 DEF Docs
  <2>4. /\ next.at = "got" /\ next.op = req.op /\ next.p = req.p /\ next.id = req.id /\ next.said = req.said
        /\ next.could = req.could /\ next.saw = req.saw /\ next.hits = req.hits /\ next.quotes = req.quotes
        /\ next.cited = req.cited /\ next.rec = req.rec /\ next.total = req.total /\ next.doc = doc
    BY <1>1 DEF Requests
  <2>. HIDE DEF next
  <2>5. Placed(next)
    BY <1>1, <1>2, <2>4 DEF Placed, Known
  <2>6. Allowed(next)
    BY <1>1, <1>2, <2>1, <2>4 DEF Allowed, Known
  <2>7. Cleared(next)
    BY <1>1, <1>2, <2>4 DEF Cleared, Going
  <2>8. Pictured(next)
    BY <2>1, <2>3, <2>4 DEF Pictured
  <2>9. Counted(next) /\ Claimed(next) /\ AnsweredTrue(next)
    BY <2>4 DEF Counted, Claimed, AnsweredTrue
  <2>. QED BY <1>2, <1>4, <2>2, <2>5, <2>6, <2>7, <2>8, <2>9, Quiet DEF Holds
<1>. QED BY <1>3, <1>4 DEF ApGet

\* The request with the document it may look at.
lookedIn(req, at, hits, total) == [req EXCEPT !.at = at, !.hits = hits, !.total = total]
LEMMA Looked ==
  ASSUME NEW req \in Requests, NEW at \in Places, NEW hits \in SUBSET ApIds, NEW total \in Int
  PROVE  lookedIn(req, at, hits, total) \in Requests
BY DEF lookedIn, Requests

LEMMA StillReadableInv ==
  ASSUME ApInv, NEW r \in ApRequests, NEW lost \in SUBSET ApIds, ApStillReadable(r, lost)
  PROVE  ApInv'
<1>. DEFINE req == apReq[r]
            at == IF req.op = "document" THEN "ready" ELSE "bytes"
            next == lookedIn(req, at, {req.id}, 1)
<1>1. req \in Requests /\ Holds(req) /\ Placed(req) /\ Allowed(req) /\ Cleared(req) /\ Pictured(req)
  BY DEF ApInv, Holds
<1>2. req.at = "got" /\ UNCHANGED <<apStored, apWorld>> /\ req.op \in Panels /\ req.id \in ApIds /\ Known(req)
  BY <1>1 DEF ApStillReadable, Placed, Known
<1>3. CASE refused(r)
  BY <1>2, <1>3, NothingInv DEF refused
<1>4. CASE keep(req.p, {req.id}, lost) # {} /\ apStep(r, next)
  <2>1. req.id \in req.could
    <3>1. {req.id} \in SUBSET ApIds
      BY <1>2
    <3>2. keep(req.p, {req.id}, lost) \subseteq {req.id} \cap req.could
      BY <1>1, <1>2, <3>1, Kept
    <3>. QED BY <1>4, <3>2
  <2>2. at \in Places /\ {req.id} \in SUBSET ApIds
    BY <1>2 DEF Places
  <2>3. 1 <= Cardinality(ApIds)
    <3>1. Cardinality({req.id}) = 1
      BY FS_Singleton
    <3>2. {req.id} \subseteq ApIds /\ IsFiniteSet(ApIds)
      BY <1>2, ApAssumption
    <3>3. Cardinality({req.id}) <= Cardinality(ApIds)
      BY <3>2, FS_Subset
    <3>. QED BY <3>1, <3>3
  <2>. HIDE DEF at
  <2>4. next \in Requests
    BY <1>1, <2>2, Looked
  <2>5. /\ next.at = at /\ next.op = req.op /\ next.p = req.p /\ next.id = req.id /\ next.said = req.said
        /\ next.could = req.could /\ next.saw = req.saw /\ next.hits = {req.id} /\ next.quotes = req.quotes
        /\ next.cited = req.cited /\ next.rec = req.rec /\ next.total = 1 /\ next.doc = req.doc
    BY <1>1 DEF Requests, lookedIn
  <2>. HIDE DEF next
  <2>6. Placed(next)
    BY <1>1, <1>2, <2>3, <2>5 DEF Placed, Known, at
  <2>7. Allowed(next)
    BY <1>1, <1>2, <2>1, <2>5 DEF Allowed, Known, Placed, apOn, at
  <2>8. Cleared(next)
    BY <1>1, <1>2, <2>5 DEF Cleared, Going, at
  <2>9. Pictured(next)
    BY <1>1, <1>2, <2>5 DEF Pictured, at
  <2>10. Counted(next) /\ Claimed(next) /\ AnsweredTrue(next)
    BY <1>2, <2>5 DEF Counted, Claimed, AnsweredTrue, at, Panels
  <2>. QED BY <1>2, <1>4, <2>4, <2>6, <2>7, <2>8, <2>9, <2>10, Quiet DEF Holds
<1>. QED BY <1>3, <1>4 DEF ApStillReadable, lookedIn
\* The bytes somebody may read are the answer.
LEMMA BytesHold ==
  ASSUME ApInv, NEW r \in ApRequests, apReq[r].at = "bytes", NEW ver \in Nat,
         apReq[r].op = "thumbnail" /\ apReq[r].id \in ApVersioned => ver >= apReq[r].doc.ver
  PROVE  Holds([apReq[r] EXCEPT !.at = "ready", !.note = ver])
<1>. DEFINE req == apReq[r]
            next == [req EXCEPT !.at = "ready", !.note = ver]
<1>. SUFFICES Holds(next)
  OBVIOUS
<1>1. req \in Requests /\ Holds(req) /\ Placed(req) /\ Allowed(req) /\ Cleared(req) /\ Pictured(req)
  BY DEF ApInv, Holds
<1>2. next \in Requests
  <2>1. req \in Requests
    BY <1>1
  <2>. HIDE DEF req
  <2>. QED BY <2>1 DEF Requests, Places
<1>3. /\ next.at = "ready" /\ next.op = req.op /\ next.p = req.p /\ next.id = req.id /\ next.said = req.said
      /\ next.could = req.could /\ next.saw = req.saw /\ next.hits = req.hits /\ next.quotes = req.quotes
      /\ next.cited = req.cited /\ next.rec = req.rec /\ next.total = req.total /\ next.doc = req.doc
      /\ next.note = ver
  BY <1>1 DEF Requests
<1>4. req.at = "bytes" /\ req.op \in Panels
  BY <1>1 DEF Placed
<1>. HIDE DEF next
<1>5. Placed(next)
  BY <1>1, <1>3, <1>4 DEF Placed, Known
<1>6. Allowed(next)
  BY <1>1, <1>3, <1>4 DEF Allowed, Known, apOn
<1>7. Cleared(next)
  BY <1>1, <1>3, <1>4 DEF Cleared, Going
<1>8. Pictured(next)
  BY <1>1, <1>3, <1>4 DEF Pictured
<1>9. Counted(next) /\ Claimed(next) /\ AnsweredTrue(next)
  BY <1>3, <1>4 DEF Counted, Claimed, AnsweredTrue, Panels
<1>. QED BY <1>2, <1>5, <1>6, <1>7, <1>8, <1>9 DEF Holds

LEMMA ContentInv == ASSUME ApInv, NEW r \in ApRequests, ApContent(r) PROVE ApInv'
<1>. DEFINE req == apReq[r]
            next == [req EXCEPT !.at = "ready", !.note = apDocs[req.id].ver]
<1>1. req.at = "bytes" /\ req.op = "content" /\ UNCHANGED <<apStored, apWorld>> /\ req.op \in Panels /\ req.id \in ApIds
  BY DEF ApContent, ApInv, Holds, Placed, Known, Panels
<1>2. CASE refused(r) \/ failed(r)
  BY <1>1, <1>2, NothingInv DEF refused, failed
<1>3. CASE apSees(req.p, req.id) /\ apStep(r, next)
  <2>1. apDocs[req.id].ver \in Nat
    BY <1>1, <1>3 DEF ApInv, WorldHolds, apSees, Docs
  <2>2. Holds(next)
    BY <1>1, <2>1, BytesHold
  <2>. QED BY <1>1, <1>3, <2>2, Quiet
<1>. QED BY <1>2, <1>3 DEF ApContent

\* What the cache of pictures does, nobody else sees.
LEMMA PicturesMove ==
  ASSUME ApInv, UNCHANGED <<apDocs, apCorrected, apReports, apVerified, apClock, apWorld>>,
         \A t \in apThumbs' : t.key[2] \in Nat /\ t.picture \in Nat /\ t.picture >= t.key[2],
         NEW r \in ApRequests, NEW next, Holds(next), apStep(r, next)
  PROVE  ApInv'
<1>1. /\ apDocs' = apDocs /\ apCorrected' = apCorrected /\ apReports' = apReports /\ apVerified' = apVerified
      /\ apClock' = apClock /\ apMay' = apMay /\ apHeard' = apHeard
  BY DEF apWorld
<1>2. WorldHolds'
  BY <1>1 DEF ApInv, WorldHolds, DocHolds
<1>3. \A i \in ApIds : apDocs[i] # None => apDocs[i].ver \in Nat
  BY DEF ApInv, WorldHolds, Docs
<1>4. apClock \in Nat
  BY DEF ApInv, WorldHolds
<1>5. Moves
  BY <1>1, <1>2, <1>3, <1>4 DEF Moves, apSees
<1>6. ASSUME NEW req \in Requests PROVE Hears(req, req)
  BY <1>1, HearsNothing
<1>7. next \in Requests /\ \A q \in ApRequests : apReq[q] \in Requests
  BY DEF Holds, ApInv
<1>. QED BY <1>5, <1>6, <1>7, StepsAndMoves

LEMMA ThumbnailInv == ASSUME ApInv, NEW r \in ApRequests, ApThumbnail(r) PROVE ApInv'
<1>. DEFINE req == apReq[r]
            key == thumbnailKey(req.id, req.doc)
            held == {t \in apThumbs : t.key = key}
            ver == apDocs[req.id].ver
            drawn == [key |-> key, picture |-> ver]
<1>1. /\ req.at = "bytes" /\ req.op = "thumbnail" /\ req.op \in Panels /\ req.id \in ApIds
      /\ UNCHANGED <<apDocs, apCorrected, apReports, apVerified, apClock, apWorld>>
  BY DEF ApThumbnail, ApInv, Holds, Placed, Known, Panels
<1>2. req.doc \in Docs /\ (apDocs[req.id] # None => req.doc.ver <= ver)
  BY <1>1 DEF ApInv, Holds, Pictured
<1>3. req.doc.ver \in Nat /\ key[2] = IF req.id \in ApVersioned THEN req.doc.ver ELSE 0
  BY <1>2 DEF thumbnailKey, Docs
<1>4. \A t \in apThumbs : t.key[2] \in Nat /\ t.picture \in Nat /\ t.picture >= t.key[2]
  BY DEF ApInv, WorldHolds
<1>5. ASSUME NEW t \in held, apStep(r, [req EXCEPT !.at = "ready", !.note = t.picture]), UNCHANGED apThumbs
      PROVE  ApInv'
  <2>1. t.picture \in Nat /\ (req.id \in ApVersioned => t.picture >= req.doc.ver)
    BY <1>3, <1>4
  <2>2. Holds([req EXCEPT !.at = "ready", !.note = t.picture])
    BY <1>1, <2>1, BytesHold
  <2>3. UNCHANGED <<apStored, apWorld>>
    BY <1>1, <1>5 DEF apStored
  <2>. QED BY <1>5, <2>2, <2>3, Quiet
<1>6. CASE /\ apSees(req.p, req.id) /\ apStep(r, [req EXCEPT !.at = "ready", !.note = ver])
           /\ apThumbs' = (apThumbs \ held) \cup {drawn}
  <2>1. ver \in Nat /\ ver >= req.doc.ver
    BY <1>1, <1>2, <1>6 DEF ApInv, WorldHolds, apSees, Docs
  <2>2. Holds([req EXCEPT !.at = "ready", !.note = ver])
    BY <1>1, <2>1, BytesHold
  <2>3. drawn.key[2] \in Nat /\ drawn.picture \in Nat /\ drawn.picture >= drawn.key[2]
    BY <1>3, <2>1
  <2>. HIDE DEF drawn, held
  <2>4. \A t \in apThumbs' : t.key[2] \in Nat /\ t.picture \in Nat /\ t.picture >= t.key[2]
    BY <1>4, <1>6, <2>3
  <2>. QED BY <1>1, <1>6, <2>2, <2>4, PicturesMove
<1>7. CASE refused(r) /\ UNCHANGED apThumbs
  <2>1. UNCHANGED <<apStored, apWorld>>
    BY <1>1, <1>7 DEF apStored
  <2>. QED BY <1>1, <1>7, <2>1, NothingInv DEF refused
<1>8. \/ \E t \in held : apStep(r, [req EXCEPT !.at = "ready", !.note = t.picture]) /\ UNCHANGED apThumbs
      \/ /\ apSees(req.p, req.id) /\ apStep(r, [req EXCEPT !.at = "ready", !.note = ver])
         /\ apThumbs' = (apThumbs \ held) \cup {drawn}
      \/ refused(r) /\ UNCHANGED apThumbs
  BY DEF ApThumbnail
<1>. QED BY <1>5, <1>6, <1>7, <1>8
-----------------------------------------------------------------------------
(* What is said about a document.                                           *)

LEMMA MayCurateInv == ASSUME ApInv, NEW r \in ApRequests, ApMayCurate(r) PROVE ApInv'
<1>. DEFINE req == apReq[r]
            doc == apDocs[req.id]
            next == [req EXCEPT !.at = "may", !.doc = doc]
<1>1. req \in Requests /\ Holds(req) /\ Placed(req) /\ Allowed(req) /\ Cleared(req)
  BY DEF ApInv, Holds
<1>2. req.at = "begun" /\ req.op \in Claims /\ UNCHANGED <<apStored, apWorld>> /\ req.id \in ApIds /\ Known(req)
  BY <1>1 DEF ApMayCurate, Placed, Known
<1>3. req.op \notin Pages \cup Panels /\ req.op # "search" /\ req.op # "thumbnail"
  BY <1>2 DEF Pages, Panels, Claims
<1>4. mayCurate(r) \in {200, 403, 404} /\ (mayCurate(r) # 404 => apSees(req.p, req.id))
  BY DEF mayCurate
<1>5. req.hits = {} /\ req.quotes = {} /\ req.cited = {}
  BY <1>1, <1>2 DEF Placed
<1>6. ASSUME NEW status \in {403, 404, 500}, apAnswer(r, status, req), status = 403 => apSees(req.p, req.id)
      PROVE  ApInv'
  <2>1. status = 403 => req.id \in req.saw
    BY <1>1, <1>2, <1>6 DEF Allowed
  <2>2. Plain(req, status)
    BY <1>2, <1>3, <1>5, <2>1 DEF Plain
  <2>. QED BY <1>2, <1>6, <2>2, AnswersPlainly
<1>7. CASE mayCurate(r) = 200 /\ apStep(r, next)
  <2>1. doc \in Docs /\ apSees(req.p, req.id) /\ req.id \in req.saw
    BY <1>1, <1>2, <1>4, <1>7 DEF ApInv, WorldHolds, apSees, Allowed
  <2>2. next \in Requests
    <3>1. req \in Requests
      BY <1>1
    <3>. HIDE DEF req, doc
    <3>. QED BY <2>1, <3>1 DEF Requests, Places
  <2>3. /\ next.at = "may" /\ next.op = req.op /\ next.p = req.p /\ next.id = req.id /\ next.said = req.said
        /\ next.could = req.could /\ next.saw = req.saw /\ next.hits = req.hits /\ next.quotes = req.quotes
        /\ next.cited = req.cited /\ next.rec = req.rec /\ next.total = req.total /\ next.doc = doc
    BY <1>1 DEF Requests
  <2>4. apCorrected[req.id] = None => doc.owner \in req.said
    <3>1. doc # None /\ doc.said \in req.said
      BY <1>1, <1>2, <2>1 DEF Cleared, Going, apSees
    <3>. QED BY <1>2, <3>1 DEF ApInv, WorldHolds, DocHolds
  <2>. HIDE DEF next
  <2>5. Placed(next)
    BY <1>1, <1>2, <2>3 DEF Placed, Known
  <2>6. Allowed(next)
    BY <1>1, <1>2, <2>1, <2>3 DEF Allowed, Known
  <2>7. Cleared(next)
    BY <1>1, <1>2, <2>1, <2>3, <2>4 DEF Cleared, Going
  <2>8. Counted(next) /\ Claimed(next) /\ Pictured(next) /\ AnsweredTrue(next)
    BY <2>3 DEF Counted, Claimed, Pictured, AnsweredTrue
  <2>. QED BY <1>2, <1>7, <2>2, <2>5, <2>6, <2>7, <2>8, Quiet DEF Holds
<1>8. CASE mayCurate(r) # 200 /\ apAnswer(r, mayCurate(r), req)
  BY <1>4, <1>6, <1>8
<1>9. CASE apAnswer(r, 500, req)
  BY <1>6, <1>9
<1>. QED BY <1>7, <1>8, <1>9 DEF ApMayCurate

\* The request with what it is answered with.
answeredIn(req, note, status) == [req EXCEPT !.note = note, !.at = "answered", !.status = status]

LEMMA AnsweredFields ==
  ASSUME NEW req \in Requests, NEW note \in Nat \cup ApPeople \cup {None}, NEW status \in Nat
  PROVE  LET next == answeredIn(req, note, status) IN
         /\ next \in Requests
         /\ next.at = "answered" /\ next.op = req.op /\ next.p = req.p /\ next.id = req.id /\ next.said = req.said
         /\ next.could = req.could /\ next.saw = req.saw /\ next.hits = req.hits /\ next.quotes = req.quotes
         /\ next.cited = req.cited /\ next.rec = req.rec /\ next.total = req.total /\ next.doc = req.doc
         /\ next.note = note /\ next.status = status /\ next.missed = req.missed
<1>1. answeredIn(req, note, status) \in Requests
  BY DEF answeredIn, Requests, Places
<1>. QED BY <1>1 DEF answeredIn, Requests

LEMMA AnsweredAsNoted ==
  ASSUME NEW req \in Requests, NEW status
  PROVE  [req EXCEPT !.at = "answered", !.status = status] = answeredIn(req, req.note, status)
BY DEF answeredIn, Requests

\* The answer to a claim, but for what only a verification and an undoing say.
LEMMA ClaimAnswered ==
  ASSUME ApInv, NEW req, Holds(req), req.at \in {"may", "noted", "wrote"},
         NEW note \in Nat \cup ApPeople \cup {None}, NEW status \in Nat,
         req.op = "verify" /\ status = 200 => note = None,
         req.op = "clearOwner" /\ status = 200 /\ ~ req.missed /\ apSees(req.p, req.id) => note \in req.said
  PROVE  Holds(answeredIn(req, note, status))
<1>. DEFINE next == answeredIn(req, note, status)
<1>1. req \in Requests /\ Placed(req) /\ Allowed(req)
  BY DEF Holds
<1>2. /\ next \in Requests
      /\ next.at = "answered" /\ next.op = req.op /\ next.p = req.p /\ next.id = req.id /\ next.said = req.said
      /\ next.could = req.could /\ next.saw = req.saw /\ next.hits = req.hits /\ next.quotes = req.quotes
      /\ next.cited = req.cited /\ next.rec = req.rec /\ next.total = req.total /\ next.doc = req.doc
      /\ next.note = note /\ next.status = status /\ next.missed = req.missed
  <2>1. next \in Requests
    BY <1>1 DEF answeredIn, Requests, Places
  <2>. QED BY <1>1, <2>1 DEF answeredIn, Requests
<1>3. /\ req.op \in Claims /\ req.op \notin Pages \cup Panels /\ req.op # "search" /\ req.op # "thumbnail"
      /\ req.id \in req.saw /\ req.hits = {} /\ req.quotes = {} /\ req.cited = {}
  BY <1>1 DEF Placed, Allowed, Pages, Panels, Claims
<1>. SUFFICES Holds(next)
  OBVIOUS
<1>. HIDE DEF next
<1>4. Placed(next)
  BY <1>1, <1>2 DEF Placed, Known
<1>5. Allowed(next)
  BY <1>1, <1>2 DEF Allowed, Known
<1>6. Claimed(next)
  BY <1>2 DEF Claimed
<1>7. Cleared(next) /\ Counted(next) /\ Pictured(next)
  BY <1>2 DEF Cleared, Going, Counted, Pictured
<1>8. AnsweredTrue(next)
  BY <1>2, <1>3 DEF AnsweredTrue, apOn
<1>. QED BY <1>2, <1>4, <1>5, <1>6, <1>7, <1>8 DEF Holds

LEMMA ClaimFailsInv == ASSUME ApInv, NEW r \in ApRequests, ApClaimFails(r) PROVE ApInv'
<1>1. Holds(apReq[r]) /\ apReq[r] \in Requests /\ apReq[r].note \in Nat \cup ApPeople \cup {None}
  BY DEF ApInv, Holds, Requests
<1>2. Holds(answeredIn(apReq[r], apReq[r].note, 500))
  BY <1>1, ClaimAnswered DEF ApClaimFails
<1>3. apStep(r, answeredIn(apReq[r], apReq[r].note, 500))
  BY <1>1, AnsweredAsNoted, ZenonT(40) DEF ApClaimFails, apAnswer
<1>. QED BY <1>2, <1>3, Quiet DEF ApClaimFails
LEMMA ReportedInv == ASSUME ApInv, NEW r \in ApRequests, ApReported(r) PROVE ApInv'
<1>. DEFINE req == apReq[r]
            standing == {p \in ApPeople : apReports[req.id][p] # 0}
            full == IF apSees(req.p, req.id) THEN Cardinality(standing) ELSE 0
<1>1. Holds(req) /\ req \in Requests
  BY DEF ApInv, Holds
<1>2. Cardinality(standing) \in Nat
  <2>1. standing \subseteq ApPeople /\ IsFiniteSet(ApPeople)
    BY ApAssumption
  <2>. QED BY <2>1, FS_Subset, FS_CardinalityType
<1>4. req.at = "wrote" /\ req.op \in {"report", "withdraw"} /\ UNCHANGED <<apStored, apWorld>>
  BY DEF ApReported, apAsks
<1>5. PICK count \in {0, full} : apAnswer(r, 200, [req EXCEPT !.note = count])
  BY DEF ApReported
<1>3. count \in Nat \cup ApPeople \cup {None}
  BY <1>2
<1>6. Holds(answeredIn(req, count, 200))
  BY <1>1, <1>3, <1>4, ClaimAnswered
<1>7. apStep(r, answeredIn(req, count, 200))
  BY <1>1, <1>5 DEF apAnswer, answeredIn, Requests
<1>. QED BY <1>4, <1>6, <1>7, Quiet

\* A report, a claim and what they answer leave the documents alone.
LEMMA ClaimsMove ==
  ASSUME ApInv, UNCHANGED <<apDocs, apCorrected, apThumbs, apWorld>>, apClock' \in Nat, apClock' >= apClock,
         apReports' \in [ApIds -> [ApPeople -> Nat]], apVerified' \in [ApIds -> Nat],
         \A i \in ApIds : apVerified'[i] \in {0, apVerified[i]} \/ apVerified'[i] \in (apClock + 1) .. apClock',
         \A i \in ApIds, p \in ApPeople :
           apReports'[i][p] \in {0, apReports[i][p]} \/ apReports'[i][p] \in (apClock + 1) .. apClock'
  PROVE  Moves /\ \A req \in Requests : Hears(req, req)
<1>1. apDocs' = apDocs /\ apCorrected' = apCorrected /\ apThumbs' = apThumbs /\ apMay' = apMay /\ apHeard' = apHeard
  BY DEF apWorld
<1>2. apClock \in Nat /\ \A i \in ApIds : apVerified[i] \in Nat /\ \A p \in ApPeople : apReports[i][p] \in Nat
  BY DEF ApInv, WorldHolds
<1>3. ASSUME NEW i \in ApIds PROVE DocHolds(i)'
  <2>1. apVerified[i] <= apClock /\ \A p \in ApPeople : apReports[i][p] <= apClock
    BY DEF ApInv, WorldHolds, DocHolds
  <2>2. apVerified'[i] <= apClock'
    BY <1>2, <2>1
  <2>3. \A p \in ApPeople : apReports'[i][p] <= apClock'
    BY <1>2, <2>1
  <2>. QED BY <1>1, <2>2, <2>3 DEF ApInv, WorldHolds, DocHolds
<1>4. WorldHolds'
  BY <1>1, <1>3 DEF ApInv, WorldHolds
<1>5. \A i \in ApIds : apDocs[i] # None => apDocs[i].ver \in Nat
  BY DEF ApInv, WorldHolds, Docs
<1>6. \A i \in ApIds : apVerified'[i] \in {0, apVerified[i]} \/ apVerified'[i] > apClock
  BY <1>2
<1>7. \A i \in ApIds, p \in ApPeople : apReports'[i][p] \in {0, apReports[i][p]} \/ apReports'[i][p] > apClock
  BY <1>2
<1>8. Moves
  BY <1>1, <1>4, <1>5, <1>6, <1>7 DEF Moves, apSees
<1>9. ASSUME NEW req \in Requests PROVE Hears(req, req)
  BY <1>1, HearsNothing
<1>. QED BY <1>8, <1>9

\* The reports of one document, as one of its readers leaves them.
LEMMA ReportsWritten ==
  ASSUME ApInv, NEW r \in ApRequests, NEW reports \in [ApPeople -> Nat],
         apReports' = apWrites(r, apReports, reports)
  PROVE  /\ apReports' \in [ApIds -> [ApPeople -> Nat]]
         /\ \A i \in ApIds : apReports'[i] = apReports[i] \/ (i = apReq[r].id /\ apReports'[i] = reports)
         /\ apSees(apReq[r].p, apReq[r].id) /\ apReq[r].id \in ApIds => apReports'[apReq[r].id] = reports
<1>. DEFINE id == apReq[r].id
<1>1. apReports \in [ApIds -> [ApPeople -> Nat]]
  BY DEF ApInv, WorldHolds
<1>2. apReports' = [apReports EXCEPT ![id] = reports] \/ (~ apSees(apReq[r].p, id) /\ apReports' = apReports)
  BY DEF apWrites
<1>3. ASSUME apReports' = [apReports EXCEPT ![id] = reports]
      PROVE  /\ apReports' \in [ApIds -> [ApPeople -> Nat]]
             /\ \A i \in ApIds : apReports'[i] = apReports[i] \/ (i = id /\ apReports'[i] = reports)
             /\ id \in ApIds => apReports'[id] = reports
  <2>. HIDE DEF id
  <2>. QED BY <1>1, <1>3
<1>4. ASSUME apReports' = apReports
      PROVE  /\ apReports' \in [ApIds -> [ApPeople -> Nat]]
             /\ \A i \in ApIds : apReports'[i] = apReports[i] \/ (i = id /\ apReports'[i] = reports)
  BY <1>1, <1>4
<1>. HIDE DEF id
<1>. QED BY <1>2, <1>3, <1>4 DEF id

LEMMA ResolveInv == ASSUME ApInv, NEW r \in ApRequests, ApResolve(r) PROVE ApInv'
<1>. DEFINE req == apReq[r]
<1>1. Holds(req) /\ req \in Requests /\ req.note \in Nat \cup ApPeople \cup {None}
  BY DEF ApInv, Holds, Requests
<1>2. /\ req.at = "may" /\ req.op = "resolve" /\ apReports' = apWrites(r, apReports, NoReports)
      /\ UNCHANGED <<apDocs, apCorrected, apVerified, apThumbs, apClock, apWorld>>
  BY DEF ApResolve
<1>3. NoReports \in [ApPeople -> Nat] /\ \A p \in ApPeople : NoReports[p] = 0
  BY DEF NoReports
<1>4. /\ apReports' \in [ApIds -> [ApPeople -> Nat]]
      /\ \A i \in ApIds : apReports'[i] = apReports[i] \/ (i = req.id /\ apReports'[i] = NoReports)
  BY <1>2, <1>3, ReportsWritten
<1>5. \A i \in ApIds, p \in ApPeople : apReports'[i][p] \in {0, apReports[i][p]}
  BY <1>3, <1>4
<1>6. apVerified' = apVerified /\ apClock' = apClock /\ apClock \in Nat /\ apVerified \in [ApIds -> Nat]
  BY <1>2 DEF ApInv, WorldHolds
<1>7. Moves /\ \A q \in Requests : Hears(q, q)
  BY <1>2, <1>4, <1>5, <1>6, ClaimsMove
<1>8. Holds(answeredIn(req, req.note, 204))
  <2>1. req.op # "verify" /\ req.op # "clearOwner" /\ 204 \in Nat /\ req.at \in {"may", "noted", "wrote"}
    BY <1>2
  <2>. QED BY <1>1, <2>1, ClaimAnswered
<1>9. apStep(r, answeredIn(req, req.note, 204))
  BY <1>1, AnsweredAsNoted DEF ApResolve, apAnswer
<1>10. answeredIn(req, req.note, 204) \in Requests /\ \A q \in ApRequests : apReq[q] \in Requests
  BY <1>8 DEF ApInv, Holds
<1>. QED BY <1>7, <1>8, <1>9, <1>10, StepsAndMoves

LEMMA UnverifyInv == ASSUME ApInv, NEW r \in ApRequests, ApUnverify(r) PROVE ApInv'
<1>. DEFINE req == apReq[r]
<1>1. Holds(req) /\ req \in Requests /\ req.note \in Nat \cup ApPeople \cup {None}
  BY DEF ApInv, Holds, Requests
<1>2. /\ req.at = "may" /\ req.op = "unverify" /\ apVerified' = apWrites(r, apVerified, 0)
      /\ UNCHANGED <<apDocs, apCorrected, apReports, apThumbs, apClock, apWorld>>
  BY DEF ApUnverify
<1>3. apVerified' \in [ApIds -> Nat] /\ \A i \in ApIds : apVerified'[i] \in {0, apVerified[i]}
  BY <1>2 DEF ApInv, WorldHolds, apWrites
<1>4. /\ apReports' = apReports /\ apClock' = apClock /\ apClock \in Nat
      /\ apReports \in [ApIds -> [ApPeople -> Nat]]
  BY <1>2 DEF ApInv, WorldHolds
<1>5. Moves /\ \A q \in Requests : Hears(q, q)
  BY <1>2, <1>3, <1>4, ClaimsMove
<1>6. Holds(answeredIn(req, req.note, 204))
  <2>1. req.op # "verify" /\ req.op # "clearOwner" /\ 204 \in Nat /\ req.at \in {"may", "noted", "wrote"}
    BY <1>2
  <2>. QED BY <1>1, <2>1, ClaimAnswered
<1>7. apStep(r, answeredIn(req, req.note, 204))
  BY <1>1, AnsweredAsNoted DEF ApUnverify, apAnswer
<1>8. answeredIn(req, req.note, 204) \in Requests /\ \A q \in ApRequests : apReq[q] \in Requests
  BY <1>6 DEF ApInv, Holds
<1>. QED BY <1>5, <1>6, <1>7, <1>8, StepsAndMoves
\* A claim that is written is answered later.
LEMMA Wrote ==
  ASSUME ApInv, NEW req, Holds(req), req.at = "may", req.op # "verify"
  PROVE  Holds([req EXCEPT !.at = "wrote"])
<1>. DEFINE next == [req EXCEPT !.at = "wrote"]
<1>1. req \in Requests /\ Placed(req) /\ Allowed(req) /\ Cleared(req)
  BY DEF Holds
<1>2. next \in Requests
  BY <1>1 DEF Requests, Places
<1>3. /\ next.at = "wrote" /\ next.op = req.op /\ next.p = req.p /\ next.id = req.id /\ next.said = req.said
      /\ next.could = req.could /\ next.saw = req.saw /\ next.hits = req.hits /\ next.quotes = req.quotes
      /\ next.cited = req.cited /\ next.rec = req.rec /\ next.total = req.total /\ next.doc = req.doc
  BY <1>1 DEF Requests
<1>. SUFFICES Holds(next)
  OBVIOUS
<1>. HIDE DEF next
<1>4. Placed(next)
  BY <1>1, <1>3 DEF Placed, Known
<1>5. Allowed(next)
  BY <1>1, <1>3 DEF Allowed, Known
<1>6. Cleared(next)
  BY <1>1, <1>3 DEF Cleared, Going
<1>7. Counted(next) /\ Claimed(next) /\ Pictured(next) /\ AnsweredTrue(next)
  BY <1>3 DEF Counted, Claimed, Pictured, AnsweredTrue
<1>. QED BY <1>2, <1>4, <1>5, <1>6, <1>7 DEF Holds

LEMMA SaysInv ==
  ASSUME ApInv, NEW r \in ApRequests, ApReport(r) \/ ApTakeBack(r)
  PROVE  ApInv'
<1>. DEFINE req == apReq[r]
<1>2. apClock \in Nat
  BY DEF ApInv, WorldHolds
<1>3. PICK now \in {0, apClock + 1} : req.op # "verify" /\ req.at = "may" /\ apSays(r, now)
  BY DEF ApReport, ApTakeBack, apAsks
<1>4. req \in Requests /\ Holds(req) /\ req.p \in ApPeople /\ req.id \in ApIds
  BY <1>3 DEF ApInv, Holds, Placed, Known
<1>. DEFINE reports == [apReports[req.id] EXCEPT ![req.p] = now]
<1>5. /\ apReports' = apWrites(r, apReports, reports) /\ apClock' = apClock + 1
      /\ apStep(r, [req EXCEPT !.at = "wrote"])
      /\ UNCHANGED <<apDocs, apCorrected, apVerified, apThumbs, apWorld>>
  BY <1>3 DEF apSays
<1>6. reports \in [ApPeople -> Nat] /\ \A p \in ApPeople : reports[p] \in {now, apReports[req.id][p]}
  BY <1>2, <1>3, <1>4 DEF ApInv, WorldHolds
<1>. HIDE DEF reports
<1>7. /\ apReports' \in [ApIds -> [ApPeople -> Nat]]
      /\ \A i \in ApIds : apReports'[i] = apReports[i] \/ (i = req.id /\ apReports'[i] = reports)
  BY <1>5, <1>6, ReportsWritten
<1>8. \A i \in ApIds, p \in ApPeople :
        apReports'[i][p] \in {0, apReports[i][p]} \/ apReports'[i][p] \in (apClock + 1) .. apClock'
  <2>1. apClock + 1 \in (apClock + 1) .. apClock'
    BY <1>2, <1>5
  <2>. QED BY <1>3, <1>6, <1>7, <2>1
<1>9. apVerified' = apVerified /\ apClock' \in Nat /\ apClock' >= apClock /\ apVerified \in [ApIds -> Nat]
  BY <1>2, <1>5 DEF ApInv, WorldHolds
<1>10. Moves /\ \A q \in Requests : Hears(q, q)
  BY <1>5, <1>7, <1>8, <1>9, ClaimsMove
<1>11. Holds([req EXCEPT !.at = "wrote"])
  BY <1>3, <1>4, Wrote
<1>12. [req EXCEPT !.at = "wrote"] \in Requests /\ \A q \in ApRequests : apReq[q] \in Requests
  BY <1>11 DEF ApInv, Holds
<1>. QED BY <1>5, <1>10, <1>11, <1>12, StepsAndMoves
\* The request with a step taken and what it will be answered with.
notedIn(req, at, note) == [req EXCEPT !.at = at, !.note = note]
LEMMA Noted ==
  ASSUME NEW req \in Requests, NEW at \in Places, NEW note \in Nat \cup ApPeople \cup {None}
  PROVE  notedIn(req, at, note) \in Requests
BY DEF notedIn, Requests

LEMMA VerifyInv == ASSUME ApInv, NEW r \in ApRequests, ApVerify(r) PROVE ApInv'
<1>. DEFINE req == apReq[r]
<1>1. /\ req \in Requests /\ Holds(req) /\ Placed(req) /\ Allowed(req) /\ Cleared(req) /\ Claimed(req)
      /\ \A q \in ApRequests : apReq[q] \in Requests
  BY DEF ApInv, Holds
<1>2. req.op = "verify" /\ req.at \in {"may", "wrote"} /\ Known(req) /\ req.p \in ApPeople /\ req.id \in ApIds
  BY <1>1 DEF ApVerify, Known, Placed
<1>3. req.op \in Claims /\ req.op \notin Pages \cup Panels
  BY <1>2 DEF Pages, Panels, Claims
<1>4. apClock \in Nat /\ apVerified \in [ApIds -> Nat] /\ apReports \in [ApIds -> [ApPeople -> Nat]]
  BY DEF ApInv, WorldHolds
<1>5. CASE /\ req.at = "may" /\ apVerified' = apWrites(r, apVerified, apClock + 1) /\ apClock' = apClock + 1
           /\ apStep(r, [req EXCEPT !.at = "wrote", !.note = apClock + 1])
           /\ UNCHANGED <<apDocs, apCorrected, apReports, apThumbs, apWorld>>
  <2>. DEFINE next == notedIn(req, "wrote", apClock + 1)
  <2>1. apDocs' = apDocs /\ apCorrected' = apCorrected /\ apMay' = apMay /\ apHeard' = apHeard /\ apReports' = apReports
    BY <1>5 DEF apWorld
  <2>2. apClock' \in Nat /\ apClock' >= apClock
    BY <1>4, <1>5
  <2>3. apVerified' \in [ApIds -> Nat] /\ \A i \in ApIds : apVerified'[i] \in {apClock + 1, apVerified[i]}
    <3>1. apVerified' = [apVerified EXCEPT ![req.id] = apClock + 1] \/ apVerified' = apVerified
      BY <1>5 DEF apWrites
    <3>2. CASE apVerified' = [apVerified EXCEPT ![req.id] = apClock + 1]
      <4>. DEFINE claim == apClock + 1
      <4>1. claim \in Nat /\ apVerified' = [apVerified EXCEPT ![req.id] = claim]
        BY <1>4, <3>2
      <4>. HIDE DEF req, claim
      <4>2. apVerified' \in [ApIds -> Nat] /\ \A i \in ApIds : apVerified'[i] \in {claim, apVerified[i]}
        BY <1>4, <4>1
      <4>. QED BY <4>2 DEF claim
    <3>3. CASE apVerified' = apVerified
      BY <1>4, <3>3
    <3>. QED BY <3>1, <3>2, <3>3
  <2>4. \A i \in ApIds : apVerified'[i] \in {0, apVerified[i]} \/ apVerified'[i] \in (apClock + 1) .. apClock'
    <3>1. apClock + 1 \in (apClock + 1) .. apClock'
      BY <1>4, <1>5
    <3>. QED BY <2>3, <3>1
  <2>5. Moves /\ \A q \in Requests : Hears(q, q)
    BY <1>4, <1>5, <2>1, <2>2, <2>3, <2>4, ClaimsMove
  <2>6. next \in Requests
    <3>1. "wrote" \in Places /\ apClock + 1 \in Nat \cup ApPeople \cup {None}
      BY <1>4 DEF Places
    <3>. QED BY <1>1, <3>1, Noted
  <2>7. /\ next.at = "wrote" /\ next.op = req.op /\ next.p = req.p /\ next.id = req.id /\ next.said = req.said
        /\ next.could = req.could /\ next.saw = req.saw /\ next.hits = req.hits /\ next.quotes = req.quotes
        /\ next.cited = req.cited /\ next.rec = req.rec /\ next.total = req.total /\ next.doc = req.doc
        /\ next.note = apClock + 1
    BY <1>1 DEF Requests, notedIn
  <2>8. ASSUME NEW new, new = next PROVE Holds(new)'
    <3>1. /\ new.at = "wrote" /\ new.op = req.op /\ new.p = req.p /\ new.id = req.id /\ new.said = req.said
          /\ new.could = req.could /\ new.saw = req.saw /\ new.hits = req.hits /\ new.quotes = req.quotes
          /\ new.cited = req.cited /\ new.rec = req.rec /\ new.total = req.total /\ new.doc = req.doc
          /\ new.note = apClock + 1 /\ new \in Requests
      BY <2>6, <2>7, <2>8
    <3>. HIDE DEF next
    <3>2. Placed(new)'
      BY <1>1, <1>5, <3>1 DEF Placed, Known
    <3>3. Allowed(new)'
      BY <1>1, <1>5, <2>1, <3>1 DEF Allowed, Known, apSees, stillAllowed
    <3>4. Cleared(new)'
      BY <1>1, <1>5, <2>1, <3>1 DEF Cleared, Going
    <3>5. Claimed(new)'
      BY <1>4, <1>5, <3>1 DEF Claimed
    <3>6. Counted(new)' /\ Pictured(new)' /\ AnsweredTrue(new)'
      BY <1>2, <3>1 DEF Counted, Pictured, AnsweredTrue
    <3>. QED BY <3>1, <3>2, <3>3, <3>4, <3>5, <3>6 DEF Holds
  <2>9. ASSUME NEW new, new = next PROVE apStep(r, new)
    BY <1>5, <2>9 DEF notedIn
  <2>. QED BY <1>1, <2>5, <2>8, <2>9, StepsTo
<1>6. CASE /\ req.at = "wrote" /\ apReports' = apWrites(r, apReports, NoReports) /\ apAnswer(r, 200, req)
           /\ UNCHANGED <<apDocs, apCorrected, apVerified, apThumbs, apClock, apWorld>>
  <2>. DEFINE next == answeredIn(req, req.note, 200)
  <2>1. apDocs' = apDocs /\ apCorrected' = apCorrected /\ apMay' = apMay /\ apHeard' = apHeard /\ apVerified' = apVerified /\ apClock' = apClock
    BY <1>6 DEF apWorld
  <2>2. NoReports \in [ApPeople -> Nat] /\ \A p \in ApPeople : NoReports[p] = 0
    BY DEF NoReports
  <2>3. /\ apReports' \in [ApIds -> [ApPeople -> Nat]]
        /\ \A i \in ApIds : apReports'[i] = apReports[i] \/ (i = req.id /\ apReports'[i] = NoReports)
        /\ apSees(req.p, req.id) => apReports'[req.id] = NoReports
    BY <1>2, <1>6, <2>2, ReportsWritten
  <2>4. \A i \in ApIds, p \in ApPeople : apReports'[i][p] \in {0, apReports[i][p]}
    BY <2>2, <2>3
  <2>5. Moves /\ \A q \in Requests : Hears(q, q)
    BY <1>4, <1>6, <2>1, <2>3, <2>4, ClaimsMove
  <2>6. req.note \in Nat \cup ApPeople \cup {None} /\ req.note \in Nat \ {0} /\ req.note <= apClock
    BY <1>1, <1>2, <1>6 DEF Requests, Claimed
  <2>7. /\ next \in Requests
        /\ next.at = "answered" /\ next.op = req.op /\ next.p = req.p /\ next.id = req.id /\ next.said = req.said
        /\ next.could = req.could /\ next.saw = req.saw /\ next.hits = req.hits /\ next.quotes = req.quotes
        /\ next.cited = req.cited /\ next.rec = req.rec /\ next.total = req.total /\ next.doc = req.doc
        /\ next.note = req.note /\ next.status = 200
    <3>1. req \in Requests /\ req.note \in Nat \cup ApPeople \cup {None} /\ 200 \in Nat
      BY <1>1, <2>6
    <3>. DEFINE note == req.note
                status == 200
    <3>. HIDE DEF req, note, status
    <3>2. note \in Nat \cup ApPeople \cup {None} /\ status \in Nat
      BY <3>1 DEF note, status
    <3>3. LET n == answeredIn(req, note, status) IN
          /\ n \in Requests
          /\ n.at = "answered" /\ n.op = req.op /\ n.p = req.p /\ n.id = req.id /\ n.said = req.said
          /\ n.could = req.could /\ n.saw = req.saw /\ n.hits = req.hits /\ n.quotes = req.quotes
          /\ n.cited = req.cited /\ n.rec = req.rec /\ n.total = req.total /\ n.doc = req.doc
          /\ n.note = note /\ n.status = status
      BY <3>1, <3>2, AnsweredFields, SMTT(30)
    <3>. QED BY <3>3 DEF note, status
  <2>8. req.hits = {} /\ req.quotes = {} /\ req.cited = {} /\ req.id \in req.saw
    BY <1>1, <1>6 DEF Placed, Allowed
  <2>9. ASSUME NEW new, new = next PROVE Holds(new)'
    <3>1. /\ new.at = "answered" /\ new.op = req.op /\ new.p = req.p /\ new.id = req.id /\ new.said = req.said
          /\ new.could = req.could /\ new.saw = req.saw /\ new.hits = req.hits /\ new.quotes = req.quotes
          /\ new.cited = req.cited /\ new.rec = req.rec /\ new.total = req.total /\ new.doc = req.doc
          /\ new.note = req.note /\ new.status = 200 /\ new \in Requests
      BY <2>7, <2>9
    <3>. HIDE DEF next
    <3>2. Placed(new)'
      BY <1>1, <1>6, <3>1 DEF Placed, Known
    <3>3. Allowed(new)'
      BY <1>1, <1>2, <2>1, <3>1 DEF Allowed, Known, apSees, stillAllowed
    <3>4. Cleared(new)' /\ Counted(new)' /\ Pictured(new)'
      BY <3>1 DEF Cleared, Going, Counted, Pictured
    <3>5. Claimed(new)'
      BY <2>1, <2>6, <3>1 DEF Claimed
    <3>6. AnsweredTrue(new)'
      <4>1. apSees(new.p, new.id)' => apSees(req.p, req.id)
        BY <2>1, <3>1 DEF apSees
      <4>2. ASSUME apSees(new.p, new.id)' PROVE \A p \in ApPeople : apReports'[new.id][p] = 0
        BY <2>2, <2>3, <3>1, <4>1, <4>2
      <4>3. new.hits = {} /\ new.quotes = {} /\ new.cited = {} /\ new.id \in new.saw
        BY <2>8, <3>1
      <4>4. new.op = "verify" /\ new.op \notin Pages \cup Panels /\ new.op # "search"
        BY <1>2, <1>3, <3>1
      <4>. QED BY <3>1, <4>2, <4>3, <4>4 DEF AnsweredTrue, apOn
    <3>. QED BY <3>1, <3>2, <3>3, <3>4, <3>5, <3>6 DEF Holds
  <2>10. ASSUME NEW new, new = next PROVE apStep(r, new)
    BY <1>1, <1>6, <2>10, AnsweredAsNoted DEF apAnswer
  <2>. QED BY <1>1, <2>5, <2>9, <2>10, StepsTo
<1>7. CASE /\ req.at = "wrote" /\ UNCHANGED apReports /\ apAnswer(r, 200, [req EXCEPT !.note = None])
           /\ UNCHANGED <<apDocs, apCorrected, apVerified, apThumbs, apClock, apWorld>>
  <2>1. apStep(r, answeredIn(req, None, 200))
    BY <1>1, <1>7 DEF apAnswer, answeredIn, Requests
  <2>2. None \in Nat \cup ApPeople \cup {None} /\ 200 \in Nat /\ req.op # "clearOwner" /\ req.at \in {"may", "noted", "wrote"}
    BY <1>2
  <2>3. Holds(answeredIn(req, None, 200))
    BY <1>1, <2>2, ClaimAnswered
  <2>4. UNCHANGED <<apStored, apWorld>>
    BY <1>7 DEF apStored
  <2>. QED BY <2>1, <2>3, <2>4, Quiet
<1>. QED BY <1>5, <1>6, <1>7 DEF ApVerify, resolveAfterVerify
-----------------------------------------------------------------------------
(* Owners, the crawl and the sources.                                       *)

\* One document is written over or goes.
LEMMA DocMoves ==
  ASSUME ApInv, NEW id \in ApIds, NEW doc \in Docs \cup {None}, NEW c \in Corrections \cup {None},
         apDocs[id] # None, apDocs' = [apDocs EXCEPT ![id] = doc], apCorrected' = [apCorrected EXCEPT ![id] = c],
         apReports' = apReports \/ apReports' = [apReports EXCEPT ![id] = NoReports],
         apVerified' = apVerified \/ apVerified' = [apVerified EXCEPT ![id] = 0],
         apMay' = apMay /\ apHeard' = apHeard, apThumbs' = apThumbs, apClock' = apClock,
         doc = None => c = None,
         doc # None =>
           /\ doc.ver >= apDocs[id].ver /\ doc.readers \subseteq apDocs[id].readers
           /\ \A p \in ApPeople : <<p, id>> \in apMay => p \in doc.readers
           /\ c = None => doc.owner = doc.said
           /\ c # None => doc.owner = c.owner /\ doc.said = c.was
  PROVE  Moves
<1>1. /\ apDocs \in [ApIds -> Docs \cup {None}] /\ apCorrected \in [ApIds -> Corrections \cup {None}]
      /\ apReports \in [ApIds -> [ApPeople -> Nat]] /\ apVerified \in [ApIds -> Nat] /\ apClock \in Nat
      /\ \A i \in ApIds : DocHolds(i)
  BY DEF ApInv, WorldHolds
<1>2. apDocs'[id] = doc /\ apCorrected'[id] = c
  BY <1>1
<1>3. \A i \in ApIds \ {id} : apDocs'[i] = apDocs[i] /\ apCorrected'[i] = apCorrected[i]
  BY <1>1
<1>4. \A i \in ApIds : apVerified'[i] \in {0, apVerified[i]}
  BY <1>1
<1>5. NoReports \in [ApPeople -> Nat] /\ \A p \in ApPeople : NoReports[p] = 0
  BY DEF NoReports
<1>6. \A i \in ApIds, p \in ApPeople : apReports'[i][p] \in {0, apReports[i][p]}
  BY <1>1, <1>5
<1>7. /\ apDocs' \in [ApIds -> Docs \cup {None}] /\ apCorrected' \in [ApIds -> Corrections \cup {None}]
      /\ apReports' \in [ApIds -> [ApPeople -> Nat]] /\ apVerified' \in [ApIds -> Nat]
  <2>1. apDocs' \in [ApIds -> Docs \cup {None}]
    BY <1>1
  <2>2. apCorrected' \in [ApIds -> Corrections \cup {None}]
    BY <1>1
  <2>3. apReports' \in [ApIds -> [ApPeople -> Nat]]
    BY <1>1, <1>5
  <2>4. apVerified' \in [ApIds -> Nat]
    BY <1>1
  <2>. QED BY <2>1, <2>2, <2>3, <2>4
<1>8. ASSUME NEW i \in ApIds PROVE DocHolds(i)'
  <2>1. apVerified'[i] <= apClock'
    BY <1>1, <1>4 DEF DocHolds
  <2>2. ASSUME NEW p \in ApPeople PROVE apReports'[i][p] <= apClock'
    BY <1>1, <1>6 DEF DocHolds
  <2>3. CASE i = id
    BY <1>2, <2>1, <2>2, <2>3 DEF DocHolds
  <2>4. CASE i # id
    BY <1>1, <1>3, <2>1, <2>2, <2>4 DEF DocHolds
  <2>. QED BY <2>3, <2>4
<1>9. WorldHolds'
  BY <1>1, <1>7, <1>8 DEF ApInv, WorldHolds
<1>10. ASSUME NEW p \in ApPeople, NEW i \in ApIds, apSees(p, i)' PROVE apSees(p, i)
  <2>1. CASE i = id
    BY <1>2, <1>10, <2>1 DEF apSees
  <2>2. CASE i # id
    BY <1>3, <1>10, <2>2 DEF apSees
  <2>. QED BY <2>1, <2>2
<1>11. ASSUME NEW i \in ApIds, apDocs'[i] # None PROVE apDocs[i] # None /\ apDocs'[i].ver >= apDocs[i].ver
  <2>1. CASE i = id
    BY <1>2, <1>11, <2>1
  <2>2. CASE i # id
    <3>1. apDocs[i] # None /\ apDocs[i].ver \in Nat /\ apDocs'[i] = apDocs[i]
      BY <1>1, <1>3, <1>11, <2>2 DEF Docs
    <3>. QED BY <3>1
  <2>. QED BY <2>1, <2>2
<1>. QED BY <1>1, <1>4, <1>6, <1>9, <1>10, <1>11 DEF Moves

\* A request whose document is another one, or is gone, hears nothing of it.
LEMMA Elsewhere ==
  ASSUME ApInv, NEW req, Holds(req), NEW id \in ApIds, NEW doc, NEW c,
         apDocs' = [apDocs EXCEPT ![id] = doc], apCorrected' = [apCorrected EXCEPT ![id] = c],
         req.id = id => doc = None
  PROVE  Hears(req, req)
<1>1. req \in Requests /\ (Going(req) => req.id \in ApIds)
  BY DEF Holds, Placed, Known, Going
<1>2. apDocs'[id] = doc /\ \A i \in ApIds \ {id} : apDocs'[i] = apDocs[i] /\ apCorrected'[i] = apCorrected[i]
  BY DEF ApInv, WorldHolds
<1>. QED BY <1>1, <1>2, HearsNothing

LEMMA DeleteInv == ASSUME ApInv, NEW id \in ApIds, ApDelete(id) PROVE ApInv'
<1>1. Moves
  BY DocMoves DEF ApDelete
<1>2. apReq' = apReq
  BY DEF ApDelete
<1>3. ASSUME NEW q \in ApRequests PROVE Holds(apReq[q])'
  <2>1. Holds(apReq[q])
    BY DEF ApInv
  <2>2. Hears(apReq[q], apReq[q])
    <3>1. CASE apReq[q].id = id
      BY <2>1, Elsewhere DEF ApDelete
    <3>2. CASE apReq[q].id # id
      BY <2>1, <3>2, Elsewhere DEF ApDelete
    <3>. QED BY <3>1, <3>2
  <2>3. ASSUME NEW new, new = apReq'[q] PROVE Holds(new)'
    BY <1>1, <1>2, <2>1, <2>2, <2>3, Keeps
  <2>. QED BY <2>3
<1>. QED BY <1>1, <1>2, <1>3 DEF ApInv, Moves

LEMMA WithdrawInv ==
  ASSUME ApInv, NEW p \in ApPeople, NEW id \in ApIds, ApWithdraw(p, id) \/ ApExpire(p, id)
  PROVE  ApInv'
<1>1. /\ apDocs' = apDocs /\ apCorrected' = apCorrected /\ apReports' = apReports /\ apVerified' = apVerified
      /\ apThumbs' = apThumbs /\ apClock' = apClock /\ apReq' = apReq /\ apMay' \subseteq apMay
      /\ apHeard' \subseteq apHeard
  BY DEF ApWithdraw, ApExpire, apStored
<1>2. WorldHolds'
  <2>1. ASSUME NEW i \in ApIds PROVE DocHolds(i)'
    BY <1>1 DEF ApInv, WorldHolds, DocHolds
  <2>. QED BY <1>1, <2>1 DEF ApInv, WorldHolds
<1>3. \A i \in ApIds : apDocs[i] # None => apDocs[i].ver \in Nat
  BY DEF ApInv, WorldHolds, Docs
<1>4. apClock \in Nat
  BY DEF ApInv, WorldHolds
<1>5. Moves
  BY <1>1, <1>2, <1>3, <1>4 DEF Moves, apSees
<1>6. ASSUME NEW q \in ApRequests PROVE Holds(apReq[q])'
  <2>1. Holds(apReq[q]) /\ Hears(apReq[q], apReq[q])
    <3>1. Holds(apReq[q]) /\ apReq[q] \in Requests
      BY DEF ApInv, Holds
    <3>. QED BY <1>1, <3>1, HearsNothing
  <2>2. ASSUME NEW new, new = apReq'[q] PROVE Holds(new)'
    BY <1>1, <1>5, <2>1, <2>2, Keeps
  <2>. QED BY <2>2
<1>. QED BY <1>1, <1>5, <1>6 DEF ApInv, Moves
\* A document as the crawl writes it.
crawledAs(old, readers, ver, said, own) ==
  [old EXCEPT !.readers = readers, !.ver = ver, !.said = said, !.owner = own]
LEMMA CrawledAs ==
  ASSUME NEW old \in Docs, NEW readers \in SUBSET ApPeople, NEW ver \in Nat \ {0}, NEW said \in ApPeople,
         NEW own \in ApPeople
  PROVE  LET doc == crawledAs(old, readers, ver, said, own) IN
         /\ doc \in Docs /\ doc.readers = readers /\ doc.ver = ver /\ doc.said = said /\ doc.owner = own
<1>1. crawledAs(old, readers, ver, said, own) \in Docs
  BY DEF crawledAs, Docs
<1>. QED BY <1>1 DEF crawledAs, Docs

LEMMA CrawlInv == ASSUME ApInv, NEW id \in ApIds, NEW owner \in ApPeople, ApCrawl(id, owner) PROVE ApInv'
<1>. DEFINE old == apDocs[id]
            readers == {p \in ApPeople : <<p, id>> \in apMay}
            own == IF apCorrected[id] = None THEN owner ELSE apCorrected[id].owner
            doc == crawledAs(old, readers, old.ver + 1, owner, own)
            c == IF apCorrected[id] = None THEN None ELSE [apCorrected[id] EXCEPT !.was = owner]
<1>1. old # None /\ old \in Docs /\ apCorrected[id] \in Corrections \cup {None} /\ DocHolds(id)
  BY DEF ApCrawl, ApInv, WorldHolds
<1>2. readers \in SUBSET ApPeople /\ readers \subseteq old.readers /\ own \in ApPeople /\ old.ver \in Nat \ {0}
  BY <1>1 DEF DocHolds, Corrections, Docs
<1>3. c \in Corrections \cup {None} /\ (apCorrected[id] # None => c # None /\ c.owner = apCorrected[id].owner /\ c.was = owner)
  <2>1. CASE apCorrected[id] = None
    BY <2>1
  <2>2. CASE apCorrected[id] # None
    <3>1. apCorrected[id] \in Corrections
      BY <1>1, <2>2
    <3>2. [apCorrected[id] EXCEPT !.was = owner] \in Corrections
      BY <3>1 DEF Corrections
    <3>3. c = [apCorrected[id] EXCEPT !.was = owner]
      BY <2>2
    <3>4. c.owner = apCorrected[id].owner /\ c.was = owner
      BY <3>1, <3>3 DEF Corrections
    <3>. QED BY <3>2, <3>3, <3>4, ApAssumption
  <2>. QED BY <2>1, <2>2
<1>4. apCorrected[id] = None => c = None /\ own = owner
  OBVIOUS
<1>5. apCorrected[id] # None => own = apCorrected[id].owner
  OBVIOUS
<1>6. apDocs' = [apDocs EXCEPT ![id] = doc] /\ apCorrected' = [apCorrected EXCEPT ![id] = c]
  <2>1. apDocs' = [apDocs EXCEPT ![id] = doc]
    BY DEF ApCrawl, crawledAs
  <2>2. apCorrected' = [apCorrected EXCEPT ![id] = c]
    BY DEF ApCrawl
  <2>. QED BY <2>1, <2>2
<1>7. apReports' = apReports /\ apVerified' = apVerified /\ apMay' = apMay /\ apHeard' = apHeard /\ apThumbs' = apThumbs /\ apClock' = apClock
  BY DEF ApCrawl
<1>. HIDE DEF readers, own, c
<1>8. /\ doc \in Docs /\ doc.readers = readers /\ doc.ver = old.ver + 1 /\ doc.said = owner /\ doc.owner = own
  <2>. DEFINE ver == old.ver + 1
  <2>1. ver \in Nat \ {0}
    BY <1>2
  <2>. HIDE DEF ver
  <2>2. LET d == crawledAs(old, readers, ver, owner, own) IN
        /\ d \in Docs /\ d.readers = readers /\ d.ver = ver /\ d.said = owner /\ d.owner = own
    BY <1>1, <1>2, <2>1, CrawledAs
  <2>. QED BY <2>2 DEF ver
<1>. HIDE DEF doc
<1>9. doc # None /\ doc.ver >= old.ver /\ doc.readers \subseteq old.readers
  BY <1>2, <1>8, ApAssumption
<1>10. \A p \in ApPeople : <<p, id>> \in apMay => p \in doc.readers
  BY <1>8 DEF readers
<1>11. (c = None => doc.owner = doc.said) /\ (c # None => doc.owner = c.owner /\ doc.said = c.was)
  BY <1>3, <1>4, <1>5, <1>8
<1>12. Moves
  BY <1>1, <1>3, <1>6, <1>7, <1>8, <1>9, <1>10, <1>11, DocMoves
<1>13. /\ DOMAIN apReq' = ApRequests
       /\ \A q \in ApRequests :
            apReq'[q] = IF apUnfinished(q) /\ apReq[q].id = id
                        THEN [apReq[q] EXCEPT !.said = @ \cup {owner}] ELSE apReq[q]
  BY DEF ApCrawl
<1>14. ASSUME NEW q \in ApRequests PROVE Holds(apReq[q])'
  <2>. DEFINE req == apReq[q]
              new == [req EXCEPT !.said = @ \cup {owner}]
  <2>1. Holds(req) /\ req \in Requests
    BY DEF ApInv, Holds
  <2>2. Hears(req, apReq'[q])
    <3>1. CASE apUnfinished(q) /\ req.id = id
      <4>1. apReq'[q] = new
        BY <1>13, <3>1
      <4>2. req.said \in SUBSET ApPeople /\ req.missed \in BOOLEAN
        BY <2>1 DEF Requests
      <4>3. new = [req EXCEPT !.said = req.said \cup {owner}, !.missed = req.missed]
        BY <2>1 DEF Requests
      <4>4. new \in Requests
        BY <2>1, <4>2 DEF Requests
      <4>5. new.said = req.said \cup {owner} /\ new.missed = req.missed
        BY <2>1 DEF Requests
      <4>6. \E said \in SUBSET ApPeople, missed \in BOOLEAN : new = [req EXCEPT !.said = said, !.missed = missed]
        BY <4>2, <4>3
      <4>7. apDocs'[id].said = owner /\ (apCorrected'[id] = None => apCorrected[id] = None)
        BY <1>1, <1>3, <1>6, <1>8 DEF ApInv, WorldHolds
      <4>. HIDE DEF new
      <4>. QED BY <3>1, <4>1, <4>4, <4>5, <4>6, <4>7 DEF Hears
    <3>2. CASE ~ (apUnfinished(q) /\ req.id = id)
      <4>1. apReq'[q] = req
        BY <1>13, <3>2
      <4>2. Going(req) => req.id \in ApIds /\ req.id # id
        BY <2>1, <3>2 DEF Holds, Placed, Known, Going, apUnfinished
      <4>3. \A i \in ApIds \ {id} : apDocs'[i] = apDocs[i] /\ apCorrected'[i] = apCorrected[i]
        BY <1>6 DEF ApInv, WorldHolds
      <4>4. Hears(req, req)
        BY <2>1, <4>2, <4>3, HearsNothing
      <4>. QED BY <4>1, <4>4
    <3>. QED BY <3>1, <3>2
  <2>3. ASSUME NEW r2, r2 = apReq'[q] PROVE Holds(r2)'
    BY <1>12, <2>1, <2>2, <2>3, Keeps
  <2>. QED BY <2>3
<1>. QED BY <1>12, <1>13, <1>14 DEF ApInv, Moves

LEMMA SetOwnerInv == ASSUME ApInv, NEW r \in ApRequests, NEW next \in ApPeople, ApSetOwner(r, next) PROVE ApInv'
<1>. DEFINE req == apReq[r]
            id == req.id
            new == answeredIn(req, next, 200)
<1>1. req \in Requests /\ Holds(req) /\ Placed(req)
  BY DEF ApInv, Holds
<1>2. /\ req.at = "may" /\ req.op = "setOwner" /\ id \in ApIds
      /\ UNCHANGED <<apReports, apVerified, apThumbs, apClock, apWorld>>
  BY <1>1 DEF ApSetOwner, Placed, Known
<1>3. apStep(r, new)
  BY <1>1 DEF ApSetOwner, apAnswer, answeredIn, Requests
<1>4. Holds(new)
  <2>1. req.op # "verify" /\ req.op # "clearOwner" /\ req.at \in {"may", "noted", "wrote"}
        /\ next \in Nat \cup ApPeople \cup {None} /\ 200 \in Nat
    BY <1>2
  <2>. QED BY <1>1, <2>1, ClaimAnswered
<1>5. new \in Requests /\ new.at = "answered"
  <2>1. next \in Nat \cup ApPeople \cup {None} /\ 200 \in Nat
    OBVIOUS
  <2>. QED BY <1>1, <2>1, AnsweredFields
<1>6. CASE apSees(req.p, id)
  <2>. DEFINE old == apDocs[id]
              doc == [old EXCEPT !.owner = next]
              was == IF apCorrected[id] = None THEN old.owner ELSE apCorrected[id].was
              c == [owner |-> next, was |-> was]
  <2>1. old # None /\ old \in Docs /\ apCorrected[id] \in Corrections \cup {None} /\ DocHolds(id)
    BY <1>2, <1>6 DEF apSees, ApInv, WorldHolds
  <2>2. was \in ApPeople /\ old.said = was
    BY <2>1 DEF DocHolds, Corrections, Docs
  <2>3. apCorrected' = [apCorrected EXCEPT ![id] = c] /\ apDocs' = [apDocs EXCEPT ![id] = doc]
    BY <1>6 DEF ApSetOwner
  <2>. HIDE DEF was
  <2>4. c \in Corrections /\ c # None /\ c.owner = next /\ c.was = was
    BY <2>2, ApAssumption DEF Corrections
  <2>5. /\ doc \in Docs /\ doc.readers = old.readers /\ doc.ver = old.ver /\ doc.said = old.said /\ doc.owner = next
        /\ old.ver \in Nat
    <3>1. old \in Docs
      BY <2>1
    <3>. HIDE DEF old
    <3>. QED BY <3>1 DEF Docs
  <2>. HIDE DEF doc, c
  <2>6. \A p \in ApPeople : <<p, id>> \in apMay => p \in doc.readers
    BY <2>1, <2>5 DEF DocHolds
  <2>7. apReports' = apReports /\ apVerified' = apVerified /\ apMay' = apMay /\ apHeard' = apHeard /\ apThumbs' = apThumbs /\ apClock' = apClock
    BY <1>2 DEF apWorld
  <2>8. doc # None /\ doc.ver >= old.ver /\ doc.readers \subseteq old.readers
    BY <2>5, ApAssumption
  <2>9. (c = None => doc.owner = doc.said) /\ (c # None => doc.owner = c.owner /\ doc.said = c.was)
    BY <2>2, <2>4, <2>5
  <2>10. Moves
    BY <1>2, <2>1, <2>3, <2>4, <2>5, <2>6, <2>7, <2>8, <2>9, DocMoves
  <2>11. apDocs'[id] = doc /\ apCorrected'[id] = c /\ \A i \in ApIds \ {id} : apDocs'[i] = apDocs[i] /\ apCorrected'[i] = apCorrected[i]
    BY <1>2, <2>3 DEF ApInv, WorldHolds
  <2>12. ASSUME NEW q \in ApRequests PROVE Hears(apReq[q], apReq[q])
    <3>1. apReq[q] \in Requests /\ (Going(apReq[q]) => apReq[q].id \in ApIds)
      BY DEF ApInv, Holds, Placed, Known, Going
    <3>2. \A i \in ApIds : apDocs'[i] # None =>
            /\ apDocs'[i].said = apDocs[i].said
            /\ apCorrected'[i] = None => apCorrected[i] = None
      BY <2>4, <2>5, <2>11
    <3>. QED BY <3>1, <3>2, HearsNothing
  <2>13. Hears(new, new)
    BY <1>5, HearsNothing DEF Going
  <2>. HIDE DEF new
  <2>. QED BY <1>3, <1>4, <2>10, <2>12, <2>13, StepsAndMoves
<1>7. CASE ~ apSees(req.p, id)
  <2>1. UNCHANGED <<apStored, apWorld>>
    BY <1>2, <1>7 DEF ApSetOwner, apStored
  <2>. HIDE DEF new
  <2>. QED BY <1>3, <1>4, <2>1, Quiet
<1>. QED BY <1>6, <1>7

\* A document given back to the owner its source names.
LEMMA GivenBack ==
  ASSUME NEW old \in Docs, NEW owner \in ApPeople
  PROVE  LET doc == [old EXCEPT !.owner = owner] IN
         /\ doc \in Docs /\ doc.readers = old.readers /\ doc.ver = old.ver /\ doc.said = old.said
         /\ doc.owner = owner /\ old.ver \in Nat
BY DEF Docs

\* What an undone correction will be answered with is noted before it is undone.
ownerNoted(req, missed, note) == [req EXCEPT !.at = "noted", !.missed = missed, !.note = note]
LEMMA NotedByOwner ==
  ASSUME NEW req \in Requests, NEW missed \in BOOLEAN, NEW note \in Nat \cup ApPeople \cup {None}
  PROVE  ownerNoted(req, missed, note) \in Requests
BY DEF ownerNoted, Requests, Places
LEMMA OwnerNoted ==
  ASSUME ApInv, NEW r \in ApRequests, apReq[r].op = "clearOwner", apReq[r].at = "may",
         NEW c \in {correction(r), None}, NEW missed \in BOOLEAN, missed <=> apReq[r].missed \/ c # correction(r),
         NEW note, note = IF c = None THEN apReq[r].doc.owner ELSE c.was,
         apStep(r, ownerNoted(apReq[r], missed, note)), UNCHANGED <<apStored, apWorld>>
  PROVE  ApInv'
<1>. DEFINE req == apReq[r]
            next == ownerNoted(req, missed, note)
<1>1. /\ req \in Requests /\ Holds(req) /\ Placed(req) /\ Allowed(req) /\ Cleared(req)
      /\ Known(req) /\ req.id \in ApIds /\ req.doc \in Docs
  BY DEF ApInv, Holds, Placed, Known, Cleared
<1>2. correction(r) \in Corrections \cup {None}
  BY <1>1 DEF correction, ApInv, WorldHolds
<1>3. note \in ApPeople
  <2>1. c = None => note = req.doc.owner /\ req.doc.owner \in ApPeople
    BY <1>1 DEF Docs
  <2>2. c # None => note = c.was /\ c.was \in ApPeople
    BY <1>2 DEF Corrections
  <2>. QED BY <2>1, <2>2
<1>4. ASSUME ~ missed, apSees(req.p, req.id) PROVE note \in req.said
  <2>0. ~ req.missed /\ c = correction(r)
    BY <1>4
  <2>1. apDocs[req.id] # None /\ correction(r) = apCorrected[req.id] /\ apDocs[req.id].said \in req.said
    BY <1>1, <1>4 DEF apSees, correction, Cleared, Going
  <2>2. CASE correction(r) = None
    BY <1>1, <2>0, <2>1, <2>2 DEF Cleared
  <2>3. CASE correction(r) # None
    BY <1>1, <2>0, <2>1, <2>3 DEF ApInv, WorldHolds, DocHolds
  <2>. QED BY <2>2, <2>3
<1>5. next \in Requests
  <2>1. req \in Requests /\ note \in Nat \cup ApPeople \cup {None}
    BY <1>1, <1>3
  <2>. QED BY <2>1, NotedByOwner
<1>6. /\ next.at = "noted" /\ next.note = note /\ next.op = req.op /\ next.p = req.p /\ next.id = req.id
      /\ next.said = req.said /\ next.missed = missed /\ next.could = req.could /\ next.saw = req.saw
      /\ next.hits = req.hits /\ next.quotes = req.quotes /\ next.cited = req.cited /\ next.rec = req.rec
      /\ next.total = req.total /\ next.doc = req.doc
  BY <1>1, <1>5 DEF ownerNoted, Requests
<1>. HIDE DEF next
<1>7. Placed(next)
  BY <1>1, <1>6 DEF Placed, Known
<1>8. Allowed(next)
  BY <1>1, <1>6 DEF Allowed, Known
<1>9. Cleared(next)
  BY <1>1, <1>4, <1>6 DEF Cleared, Going
<1>10. Counted(next) /\ Claimed(next) /\ Pictured(next) /\ AnsweredTrue(next)
  BY <1>6 DEF Counted, Claimed, Pictured, AnsweredTrue
<1>11. Holds(next)
  BY <1>5, <1>7, <1>8, <1>9, <1>10 DEF Holds
<1>. QED BY <1>11, Quiet DEF next

\* What the others hear of a correction that is undone.
LEMMA Raced ==
  ASSUME NEW req \in Requests, Going(req) /\ apDocs'[req.id] # None => apDocs'[req.id].said = apDocs[req.id].said
  PROVE  Hears(req, [req EXCEPT !.missed = TRUE])
<1>. DEFINE new == [req EXCEPT !.missed = TRUE]
<1>1. new \in Requests /\ new.said = req.said /\ new.missed = TRUE
  BY DEF Requests
<1>2. req.said \in SUBSET ApPeople
  BY DEF Requests
<1>3. new = [req EXCEPT !.said = req.said, !.missed = TRUE]
  BY DEF Requests
<1>4. \E said \in SUBSET ApPeople, missed \in BOOLEAN : new = [req EXCEPT !.said = said, !.missed = missed]
  BY <1>2, <1>3
<1>. HIDE DEF new
<1>5. Hears(req, new)
  BY <1>1, <1>4 DEF Hears
<1>. QED BY <1>5 DEF new

LEMMA ClearInv ==
  ASSUME ApInv, NEW r \in ApRequests, apReq[r].op = "clearOwner", apReq[r].at = "noted", apClear(r)
  PROVE  ApInv'
<1>. DEFINE req == apReq[r]
            id == req.id
            stands == apSees(req.p, id) /\ apCorrected[id] # None
            note == req.note
            new == answeredIn(req, note, 200)
<1>1. /\ req \in Requests /\ Holds(req) /\ Cleared(req) /\ id \in ApIds
      /\ \A q \in ApRequests : Holds(apReq[q]) /\ apReq[q] \in Requests
  BY DEF ApInv, Holds, Placed, Known
<1>2. Holds(new)
  <2>1. req.op # "verify" /\ (~ req.missed /\ apSees(req.p, id) => note \in req.said)
    BY <1>1 DEF Cleared
  <2>2. note \in Nat \cup ApPeople \cup {None}
    BY <1>1 DEF Requests
  <2>3. 200 \in Nat /\ req.at \in {"may", "noted", "wrote"}
    OBVIOUS
  <2>4. PICK q, n : q = req /\ n = note
    OBVIOUS
  <2>. HIDE DEF note, req
  <2>5. Holds(answeredIn(q, n, 200))
    BY <1>1, <2>1, <2>2, <2>3, <2>4, ClaimAnswered, SMTT(30)
  <2>. QED BY <2>4, <2>5
<1>3. new \in Requests /\ new.at = "answered"
  <2>1. note \in Nat \cup ApPeople \cup {None} /\ 200 \in Nat
    BY <1>1 DEF Requests
  <2>2. req \in Requests
    BY <1>1
  <2>. HIDE DEF note, req
  <2>. QED BY <2>1, <2>2, AnsweredFields
<1>4. new = [req EXCEPT !.at = "answered", !.status = 200]
  BY <1>1, AnsweredAsNoted
<1>5. /\ DOMAIN apReq' = ApRequests /\ apReq'[r] = new
      /\ \A q \in ApRequests \ {r} :
           apReq'[q] = IF stands /\ apUnfinished(q) /\ apReq[q].id = id THEN [apReq[q] EXCEPT !.missed = TRUE] ELSE apReq[q]
  BY <1>4 DEF apClear
<1>6. /\ apReports' = apReports /\ apVerified' = apVerified /\ apMay' = apMay /\ apHeard' = apHeard /\ apThumbs' = apThumbs /\ apClock' = apClock
  BY DEF apClear, apWorld
<1>. HIDE DEF new
<1>7. ASSUME stands PROVE Moves /\ \A q \in ApRequests \ {r} : Hears(apReq[q], apReq'[q])
  <2>. DEFINE old == apDocs[id]
              owner == apCorrected[id].was
              doc == [old EXCEPT !.owner = owner]
  <2>1. old # None /\ old \in Docs /\ apCorrected[id] \in Corrections /\ DocHolds(id)
    BY <1>1, <1>7 DEF apSees, ApInv, WorldHolds
  <2>2. owner \in ApPeople /\ old.said = owner
    BY <1>7, <2>1 DEF DocHolds, Corrections
  <2>3. apDocs' = [apDocs EXCEPT ![id] = doc] /\ apCorrected' = [apCorrected EXCEPT ![id] = None]
    BY <1>7 DEF apClear
  <2>. HIDE DEF owner
  <2>4. /\ doc \in Docs /\ doc.readers = old.readers /\ doc.ver = old.ver /\ doc.said = old.said /\ doc.owner = owner
        /\ old.ver \in Nat
    BY <2>1, <2>2, GivenBack
  <2>. HIDE DEF doc
  <2>5. doc # None /\ doc.ver >= old.ver /\ \A p \in ApPeople : <<p, id>> \in apMay => p \in doc.readers
    BY <2>1, <2>4, ApAssumption DEF DocHolds
  <2>6. Moves
    BY <1>1, <1>6, <2>1, <2>2, <2>3, <2>4, <2>5, DocMoves
  <2>7. apDocs'[id] = doc /\ \A i \in ApIds \ {id} : apDocs'[i] = apDocs[i] /\ apCorrected'[i] = apCorrected[i]
    BY <1>1, <2>3 DEF ApInv, WorldHolds
  <2>8. ASSUME NEW q \in ApRequests \ {r} PROVE Hears(apReq[q], apReq'[q])
    <3>1. CASE apUnfinished(q) /\ apReq[q].id = id
      <4>1. apReq'[q] = [apReq[q] EXCEPT !.missed = TRUE]
        BY <1>5, <1>7, <3>1
      <4>2. apDocs'[apReq[q].id].said = apDocs[apReq[q].id].said
        BY <2>4, <2>7, <3>1
      <4>. QED BY <1>1, <4>1, <4>2, Raced
    <3>2. CASE ~ (apUnfinished(q) /\ apReq[q].id = id)
      <4>1. apReq'[q] = apReq[q]
        BY <1>5, <3>2
      <4>2. Holds(apReq[q])
        BY <1>1
      <4>3. Going(apReq[q]) => apReq[q].id \in ApIds \ {id}
        BY <3>2, <4>2 DEF Holds, Placed, Known, Going, apUnfinished
      <4>4. Hears(apReq[q], apReq[q])
        BY <1>1, <2>7, <4>3, HearsNothing
      <4>. QED BY <4>1, <4>4
    <3>. QED BY <3>1, <3>2
  <2>. QED BY <2>6, <2>8
<1>8. ASSUME ~ stands PROVE Moves /\ \A q \in ApRequests \ {r} : Hears(apReq[q], apReq'[q])
  <2>1. UNCHANGED <<apStored, apWorld>>
    BY <1>6, <1>8 DEF apClear, apStored
  <2>2. \A q \in ApRequests \ {r} : apReq'[q] = apReq[q] /\ apReq[q] \in Requests
    BY <1>1, <1>5, <1>8
  <2>. QED BY <2>1, <2>2, StillMoves
<1>9. Moves /\ \A q \in ApRequests \ {r} : Hears(apReq[q], apReq'[q])
  BY <1>7, <1>8
<1>10. Hears(new, new)
  BY <1>3, HearsNothing DEF Going
<1>11. ASSUME NEW q \in ApRequests PROVE Holds(apReq[q])'
  <2>1. ASSUME NEW other, other = apReq'[q] PROVE Holds(other)'
    <3>1. CASE q = r
      BY <1>2, <1>5, <1>9, <1>10, <2>1, <3>1, Keeps
    <3>2. CASE q # r
      BY <1>1, <1>9, <2>1, <3>2, Keeps
    <3>. QED BY <3>1, <3>2
  <2>. QED BY <2>1
<1>. QED BY <1>5, <1>9, <1>11 DEF ApInv, Moves

LEMMA ClearOwnerInv == ASSUME ApInv, NEW r \in ApRequests, ApClearOwner(r) PROVE ApInv'
<1>1. apReq[r].op = "clearOwner"
  BY DEF ApClearOwner
<1>2. CASE apReq[r].at = "noted" /\ apClear(r)
  BY <1>1, <1>2, ClearInv
<1>3. CASE ~ (apReq[r].at = "noted" /\ apClear(r))
  <2>1. PICK c \in {correction(r), None} :
          /\ apReq[r].at = "may" /\ UNCHANGED <<apStored, apWorld>>
          /\ apStep(r, ownerNoted(apReq[r], apReq[r].missed \/ c # correction(r),
                                  IF c = None THEN apReq[r].doc.owner ELSE c.was))
    BY <1>3 DEF ApClearOwner, ownerNoted
  <2>2. PICK missed \in BOOLEAN : missed = (apReq[r].missed \/ c # correction(r))
    OBVIOUS
  <2>3. PICK note : note = IF c = None THEN apReq[r].doc.owner ELSE c.was
    OBVIOUS
  <2>4. apStep(r, ownerNoted(apReq[r], missed, note))
    BY <2>1, <2>2, <2>3
  <2>. QED BY <1>1, <2>1, <2>2, <2>3, <2>4, OwnerNoted
<1>. QED BY <1>2, <1>3
-----------------------------------------------------------------------------
(* Every step.                                                              *)

LEMMA StutterInv == ASSUME ApInv, UNCHANGED apVars PROVE ApInv'
<1>1. UNCHANGED <<apDocs, apMay, apHeard, apCorrected, apReports, apVerified, apThumbs, apReq, apClock>>
  BY DEF apVars, apStored, apWorld
<1>2. WorldHolds'
  BY <1>1 DEF ApInv, WorldHolds, DocHolds
<1>3. ASSUME NEW r \in ApRequests PROVE Holds(apReq[r])'
  <2>1. Holds(apReq[r])
    BY DEF ApInv
  <2>. QED BY <1>1, <2>1 DEF Holds, Placed, Allowed, Counted, Claimed, Cleared, Pictured, AnsweredTrue, apSees, stillAllowed, Known, Going
<1>. QED BY <1>1, <1>2, <1>3 DEF ApInv

LEMMA PageStepInv == ASSUME ApInv, NEW r \in ApRequests, apPageStep(r) PROVE ApInv'
<1>1. ASSUME NEW opens \in SUBSET ApIds, ApOpened(r, opens) PROVE ApInv'
  BY <1>1, OpenedInv
<1>2. ASSUME NEW lost \in SUBSET ApIds, NEW shown \in SUBSET ApIds, ApKeep(r, lost, shown) PROVE ApInv'
  BY <1>2, KeepInv
<1>3. ASSUME NEW fetched \in SUBSET ApIds, ApCurated(r, fetched) PROVE ApInv'
  BY <1>3, CuratedInv
<1>4. ASSUME NEW lost \in SUBSET ApIds, ApCited(r, lost) PROVE ApInv'
  BY <1>4, CitedInv
<1>. QED BY <1>1, <1>2, <1>3, <1>4, SearchInv, ListsInv, RecentInv, ServeInv DEF apPageStep

LEMMA PanelStepInv == ASSUME ApInv, NEW r \in ApRequests, apPanelStep(r) PROVE ApInv'
<1>1. ASSUME NEW lost \in SUBSET ApIds, ApStillReadable(r, lost) PROVE ApInv'
  BY <1>1, StillReadableInv
<1>. QED BY <1>1, GetInv, ContentInv, ThumbnailInv DEF apPanelStep

LEMMA ClaimStepInv == ASSUME ApInv, NEW r \in ApRequests, apClaimStep(r) PROVE ApInv'
<1>1. ASSUME NEW next \in ApPeople, ApSetOwner(r, next) PROVE ApInv'
  BY <1>1, SetOwnerInv
<1>2. CASE ApReport(r) \/ ApTakeBack(r)
  BY <1>2, SaysInv
<1>. QED BY <1>1, <1>2, MayCurateInv, ResolveInv, UnverifyInv, ClaimFailsInv, ReportedInv, VerifyInv, ClearOwnerInv
     DEF apClaimStep

LEMMA StepInv == ApInv /\ [ApNext]_apVars => ApInv'
<1>. SUFFICES ASSUME ApInv, [ApNext]_apVars PROVE ApInv'
  OBVIOUS
<1>1. ASSUME NEW r \in ApRequests, NEW op \in Pages \cup Panels \cup Claims, NEW p \in ApPeople, NEW id \in ApIds,
             ApAuthenticate(r, op, p, id)
      PROVE  ApInv'
  BY <1>1, AuthenticateInv DEF Ops
<1>2. ASSUME NEW r \in ApRequests, NEW status \in {401, 503}, ApUnauthenticated(r, status) PROVE ApInv'
  BY <1>2, UnauthenticatedInv
<1>3. ASSUME NEW r \in ApRequests, NEW status \in {200, 400, 501}, ApAnsweredAtOnce(r, status) PROVE ApInv'
  BY <1>3, AnsweredAtOnceInv
<1>4. ASSUME NEW r \in ApRequests, apPageStep(r) \/ apPanelStep(r) \/ apClaimStep(r) PROVE ApInv'
  BY <1>4, PageStepInv, PanelStepInv, ClaimStepInv
<1>5. ASSUME NEW id \in ApIds, NEW p \in ApPeople, ApWithdraw(p, id) \/ ApExpire(p, id) \/ ApCrawl(id, p) PROVE ApInv'
  BY <1>5, WithdrawInv, CrawlInv
<1>6. ASSUME NEW id \in ApIds, ApDelete(id) PROVE ApInv'
  BY <1>6, DeleteInv
<1>7. CASE UNCHANGED apVars
  BY <1>7, StutterInv
<1>. QED BY <1>1, <1>2, <1>3, <1>4, <1>5, <1>6, <1>7 DEF ApNext

\* HandlersAnswerTrue, whatever other requests, the crawl and the sources do between
\* the calls of a handler: of sources that are checked nothing withdrawn longer ago
\* than an answer lives is shown, totals count what is shown, the trail names the
\* rows shown (a written answer's sources are not among them), an unreadable
\* document is not there, what stands of the reports on a verified document is
\* later than the claim, a cleared correction is answered with an owner the source
\* named, and the picture of a versioned document is not old (api).
THEOREM HandlersAlwaysTrue == ApSpec => []HandlersAnswerTrue
<1>1. ApInv => HandlersAnswerTrue
  BY Consequence
<1>2. ApInit => ApInv
  BY InitInv
<1>3. ApInv /\ [ApNext]_apVars => ApInv'
  BY StepInv
<1>. QED BY <1>1, <1>2, <1>3, PTL DEF ApSpec

(***************************************************************************)
(* The audit log: what it accepted is written, kept and read back.         *)
(***************************************************************************)
AuRecs == [by: AuHandlers, at: 0..AuMaxTime]
AuPieces == [rec: AuRecs, end: BOOLEAN]
AuFiles == [day: auDays, fd: {"open", "nil", "closed"}, buf: Seq(AuPieces), err: BOOLEAN]
AuPrunes == [rec: AuRecs, when: Int]
AuStates == [at: 0..AuMaxTime, did: {"idle", "waiting", "queued", "reported"}]

\* No second half without its first one before it.
Paired(s) == \A i \in 1..Len(s) : s[i].end => i > 1 /\ s[i - 1] = [rec |-> s[i].rec, end |-> FALSE]
OfDay(s, d) == \A i \in 1..Len(s) : auDayOf(s[i].rec.at) = d
RecsOf(s) == {s[i].rec : i \in 1..Len(s)}

\* A file and a directory: what is in the day's file and the buffer behind it are
\* lines one after another, unless a write was refused.
Sound(f, disk, pruned) ==
  /\ f \in AuFiles /\ Len(f.buf) <= AuBufSize
  /\ f.fd = "nil" => f.buf = <<>>
  /\ DOMAIN disk \subseteq auDays /\ disk \in [DOMAIN disk -> Seq(AuPieces)]
  /\ f.fd # "nil" => f.day \in DOMAIN disk
  /\ \A d \in DOMAIN disk : OfDay(disk[d], d) /\ Paired(disk[d])
  /\ f.fd # "nil" => OfDay(f.buf, f.day)
  /\ f.fd # "nil" /\ ~f.err => Paired(disk[f.day] \o f.buf)
  /\ pruned \subseteq AuPrunes
  /\ \A p \in pruned : /\ p.when - p.rec.at > AuRetention
                       /\ \A d \in DOMAIN disk : p.rec \notin RecsOf(disk[d])
                       /\ p.rec \notin RecsOf(f.buf)
\* The records whose lines are complete in a file, or there and in the buffer, and
\* those any piece is of.
SavedIn(disk, pruned) == (UNION {auRecordsIn(disk[d]) : d \in DOMAIN disk}) \cup {p.rec : p \in pruned}
KeptIn(f, disk, pruned) == SavedIn(disk, pruned) \cup auRecordsIn(f.buf)
NamedIn(f, disk, pruned) == (UNION {RecsOf(disk[d]) : d \in DOMAIN disk}) \cup {p.rec : p \in pruned} \cup RecsOf(f.buf)

QueueHolds ==
  /\ auQueue \in Seq(AuRecs) /\ Len(auQueue) <= AuQueueSize
  /\ \A i, j \in 1..Len(auQueue) : auQueue[i] = auQueue[j] => i = j
  /\ Range(auQueue) \subseteq auQueued
  /\ \A r \in Range(auQueue) : r \notin NamedIn(auFile, auDisk, auPruned) /\ (AuRetention = 0 \/ auNow - r.at <= AuRetention)
HandlersHold ==
  /\ auHandler \in [AuHandlers -> AuStates]
  /\ \A h \in AuHandlers : auHandler[h].did # "idle" => auHandler[h].at <= auNow
  /\ \A h \in AuHandlers : auHandler[h].did = "waiting" => (AuRetention = 0 \/ auNow - auHandler[h].at <= AuRetention)
RunHolds ==
  /\ auNow \in 0..AuMaxTime /\ auFaults \in Int /\ auQuit \in BOOLEAN
  /\ auRun \in {"run", "sync", "quit", "exited", "down"}
  /\ auRun \in {"down", "exited"} => auFile.fd = "nil"
  /\ auRun = "run" /\ auQueue = <<>> /\ ~auFile.err => auFile.buf = <<>>
  /\ auSync = [did |-> auSync.did, owes |-> auSync.owes]
  /\ auSync.did \in {"idle", "asked", "closing", "ok", "error"}
  /\ auSync.owes \subseteq auQueued
AuInv ==
  /\ Sound(auFile, auDisk, auPruned)
  /\ QueueHolds
  /\ HandlersHold
  /\ RunHolds
  /\ NamedIn(auFile, auDisk, auPruned) \subseteq auQueued
  /\ auQueued \subseteq Range(auQueue) \cup KeptIn(auFile, auDisk, auPruned) \cup auFailed \cup auLost
  /\ SyncReaches

-----------------------------------------------------------------------------
(* Pieces one after another.                                               *)

\* Buffers are appended to one another in any grouping.
LEMMA AuGrouped ==
  ASSUME NEW x \in Seq(AuPieces), NEW y \in Seq(AuPieces), NEW z \in Seq(AuPieces)
  PROVE  (x \o y) \o z = x \o (y \o z)
BY ConcatAssociative

LEMMA AuJoined ==
  ASSUME NEW s \in Seq(AuPieces), NEW t \in Seq(AuPieces)
  PROVE  /\ s \o t \in Seq(AuPieces)
         /\ Len(s \o t) = Len(s) + Len(t)
         /\ RecsOf(s \o t) = RecsOf(s) \cup RecsOf(t)
         /\ auRecordsIn(s \o t) = auRecordsIn(s) \cup auRecordsIn(t)
         /\ \A d : OfDay(s \o t, d) <=> OfDay(s, d) /\ OfDay(t, d)
         /\ Paired(s \o t) => Paired(s)
<1> DEFINE u == s \o t
<1>1. /\ u \in Seq(AuPieces) /\ Len(u) = Len(s) + Len(t) /\ Len(s) \in Nat /\ Len(t) \in Nat
      /\ DOMAIN u = 1..Len(u) /\ DOMAIN s = 1..Len(s) /\ DOMAIN t = 1..Len(t)
  BY ConcatProperties, LenProperties
<1>2. /\ \A i \in 1..Len(s) : i \in 1..Len(u) /\ u[i] = s[i]
      /\ \A i \in 1..Len(t) : i + Len(s) \in 1..Len(u) /\ u[i + Len(s)] = t[i]
  <2>1. \A i \in 1 .. Len(s) + Len(t) : u[i] = IF i <= Len(s) THEN s[i] ELSE t[i - Len(s)] BY ConcatProperties
  <2> QED BY <1>1, <2>1
<1>3. \A i \in 1..Len(u) : \/ i \in 1..Len(s) /\ u[i] = s[i]
                           \/ i - Len(s) \in 1..Len(t) /\ u[i] = t[i - Len(s)]
  <2>1. \A i \in 1 .. Len(s) + Len(t) : u[i] = IF i <= Len(s) THEN s[i] ELSE t[i - Len(s)] BY ConcatProperties
  <2> QED BY <1>1, <2>1
<1> HIDE DEF u
<1>4. RecsOf(u) = RecsOf(s) \cup RecsOf(t)
  <2>1. RecsOf(u) \subseteq RecsOf(s) \cup RecsOf(t) BY <1>3 DEF RecsOf
  <2>2. RecsOf(s) \subseteq RecsOf(u) BY <1>2 DEF RecsOf
  <2>3. RecsOf(t) \subseteq RecsOf(u) BY <1>2 DEF RecsOf
  <2> QED BY <2>1, <2>2, <2>3
<1>5. auRecordsIn(u) = auRecordsIn(s) \cup auRecordsIn(t)
  <2>1. auRecordsIn(u) \subseteq auRecordsIn(s) \cup auRecordsIn(t) BY <1>1, <1>3 DEF auRecordsIn
  <2>2. auRecordsIn(s) \subseteq auRecordsIn(u) BY <1>1, <1>2 DEF auRecordsIn
  <2>3. ASSUME NEW i \in DOMAIN t, t[i].end PROVE t[i].rec \in auRecordsIn(u)
    <3>1. i + Len(s) \in DOMAIN u /\ u[i + Len(s)] = t[i] BY <1>1, <1>2, <2>3
    <3> QED BY <2>3, <3>1 DEF auRecordsIn
  <2>4. auRecordsIn(t) \subseteq auRecordsIn(u) BY <2>3 DEF auRecordsIn
  <2> QED BY <2>1, <2>2, <2>4
<1>6. ASSUME NEW d PROVE OfDay(u, d) <=> OfDay(s, d) /\ OfDay(t, d)
  <2>1. OfDay(s, d) /\ OfDay(t, d) => OfDay(u, d) BY <1>3 DEF OfDay
  <2>2. OfDay(u, d) => OfDay(s, d) BY <1>2 DEF OfDay
  <2>3. ASSUME OfDay(u, d), NEW i \in 1..Len(t) PROVE auDayOf(t[i].rec.at) = d
    <3>1. i + Len(s) \in 1..Len(u) /\ u[i + Len(s)] = t[i] BY <1>2
    <3> QED BY <2>3, <3>1 DEF OfDay
  <2> QED BY <2>1, <2>2, <2>3 DEF OfDay
<1>7. Paired(u) => Paired(s)
  <2> SUFFICES ASSUME Paired(u), NEW i \in 1..Len(s), s[i].end PROVE i > 1 /\ s[i - 1] = [rec |-> s[i].rec, end |-> FALSE]
    BY DEF Paired
  <2>1. i \in 1..Len(u) /\ u[i] = s[i] BY <1>2
  <2>2. i > 1 /\ u[i - 1] = [rec |-> s[i].rec, end |-> FALSE] BY <2>1 DEF Paired
  <2>3. i - 1 \in 1..Len(s) BY <1>1, <2>2
  <2> QED BY <1>2, <2>2, <2>3
<1> QED BY <1>1, <1>4, <1>5, <1>6, <1>7 DEF u

LEMMA AuNothing ==
  /\ <<>> \in Seq(AuPieces) /\ Len(<<>>) = 0 /\ RecsOf(<<>>) = {} /\ auRecordsIn(<<>>) = {} /\ Paired(<<>>)
  /\ \A d : OfDay(<<>>, d)
<1>1. <<>> \in Seq(AuPieces) /\ Len(<<>>) = 0 /\ DOMAIN <<>> = {} BY EmptySeq, LenProperties
<1> QED BY <1>1 DEF RecsOf, auRecordsIn, Paired, OfDay

LEMMA AuSplit ==
  ASSUME NEW s \in Seq(AuPieces), NEW n \in 0..Len(s)
  PROVE  /\ SubSeq(s, 1, n) \in Seq(AuPieces) /\ SubSeq(s, n + 1, Len(s)) \in Seq(AuPieces)
         /\ Len(SubSeq(s, 1, n)) = n /\ Len(SubSeq(s, n + 1, Len(s))) = Len(s) - n
         /\ s = SubSeq(s, 1, n) \o SubSeq(s, n + 1, Len(s))
         /\ n = Len(s) => SubSeq(s, 1, n) = s /\ SubSeq(s, n + 1, Len(s)) = <<>>
<1>1. Len(s) \in Nat /\ n \in Int /\ n + 1 \in Int /\ Len(s) \in Int BY LenProperties
<1>2. \A i \in 1..Len(s) : s[i] \in AuPieces BY ElementOfSeq
<1>3. \A i \in 1..n : s[i] \in AuPieces BY <1>1, <1>2
<1>4. \A i \in (n + 1)..Len(s) : s[i] \in AuPieces BY <1>1, <1>2
<1>5. SubSeq(s, 1, n) \in Seq(AuPieces) /\ Len(SubSeq(s, 1, n)) = IF 1 <= n THEN n - 1 + 1 ELSE 0
  BY <1>1, <1>3, SubSeqProperties
<1>6. SubSeq(s, n + 1, Len(s)) \in Seq(AuPieces)
      /\ Len(SubSeq(s, n + 1, Len(s))) = IF n + 1 <= Len(s) THEN Len(s) - (n + 1) + 1 ELSE 0
  BY <1>1, <1>4, SubSeqProperties
<1>7. SubSeq(s, 1, n) \o SubSeq(s, n + 1, Len(s)) = SubSeq(s, 1, Len(s))
  <2>1. 1 \in 1..Len(s) + 1 /\ n \in 1 - 1 .. Len(s) /\ Len(s) \in n .. Len(s) BY <1>1
  <2> QED BY <2>1, ConcatAdjacentSubSeq
<1>8. SubSeq(s, 1, Len(s)) = s BY SubSeqFull
<1>9. n = Len(s) => SubSeq(s, n + 1, Len(s)) = <<>> BY <1>1, SubSeqEmpty
<1>10. Len(SubSeq(s, 1, n)) = n /\ Len(SubSeq(s, n + 1, Len(s))) = Len(s) - n BY <1>1, <1>5, <1>6
<1> QED BY <1>5, <1>6, <1>7, <1>8, <1>9, <1>10

\* A line after whole lines.
LEMMA AuLineAfter ==
  ASSUME NEW s \in Seq(AuPieces), Paired(s), NEW r \in AuRecs
  PROVE  /\ auLine(r) \in Seq(AuPieces) /\ Len(auLine(r)) = 2
         /\ RecsOf(auLine(r)) = {r} /\ auRecordsIn(auLine(r)) = {r}
         /\ \A d : d = auDayOf(r.at) => OfDay(auLine(r), d)
         /\ Paired(s \o auLine(r))
<1> DEFINE t == auLine(r)
           u == s \o t
<1>1. /\ t \in Seq(AuPieces) /\ Len(t) = 2 /\ DOMAIN t = 1..2
      /\ t[1] = [rec |-> r, end |-> FALSE] /\ t[2] = [rec |-> r, end |-> TRUE]
  <2>1. [rec |-> r, end |-> FALSE] \in AuPieces /\ [rec |-> r, end |-> TRUE] \in AuPieces BY DEF AuPieces
  <2> QED BY <2>1 DEF auLine
<1>2. \A i \in 1..2 : i = 1 \/ i = 2 OBVIOUS
<1>6. Len(s) \in Nat /\ Len(u) = Len(s) + 2 BY <1>1, LenProperties, AuJoined
<1>7. \A i \in 1 .. Len(s) + 2 : u[i] = IF i <= Len(s) THEN s[i] ELSE t[i - Len(s)]
  <2> HIDE DEF t
  <2>1. \A i \in 1 .. Len(s) + Len(t) : (s \o t)[i] = IF i <= Len(s) THEN s[i] ELSE t[i - Len(s)] BY <1>1, ConcatProperties
  <2> QED BY <1>1, <2>1
<1> HIDE DEF t
<1>3. RecsOf(t) = {r} BY <1>1, <1>2 DEF RecsOf
<1>4. auRecordsIn(t) = {r}
  <2>1. {j \in DOMAIN t : t[j].end} = {2} BY <1>1, <1>2
  <2> QED BY <1>1, <2>1 DEF auRecordsIn
<1>5. \A d : d = auDayOf(r.at) => OfDay(t, d) BY <1>1, <1>2 DEF OfDay
<1> HIDE DEF u
<1>8. Paired(u)
  <2> SUFFICES ASSUME NEW i \in 1..Len(u), u[i].end PROVE i > 1 /\ u[i - 1] = [rec |-> u[i].rec, end |-> FALSE]
    BY DEF Paired
  <2>1. CASE i <= Len(s)
    <3>1. i \in 1..Len(s) /\ u[i] = s[i] BY <1>6, <1>7, <2>1
    <3>2. i > 1 /\ s[i - 1] = [rec |-> s[i].rec, end |-> FALSE] BY <3>1 DEF Paired
    <3>3. i - 1 \in 1..Len(s) + 2 /\ i - 1 <= Len(s) BY <1>6, <3>1, <3>2
    <3> QED BY <1>7, <3>1, <3>2, <3>3
  <2>2. CASE i = Len(s) + 1
    <3>1. u[i] = t[1] BY <1>6, <1>7, <2>2
    <3> QED BY <1>1, <3>1
  <2>3. CASE i = Len(s) + 2
    <3>1. u[i] = t[2] /\ i - 1 \in 1..Len(s) + 2 /\ u[i - 1] = t[1] /\ i > 1 BY <1>6, <1>7, <2>3
    <3> QED BY <1>1, <3>1
  <2> QED BY <1>6, <2>1, <2>2, <2>3
<1> QED BY <1>1, <1>3, <1>4, <1>5, <1>8 DEF t, u

-----------------------------------------------------------------------------
(* The operations on the file.                                             *)

IsWork(w) ==
  /\ w = [f |-> w.f, disk |-> w.disk, ok |-> w.ok, faults |-> w.faults, pruned |-> w.pruned]
  /\ w.ok \in BOOLEAN /\ w.faults \in Int
  /\ Sound(w.f, w.disk, w.pruned)
\* Nothing saved or kept is given up, and no record appears but the new ones.
Carries(w, x, new) ==
  /\ SavedIn(w.disk, w.pruned) \subseteq SavedIn(x.disk, x.pruned)
  /\ KeptIn(w.f, w.disk, w.pruned) \subseteq KeptIn(x.f, x.disk, x.pruned)
  /\ NamedIn(x.f, x.disk, x.pruned) \subseteq NamedIn(w.f, w.disk, w.pruned) \cup new

LEMMA AuKeepsOn ==
  ASSUME NEW w, NEW x, NEW y, NEW new1, NEW new2, Carries(w, x, new1), Carries(x, y, new2)
  PROVE  Carries(w, y, new1 \cup new2)
BY DEF Carries

LEMMA AuFileFields ==
  ASSUME NEW f \in AuFiles
  PROVE  /\ f = [day |-> f.day, fd |-> f.fd, buf |-> f.buf, err |-> f.err]
         /\ f.day \in auDays /\ f.fd \in {"open", "nil", "closed"} /\ f.buf \in Seq(AuPieces) /\ f.err \in BOOLEAN
BY DEF AuFiles

\* The first pieces of the buffer go to the file.
MovesTo(f, disk, p, q, g, to) ==
  /\ f.fd # "nil" /\ ~f.err
  /\ p \in Seq(AuPieces) /\ q \in Seq(AuPieces) /\ f.buf = p \o q
  /\ g \in AuFiles /\ g.day = f.day /\ g.fd = f.fd /\ g.buf = q
  /\ to = [d \in DOMAIN disk |-> to[d]] /\ to[f.day] = disk[f.day] \o p
  /\ \A d \in DOMAIN disk : d # f.day => to[d] = disk[d]
LEMMA AuMoved ==
  ASSUME NEW f, NEW disk, NEW pruned, Sound(f, disk, pruned),
         NEW p, NEW q, NEW g, NEW to, MovesTo(f, disk, p, q, g, to)
  PROVE  /\ Sound(g, to, pruned)
         /\ SavedIn(disk, pruned) \subseteq SavedIn(to, pruned)
         /\ KeptIn(f, disk, pruned) \subseteq KeptIn(g, to, pruned)
         /\ NamedIn(g, to, pruned) = NamedIn(f, disk, pruned)
<1> DEFINE e == f.day
           s == disk[e]
           t == s \o p
<1>m. /\ f.fd # "nil" /\ ~f.err
      /\ p \in Seq(AuPieces) /\ q \in Seq(AuPieces) /\ f.buf = p \o q
      /\ g \in AuFiles /\ g.day = f.day /\ g.fd = f.fd /\ g.buf = q
      /\ to = [d \in DOMAIN disk |-> to[d]] /\ to[f.day] = disk[f.day] \o p
      /\ \A d \in DOMAIN disk : d # f.day => to[d] = disk[d]
  BY DEF MovesTo
<1>1. /\ f \in AuFiles /\ e \in DOMAIN disk /\ s \in Seq(AuPieces) /\ OfDay(s, e) /\ Paired(s) /\ OfDay(f.buf, e)
      /\ Paired(s \o f.buf) /\ DOMAIN disk \subseteq auDays /\ disk \in [DOMAIN disk -> Seq(AuPieces)]
  BY <1>m DEF Sound
<1>2. /\ t \in Seq(AuPieces) /\ RecsOf(t) = RecsOf(s) \cup RecsOf(p)
      /\ auRecordsIn(t) = auRecordsIn(s) \cup auRecordsIn(p)
      /\ OfDay(t, e) <=> OfDay(s, e) /\ OfDay(p, e)
  BY <1>1, <1>m, AuJoined
<1>3. /\ Len(f.buf) = Len(p) + Len(q) /\ RecsOf(f.buf) = RecsOf(p) \cup RecsOf(q)
      /\ auRecordsIn(f.buf) = auRecordsIn(p) \cup auRecordsIn(q)
      /\ OfDay(f.buf, e) <=> OfDay(p, e) /\ OfDay(q, e)
  BY <1>m, AuJoined
<1>4. Paired(t \o q)
  <2>1. \A z \in Seq(AuPieces) : (z \o p) \o q = z \o (p \o q) BY <1>m, AuGrouped
  <2> QED BY <1>1, <1>m, <2>1
<1>5. Paired(t) BY <1>2, <1>4, <1>m, AuJoined
<1>6. DOMAIN to = DOMAIN disk /\ to[e] = t /\ \A d \in DOMAIN disk : d # e => to[d] = disk[d]
  BY <1>m
<1>s. s = disk[e] OBVIOUS
<1> HIDE DEF t, s, e
<1>7. to \in [DOMAIN to -> Seq(AuPieces)]
  <2>1. \A d \in DOMAIN to : to[d] \in Seq(AuPieces) BY <1>1, <1>2, <1>6
  <2>2. to = [d \in DOMAIN to |-> to[d]] BY <1>6, <1>m
  <2> QED BY <2>1, <2>2
<1>8. Len(q) <= AuBufSize
  <2>1. Len(p) \in Nat /\ Len(q) \in Nat BY <1>m, LenProperties
  <2>2. Len(f.buf) <= AuBufSize BY DEF Sound
  <2> QED BY <1>3, <2>1, <2>2, AuAssumption DEF AuAssumption
<1>9. \A d \in DOMAIN to : OfDay(to[d], d) /\ Paired(to[d])
  <2>1. ASSUME NEW d \in DOMAIN to, d # e PROVE OfDay(to[d], d) /\ Paired(to[d]) BY <1>6, <2>1 DEF Sound
  <2> QED BY <1>1, <1>2, <1>3, <1>5, <1>6, <2>1
<1>10. \A x \in pruned : /\ x.when - x.rec.at > AuRetention
                         /\ \A d \in DOMAIN to : x.rec \notin RecsOf(to[d])
                         /\ x.rec \notin RecsOf(q)
  <2> SUFFICES ASSUME NEW x \in pruned
               PROVE  /\ x.when - x.rec.at > AuRetention
                      /\ \A d \in DOMAIN to : x.rec \notin RecsOf(to[d])
                      /\ x.rec \notin RecsOf(q)
    OBVIOUS
  <2>1. x.when - x.rec.at > AuRetention BY DEF Sound
  <2>2. (\A d \in DOMAIN disk : x.rec \notin RecsOf(disk[d])) /\ x.rec \notin RecsOf(f.buf) BY DEF Sound
  <2> QED BY <1>1, <1>2, <1>3, <1>6, <1>s, <2>1, <2>2
<1>11. Sound(g, to, pruned)
  <2>1. pruned \subseteq AuPrunes BY DEF Sound
  <2>2. OfDay(q, e) BY <1>1, <1>3
  <2> QED BY <1>m, <1>1, <1>4, <1>6, <1>7, <1>8, <1>9, <1>10, <2>1, <2>2 DEF Sound, e
<1>12. SavedIn(disk, pruned) \subseteq SavedIn(to, pruned)
  <2>1. \A d \in DOMAIN disk : auRecordsIn(disk[d]) \subseteq auRecordsIn(to[d]) BY <1>1, <1>2, <1>6, <1>s
  <2> QED BY <1>6, <2>1 DEF SavedIn
<1>13. KeptIn(f, disk, pruned) \subseteq KeptIn(g, to, pruned)
  <2>1. auRecordsIn(p) \subseteq auRecordsIn(to[e]) /\ e \in DOMAIN to BY <1>1, <1>2, <1>6
  <2>2. auRecordsIn(p) \subseteq SavedIn(to, pruned) BY <2>1 DEF SavedIn
  <2> QED BY <1>m, <1>3, <1>12, <2>2 DEF KeptIn
<1>14. NamedIn(g, to, pruned) = NamedIn(f, disk, pruned)
  <2>1. UNION {RecsOf(to[d]) : d \in DOMAIN to} = (UNION {RecsOf(disk[d]) : d \in DOMAIN disk}) \cup RecsOf(p)
    <3>1. ASSUME NEW r, NEW d \in DOMAIN to, r \in RecsOf(to[d])
          PROVE  r \in (UNION {RecsOf(disk[k]) : k \in DOMAIN disk}) \cup RecsOf(p)
      <4>1. RecsOf(to[d]) = RecsOf(disk[d]) \/ RecsOf(to[d]) = RecsOf(disk[d]) \cup RecsOf(p) BY <1>2, <1>6, <1>s
      <4>2. CASE r \in RecsOf(disk[d]) BY <1>6, <4>2
      <4>3. CASE r \in RecsOf(p) BY <4>3
      <4> QED BY <3>1, <4>1, <4>2, <4>3
    <3>2. ASSUME NEW r, NEW d \in DOMAIN disk, r \in RecsOf(disk[d])
          PROVE  r \in UNION {RecsOf(to[k]) : k \in DOMAIN to}
      <4>1. RecsOf(disk[d]) \subseteq RecsOf(to[d]) BY <1>2, <1>6, <1>s
      <4> QED BY <1>6, <3>2, <4>1
    <3>3. RecsOf(p) \subseteq UNION {RecsOf(to[k]) : k \in DOMAIN to}
      <4>1. RecsOf(p) \subseteq RecsOf(to[e]) /\ e \in DOMAIN to BY <1>1, <1>2, <1>6
      <4> QED BY <4>1
    <3>4. (UNION {RecsOf(to[d]) : d \in DOMAIN to}) \subseteq (UNION {RecsOf(disk[d]) : d \in DOMAIN disk}) \cup RecsOf(p)
      BY <3>1
    <3>5. (UNION {RecsOf(disk[d]) : d \in DOMAIN disk}) \subseteq UNION {RecsOf(to[d]) : d \in DOMAIN to}
      BY <3>2
    <3> QED BY <3>3, <3>4, <3>5
  <2> QED BY <1>m, <1>3, <2>1 DEF NamedIn
<1> QED BY <1>6, <1>11, <1>12, <1>13, <1>14 DEF t, s, e

\* Pieces go into the buffer.
Fills(f, disk, pruned, t, g) ==
  /\ f.fd # "nil" /\ ~f.err
  /\ t \in Seq(AuPieces) /\ OfDay(t, f.day) /\ Paired((disk[f.day] \o f.buf) \o t)
  /\ Len(f.buf) + Len(t) <= AuBufSize /\ \A x \in pruned : x.rec \notin RecsOf(t)
  /\ g = [day |-> f.day, fd |-> f.fd, buf |-> f.buf \o t, err |-> f.err]
LEMMA AuFilled ==
  ASSUME NEW f, NEW disk, NEW pruned, Sound(f, disk, pruned), NEW t, NEW g, Fills(f, disk, pruned, t, g)
  PROVE  /\ Sound(g, disk, pruned) /\ g \in AuFiles
         /\ KeptIn(g, disk, pruned) = KeptIn(f, disk, pruned) \cup auRecordsIn(t)
         /\ NamedIn(g, disk, pruned) = NamedIn(f, disk, pruned) \cup RecsOf(t)
<1>f. /\ f.fd # "nil" /\ ~f.err
      /\ t \in Seq(AuPieces) /\ OfDay(t, f.day) /\ Paired((disk[f.day] \o f.buf) \o t)
      /\ Len(f.buf) + Len(t) <= AuBufSize /\ \A x \in pruned : x.rec \notin RecsOf(t)
      /\ g = [day |-> f.day, fd |-> f.fd, buf |-> f.buf \o t, err |-> f.err]
  BY DEF Fills
<1>1. f \in AuFiles /\ f.day \in DOMAIN disk /\ disk[f.day] \in Seq(AuPieces) BY <1>f DEF Sound
<1>2. f.buf \in Seq(AuPieces) BY <1>1, AuFileFields
<1>3. /\ f.buf \o t \in Seq(AuPieces) /\ Len(f.buf \o t) = Len(f.buf) + Len(t)
      /\ RecsOf(f.buf \o t) = RecsOf(f.buf) \cup RecsOf(t)
      /\ auRecordsIn(f.buf \o t) = auRecordsIn(f.buf) \cup auRecordsIn(t)
      /\ OfDay(f.buf \o t, f.day) <=> OfDay(f.buf, f.day) /\ OfDay(t, f.day)
  BY <1>2, <1>f, AuJoined
<1>4. g \in AuFiles /\ g.day = f.day /\ g.fd = f.fd /\ g.err = f.err /\ g.buf = f.buf \o t
  <2>1. f.day \in auDays /\ f.fd \in {"open", "nil", "closed"} /\ f.err \in BOOLEAN BY <1>1, AuFileFields
  <2>2. g \in AuFiles BY <1>3, <1>f, <2>1 DEF AuFiles
  <2> QED BY <1>f, <2>2
<1>5. (disk[f.day] \o f.buf) \o t = disk[f.day] \o (f.buf \o t)
  <2>1. \A x, y, z \in Seq(AuPieces) : (x \o y) \o z = x \o (y \o z) BY AuGrouped
  <2> QED BY <1>1, <1>2, <1>f, <2>1
<1>6. Sound(g, disk, pruned)
  <2>1. /\ DOMAIN disk \subseteq auDays /\ disk \in [DOMAIN disk -> Seq(AuPieces)]
        /\ \A d \in DOMAIN disk : OfDay(disk[d], d) /\ Paired(disk[d])
        /\ OfDay(f.buf, f.day) /\ pruned \subseteq AuPrunes
    BY <1>f DEF Sound
  <2>2. \A p \in pruned : /\ p.when - p.rec.at > AuRetention
                          /\ \A d \in DOMAIN disk : p.rec \notin RecsOf(disk[d])
                          /\ p.rec \notin RecsOf(g.buf)
    BY <1>3, <1>4, <1>f DEF Sound
  <2> QED BY <1>1, <1>3, <1>4, <1>5, <1>f, <2>1, <2>2 DEF Sound
<1>7. KeptIn(g, disk, pruned) = KeptIn(f, disk, pruned) \cup auRecordsIn(t)
  <2>1. auRecordsIn(g.buf) = auRecordsIn(f.buf) \cup auRecordsIn(t) BY <1>3, <1>4
  <2> QED BY <2>1 DEF KeptIn
<1>8. NamedIn(g, disk, pruned) = NamedIn(f, disk, pruned) \cup RecsOf(t) BY <1>3, <1>4 DEF NamedIn
<1> QED BY <1>4, <1>6, <1>7, <1>8

LEMMA AuWorkFields ==
  ASSUME NEW w, IsWork(w)
  PROVE  /\ w = [f |-> w.f, disk |-> w.disk, ok |-> w.ok, faults |-> w.faults, pruned |-> w.pruned]
         /\ w.ok \in BOOLEAN /\ w.faults \in Int
         /\ w.f \in AuFiles
         /\ w.f = [day |-> w.f.day, fd |-> w.f.fd, buf |-> w.f.buf, err |-> w.f.err]
         /\ w.f.day \in auDays /\ w.f.fd \in {"open", "nil", "closed"} /\ w.f.buf \in Seq(AuPieces)
         /\ w.f.err \in BOOLEAN
<1>1. w.f \in AuFiles BY DEF IsWork, Sound
<1> QED BY <1>1, AuFileFields DEF IsWork

LEMMA AuSame ==
  ASSUME NEW w, IsWork(w), NEW x, x.f = w.f, x.disk = w.disk, x.pruned = w.pruned
  PROVE  Carries(w, x, {}) /\ Sound(x.f, x.disk, x.pruned)
BY DEF IsWork, Carries

\* Changes of some fields, written out.
LEMMA AuEditRefused ==
  ASSUME NEW w, IsWork(w), NEW u, u = [w EXCEPT !.ok = FALSE]
  PROVE  u = [f |-> w.f, disk |-> w.disk, ok |-> FALSE, faults |-> w.faults, pruned |-> w.pruned]
<1>1. PICK day, fd, buf, err : /\ w.f = [day |-> day, fd |-> fd, buf |-> buf, err |-> err]
                               /\ w.f.day = day /\ w.f.fd = fd /\ w.f.buf = buf /\ w.f.err = err
  BY AuWorkFields
<1>2. PICK disk, ok, faults, pruned : /\ w.disk = disk /\ w.ok = ok /\ w.faults = faults /\ w.pruned = pruned
  OBVIOUS
<1>3. w = [f |-> [day |-> day, fd |-> fd, buf |-> buf, err |-> err], disk |-> disk, ok |-> ok, faults |-> faults,
           pruned |-> pruned]
  <2>1. w = [f |-> w.f, disk |-> w.disk, ok |-> w.ok, faults |-> w.faults, pruned |-> w.pruned] BY AuWorkFields
  <2> QED BY <1>1, <1>2, <2>1, Zenon
<1>4. u = [f |-> [day |-> day, fd |-> fd, buf |-> buf, err |-> err], disk |-> disk, ok |-> FALSE,
           faults |-> faults, pruned |-> pruned]
  BY <1>3
<1> QED BY <1>1, <1>2, <1>4, Zenon

LEMMA AuEditAccepted ==
  ASSUME NEW w, IsWork(w), NEW u, u = [w EXCEPT !.ok = TRUE]
  PROVE  u = [f |-> w.f, disk |-> w.disk, ok |-> TRUE, faults |-> w.faults, pruned |-> w.pruned]
<1>1. PICK day, fd, buf, err : /\ w.f = [day |-> day, fd |-> fd, buf |-> buf, err |-> err]
                               /\ w.f.day = day /\ w.f.fd = fd /\ w.f.buf = buf /\ w.f.err = err
  BY AuWorkFields
<1>2. PICK disk, ok, faults, pruned : /\ w.disk = disk /\ w.ok = ok /\ w.faults = faults /\ w.pruned = pruned
  OBVIOUS
<1>3. w = [f |-> [day |-> day, fd |-> fd, buf |-> buf, err |-> err], disk |-> disk, ok |-> ok, faults |-> faults,
           pruned |-> pruned]
  <2>1. w = [f |-> w.f, disk |-> w.disk, ok |-> w.ok, faults |-> w.faults, pruned |-> w.pruned] BY AuWorkFields
  <2> QED BY <1>1, <1>2, <2>1, Zenon
<1>4. u = [f |-> [day |-> day, fd |-> fd, buf |-> buf, err |-> err], disk |-> disk, ok |-> TRUE,
           faults |-> faults, pruned |-> pruned]
  BY <1>3
<1> QED BY <1>1, <1>2, <1>4, Zenon

FaultAt(w, n, u) == u = [w EXCEPT !.ok = FALSE, !.faults = n]
LEMMA AuEditFault ==
  ASSUME NEW w, IsWork(w), NEW n, NEW u, FaultAt(w, n, u)
  PROVE  u = [f |-> w.f, disk |-> w.disk, ok |-> FALSE, faults |-> n, pruned |-> w.pruned]
<1>1. PICK day, fd, buf, err : /\ w.f = [day |-> day, fd |-> fd, buf |-> buf, err |-> err]
                               /\ w.f.day = day /\ w.f.fd = fd /\ w.f.buf = buf /\ w.f.err = err
  BY AuWorkFields
<1>2. PICK disk, ok, faults, pruned : /\ w.disk = disk /\ w.ok = ok /\ w.faults = faults /\ w.pruned = pruned
  OBVIOUS
<1>3. w = [f |-> [day |-> day, fd |-> fd, buf |-> buf, err |-> err], disk |-> disk, ok |-> ok, faults |-> faults,
           pruned |-> pruned]
  <2>1. w = [f |-> w.f, disk |-> w.disk, ok |-> w.ok, faults |-> w.faults, pruned |-> w.pruned] BY AuWorkFields
  <2> QED BY <1>1, <1>2, <2>1, Zenon
<1>4. u = [f |-> [day |-> day, fd |-> fd, buf |-> buf, err |-> err], disk |-> disk, ok |-> FALSE,
           faults |-> n, pruned |-> pruned]
  BY <1>3 DEF FaultAt
<1> QED BY <1>1, <1>2, <1>4, Zenon

OpenedTo(w, d, g, u) == u = [w EXCEPT !.f = g, !.disk = d]
LEMMA AuEditOpened ==
  ASSUME NEW w, IsWork(w), NEW d, NEW g, NEW u, OpenedTo(w, d, g, u)
  PROVE  u = [f |-> g, disk |-> d, ok |-> w.ok, faults |-> w.faults, pruned |-> w.pruned]
<1>1. PICK day, fd, buf, err : /\ w.f = [day |-> day, fd |-> fd, buf |-> buf, err |-> err]
                               /\ w.f.day = day /\ w.f.fd = fd /\ w.f.buf = buf /\ w.f.err = err
  BY AuWorkFields
<1>2. PICK disk, ok, faults, pruned : /\ w.disk = disk /\ w.ok = ok /\ w.faults = faults /\ w.pruned = pruned
  OBVIOUS
<1>3. w = [f |-> [day |-> day, fd |-> fd, buf |-> buf, err |-> err], disk |-> disk, ok |-> ok, faults |-> faults,
           pruned |-> pruned]
  <2>1. w = [f |-> w.f, disk |-> w.disk, ok |-> w.ok, faults |-> w.faults, pruned |-> w.pruned] BY AuWorkFields
  <2> QED BY <1>1, <1>2, <2>1, Zenon
<1>4. u = [f |-> g, disk |-> d, ok |-> ok, faults |-> faults, pruned |-> pruned]
  BY <1>3 DEF OpenedTo
<1> QED BY <1>1, <1>2, <1>4, Zenon

PrunedTo(w, d, g, u) == u = [w EXCEPT !.disk = d, !.pruned = g]
LEMMA AuEditPruned ==
  ASSUME NEW w, IsWork(w), NEW d, NEW g, NEW u, PrunedTo(w, d, g, u)
  PROVE  u = [f |-> w.f, disk |-> d, ok |-> w.ok, faults |-> w.faults, pruned |-> g]
<1>1. PICK day, fd, buf, err : /\ w.f = [day |-> day, fd |-> fd, buf |-> buf, err |-> err]
                               /\ w.f.day = day /\ w.f.fd = fd /\ w.f.buf = buf /\ w.f.err = err
  BY AuWorkFields
<1>2. PICK disk, ok, faults, pruned : /\ w.disk = disk /\ w.ok = ok /\ w.faults = faults /\ w.pruned = pruned
  OBVIOUS
<1>3. w = [f |-> [day |-> day, fd |-> fd, buf |-> buf, err |-> err], disk |-> disk, ok |-> ok, faults |-> faults,
           pruned |-> pruned]
  <2>1. w = [f |-> w.f, disk |-> w.disk, ok |-> w.ok, faults |-> w.faults, pruned |-> w.pruned] BY AuWorkFields
  <2> QED BY <1>1, <1>2, <2>1, Zenon
<1>4. u = [f |-> [day |-> day, fd |-> fd, buf |-> buf, err |-> err], disk |-> d, ok |-> ok, faults |-> faults,
           pruned |-> g]
  BY <1>3 DEF PrunedTo
<1> QED BY <1>1, <1>2, <1>4, Zenon

BufferTo(w, b, u) == u = [w EXCEPT !.f.buf = b]
LEMMA AuEditBuffer ==
  ASSUME NEW w, IsWork(w), NEW b, NEW u, BufferTo(w, b, u)
  PROVE  u = [f |-> [day |-> w.f.day, fd |-> w.f.fd, buf |-> b, err |-> w.f.err], disk |-> w.disk, ok |-> w.ok,
              faults |-> w.faults, pruned |-> w.pruned]
<1>1. PICK day, fd, buf, err : /\ w.f = [day |-> day, fd |-> fd, buf |-> buf, err |-> err]
                               /\ w.f.day = day /\ w.f.fd = fd /\ w.f.buf = buf /\ w.f.err = err
  BY AuWorkFields
<1>2. PICK disk, ok, faults, pruned : /\ w.disk = disk /\ w.ok = ok /\ w.faults = faults /\ w.pruned = pruned
  OBVIOUS
<1>3. w = [f |-> [day |-> day, fd |-> fd, buf |-> buf, err |-> err], disk |-> disk, ok |-> ok, faults |-> faults,
           pruned |-> pruned]
  <2>1. w = [f |-> w.f, disk |-> w.disk, ok |-> w.ok, faults |-> w.faults, pruned |-> w.pruned] BY AuWorkFields
  <2> QED BY <1>1, <1>2, <2>1, Zenon
<1>4. u = [f |-> [day |-> day, fd |-> fd, buf |-> b, err |-> err], disk |-> disk, ok |-> ok,
           faults |-> faults, pruned |-> pruned]
  BY <1>3 DEF BufferTo
<1> QED BY <1>1, <1>2, <1>4, Zenon

LeftTo(w, b, u) == u = [w EXCEPT !.f.fd = "nil", !.f.buf = b]
LEMMA AuEditLeft ==
  ASSUME NEW w, IsWork(w), NEW b, NEW u, LeftTo(w, b, u)
  PROVE  u = [f |-> [day |-> w.f.day, fd |-> "nil", buf |-> b, err |-> w.f.err], disk |-> w.disk, ok |-> w.ok,
              faults |-> w.faults, pruned |-> w.pruned]
<1>1. PICK day, fd, buf, err : /\ w.f = [day |-> day, fd |-> fd, buf |-> buf, err |-> err]
                               /\ w.f.day = day /\ w.f.fd = fd /\ w.f.buf = buf /\ w.f.err = err
  BY AuWorkFields
<1>2. PICK disk, ok, faults, pruned : /\ w.disk = disk /\ w.ok = ok /\ w.faults = faults /\ w.pruned = pruned
  OBVIOUS
<1>3. w = [f |-> [day |-> day, fd |-> fd, buf |-> buf, err |-> err], disk |-> disk, ok |-> ok, faults |-> faults,
           pruned |-> pruned]
  <2>1. w = [f |-> w.f, disk |-> w.disk, ok |-> w.ok, faults |-> w.faults, pruned |-> w.pruned] BY AuWorkFields
  <2> QED BY <1>1, <1>2, <2>1, Zenon
<1>4. u = [f |-> [day |-> day, fd |-> "nil", buf |-> b, err |-> err], disk |-> disk, ok |-> ok,
           faults |-> faults, pruned |-> pruned]
  BY <1>3 DEF LeftTo
<1> QED BY <1>1, <1>2, <1>4, Zenon

StuckAt(w, n, u) == u = [w EXCEPT !.f.fd = "closed", !.ok = FALSE, !.faults = n]
LEMMA AuEditStuck ==
  ASSUME NEW w, IsWork(w), NEW n, NEW u, StuckAt(w, n, u)
  PROVE  u = [f |-> [day |-> w.f.day, fd |-> "closed", buf |-> w.f.buf, err |-> w.f.err], disk |-> w.disk,
              ok |-> FALSE, faults |-> n, pruned |-> w.pruned]
<1>1. PICK day, fd, buf, err : /\ w.f = [day |-> day, fd |-> fd, buf |-> buf, err |-> err]
                               /\ w.f.day = day /\ w.f.fd = fd /\ w.f.buf = buf /\ w.f.err = err
  BY AuWorkFields
<1>2. PICK disk, ok, faults, pruned : /\ w.disk = disk /\ w.ok = ok /\ w.faults = faults /\ w.pruned = pruned
  OBVIOUS
<1>3. w = [f |-> [day |-> day, fd |-> fd, buf |-> buf, err |-> err], disk |-> disk, ok |-> ok, faults |-> faults,
           pruned |-> pruned]
  <2>1. w = [f |-> w.f, disk |-> w.disk, ok |-> w.ok, faults |-> w.faults, pruned |-> w.pruned] BY AuWorkFields
  <2> QED BY <1>1, <1>2, <2>1, Zenon
<1>4. u = [f |-> [day |-> day, fd |-> "closed", buf |-> buf, err |-> err], disk |-> disk, ok |-> FALSE,
           faults |-> n, pruned |-> pruned]
  BY <1>3 DEF StuckAt
<1> QED BY <1>1, <1>2, <1>4, Zenon

FlushedTo(w, d, b, u) == u = [w EXCEPT !.disk = d, !.f.buf = b]
LEMMA AuEditFlushed ==
  ASSUME NEW w, IsWork(w), NEW d, NEW b, NEW u, FlushedTo(w, d, b, u)
  PROVE  u = [f |-> [day |-> w.f.day, fd |-> w.f.fd, buf |-> b, err |-> w.f.err], disk |-> d, ok |-> w.ok,
              faults |-> w.faults, pruned |-> w.pruned]
<1>1. PICK day, fd, buf, err : /\ w.f = [day |-> day, fd |-> fd, buf |-> buf, err |-> err]
                               /\ w.f.day = day /\ w.f.fd = fd /\ w.f.buf = buf /\ w.f.err = err
  BY AuWorkFields
<1>2. PICK disk, ok, faults, pruned : /\ w.disk = disk /\ w.ok = ok /\ w.faults = faults /\ w.pruned = pruned
  OBVIOUS
<1>3. w = [f |-> [day |-> day, fd |-> fd, buf |-> buf, err |-> err], disk |-> disk, ok |-> ok, faults |-> faults,
           pruned |-> pruned]
  <2>1. w = [f |-> w.f, disk |-> w.disk, ok |-> w.ok, faults |-> w.faults, pruned |-> w.pruned] BY AuWorkFields
  <2> QED BY <1>1, <1>2, <2>1, Zenon
<1>4. u = [f |-> [day |-> day, fd |-> fd, buf |-> b, err |-> err], disk |-> d, ok |-> ok, faults |-> faults,
           pruned |-> pruned]
  BY <1>3 DEF FlushedTo
<1> QED BY <1>1, <1>2, <1>4, Zenon

LEMMA AuEditTorn ==
  ASSUME NEW w, IsWork(w), NEW d, NEW b, NEW n, NEW u, u = [w EXCEPT !.disk = d, !.f.buf = b, !.f.err = TRUE, !.ok = FALSE, !.faults = n]
  PROVE  u = [f |-> [day |-> w.f.day, fd |-> w.f.fd, buf |-> b, err |-> TRUE], disk |-> d, ok |-> FALSE,
              faults |-> n, pruned |-> w.pruned]
<1>1. PICK day, fd, buf, err : /\ w.f = [day |-> day, fd |-> fd, buf |-> buf, err |-> err]
                               /\ w.f.day = day /\ w.f.fd = fd /\ w.f.buf = buf /\ w.f.err = err
  BY AuWorkFields
<1>2. PICK disk, ok, faults, pruned : /\ w.disk = disk /\ w.ok = ok /\ w.faults = faults /\ w.pruned = pruned
  OBVIOUS
<1>3. w = [f |-> [day |-> day, fd |-> fd, buf |-> buf, err |-> err], disk |-> disk, ok |-> ok, faults |-> faults,
           pruned |-> pruned]
  <2>1. w = [f |-> w.f, disk |-> w.disk, ok |-> w.ok, faults |-> w.faults, pruned |-> w.pruned] BY AuWorkFields
  <2> QED BY <1>1, <1>2, <2>1, Zenon
<1>4. u = [f |-> [day |-> day, fd |-> fd, buf |-> b, err |-> TRUE], disk |-> d, ok |-> FALSE, faults |-> n,
           pruned |-> pruned]
  BY <1>3
<1> QED BY <1>1, <1>2, <1>4, Zenon

FlushedWell(w, x) ==
  /\ IsWork(x) /\ Carries(w, x, {})
  /\ x.f.day = w.f.day /\ x.f.fd = w.f.fd /\ x.pruned = w.pruned /\ DOMAIN x.disk = DOMAIN w.disk
  /\ x.f.err \/ x.f.buf = <<>>
  /\ ~x.ok => x.f.err
  /\ x.ok => x.f.buf = <<>>
  /\ x.ok /\ w.f.fd # "nil" => /\ ~x.f.err /\ ~w.f.err
                               /\ x.disk[w.f.day] = w.disk[w.f.day] \o w.f.buf
LEMMA AuFlushesWell ==
  ASSUME NEW w, IsWork(w), w.ok, NEW x \in auFlushes(w)
  PROVE  FlushedWell(w, x)
<1> SUFFICES /\ IsWork(x) /\ Carries(w, x, {})
             /\ x.f.day = w.f.day /\ x.f.fd = w.f.fd /\ x.pruned = w.pruned /\ DOMAIN x.disk = DOMAIN w.disk
             /\ x.f.err \/ x.f.buf = <<>>
             /\ ~x.ok => x.f.err
             /\ x.ok => x.f.buf = <<>>
             /\ x.ok /\ w.f.fd # "nil" => /\ ~x.f.err /\ ~w.f.err
                                          /\ x.disk[w.f.day] = w.disk[w.f.day] \o w.f.buf
  BY DEF FlushedWell
<1> DEFINE f == w.f
           disk == w.disk
           to(n) == [disk EXCEPT ![f.day] = disk[f.day] \o SubSeq(f.buf, 1, n)]
           rest(n) == SubSeq(f.buf, n + 1, Len(f.buf))
<1>1. Sound(f, disk, w.pruned) BY DEF IsWork
<1>2. f.fd # "nil" => f.day \in DOMAIN disk /\ disk[f.day] \in Seq(AuPieces) BY <1>1 DEF Sound
<1>3. f.fd = "nil" => f.buf = <<>> BY <1>1 DEF Sound
<1>4. CASE x = w /\ (f.fd = "nil" \/ (~f.err /\ f.buf = <<>>))
  <2>1. Carries(w, x, {}) BY <1>4, AuSame
  <2>2. f.buf = <<>> BY <1>3, <1>4
  <2>3. f.fd # "nil" => disk[f.day] \o f.buf = disk[f.day] BY <1>2, <2>2, ConcatEmptySeq
  <2> QED BY <1>4, <2>1, <2>2, <2>3
<1>5. CASE x = [w EXCEPT !.ok = FALSE] /\ f.err
  <2>1. x = [f |-> f, disk |-> disk, ok |-> FALSE, faults |-> w.faults, pruned |-> w.pruned]
    BY <1>5, AuEditRefused, Zenon
  <2>2. /\ x.f = f /\ x.disk = disk /\ x.ok = FALSE /\ x.faults = w.faults /\ x.pruned = w.pruned
        /\ x = [f |-> x.f, disk |-> x.disk, ok |-> x.ok, faults |-> x.faults, pruned |-> x.pruned]
    BY <2>1
  <2>3. Carries(w, x, {}) /\ Sound(x.f, x.disk, x.pruned) BY <2>2, AuSame
  <2>4. IsWork(x) BY <2>2, <2>3, AuWorkFields DEF IsWork
  <2> QED BY <1>5, <2>2, <2>3, <2>4
<1>6. ASSUME f.fd # "nil", ~f.err, NEW n \in 0..Len(f.buf),
             x = IF n = Len(f.buf)
                 THEN [w EXCEPT !.disk = auWrite(w.disk, f.day, f.buf, n), !.f.buf = <<>>]
                 ELSE [w EXCEPT !.disk = auWrite(w.disk, f.day, f.buf, n), !.f.buf = rest(n),
                                !.f.err = TRUE, !.ok = FALSE, !.faults = w.faults + 1]
      PROVE /\ IsWork(x) /\ Carries(w, x, {})
            /\ x.f.day = w.f.day /\ x.f.fd = w.f.fd /\ x.pruned = w.pruned /\ DOMAIN x.disk = DOMAIN w.disk
            /\ x.f.err \/ x.f.buf = <<>>
            /\ ~x.ok => x.f.err
            /\ x.ok => x.f.buf = <<>>
            /\ x.ok => /\ ~x.f.err /\ ~w.f.err
                       /\ x.disk[w.f.day] = w.disk[w.f.day] \o w.f.buf
  <2>1. auWrite(disk, f.day, f.buf, n) = to(n) BY DEF auWrite
  <2> DEFINE err == n # Len(f.buf)
  <2>2. /\ x.f = [day |-> f.day, fd |-> f.fd, buf |-> rest(n), err |-> err]
        /\ x.disk = to(n) /\ x.ok = ~err /\ x.pruned = w.pruned
        /\ x.faults = IF err THEN w.faults + 1 ELSE w.faults
        /\ x = [f |-> x.f, disk |-> x.disk, ok |-> x.ok, faults |-> x.faults, pruned |-> x.pruned]
    <3>1. n = Len(f.buf) => rest(n) = <<>> BY AuSplit, AuWorkFields
    <3>2. CASE n = Len(f.buf)
      <4>1. x = [w EXCEPT !.disk = to(n), !.f.buf = rest(n)] BY <1>6, <2>1, <3>1, <3>2
      <4>a. PICK d, b : d = to(n) /\ b = rest(n) OBVIOUS
      <4> HIDE DEF to, rest
      <4>b. x = [w EXCEPT !.disk = d, !.f.buf = b] BY <4>1, <4>a
      <4>c. x = [f |-> [day |-> w.f.day, fd |-> w.f.fd, buf |-> b, err |-> w.f.err], disk |-> d, ok |-> w.ok,
                 faults |-> w.faults, pruned |-> w.pruned]
        <5>1. FlushedTo(w, d, b, x) BY <4>b DEF FlushedTo
        <5> QED BY <5>1, AuEditFlushed
      <4>2. x = [f |-> [day |-> f.day, fd |-> f.fd, buf |-> rest(n), err |-> f.err], disk |-> to(n), ok |-> w.ok,
                 faults |-> w.faults, pruned |-> w.pruned]
        BY <4>a, <4>c
      <4>3. err = FALSE /\ f.err = FALSE /\ w.ok = TRUE BY <1>6, <3>2, AuWorkFields
      <4> QED BY <4>2, <4>3
    <3>3. CASE n # Len(f.buf)
      <4>1. x = [w EXCEPT !.disk = to(n), !.f.buf = rest(n), !.f.err = TRUE, !.ok = FALSE, !.faults = w.faults + 1]
        BY <1>6, <2>1, <3>3
      <4>2. PICK more, d, b : more = w.faults + 1 /\ d = to(n) /\ b = rest(n) OBVIOUS
      <4> HIDE DEF to, rest
      <4>3. x = [w EXCEPT !.disk = d, !.f.buf = b, !.f.err = TRUE, !.ok = FALSE, !.faults = more]
        BY <4>1, <4>2
      <4>c. x = [f |-> [day |-> w.f.day, fd |-> w.f.fd, buf |-> b, err |-> TRUE], disk |-> d, ok |-> FALSE,
                 faults |-> more, pruned |-> w.pruned]
        BY <4>3, AuEditTorn
      <4>4. x = [f |-> [day |-> f.day, fd |-> f.fd, buf |-> rest(n), err |-> TRUE], disk |-> to(n), ok |-> FALSE,
                 faults |-> more, pruned |-> w.pruned]
        BY <4>2, <4>c, Zenon
      <4>5. err = TRUE BY <3>3
      <4> QED BY <4>2, <4>4, <4>5
    <3> QED BY <3>2, <3>3
  <2>3. PICK p, q : p = SubSeq(f.buf, 1, n) /\ q = rest(n) OBVIOUS
  <2>4. p \in Seq(AuPieces) /\ q \in Seq(AuPieces) /\ f.buf = p \o q /\ (n = Len(f.buf) => p = f.buf /\ q = <<>>)
    <3>1. f.buf \in Seq(AuPieces) BY AuWorkFields
    <3> HIDE DEF f
    <3> QED BY <2>3, <3>1, AuSplit
  <2>5. x.f \in AuFiles /\ x.f.day = f.day /\ x.f.fd = f.fd /\ x.f.buf = q /\ x.f.err = err
    <3>1. f.day \in auDays /\ f.fd \in {"open", "nil", "closed"} /\ err \in BOOLEAN BY AuWorkFields
    <3> HIDE DEF f, err, rest, to
    <3> QED BY <2>2, <2>3, <2>4, <3>1 DEF AuFiles
  <2>6. x.disk = [disk EXCEPT ![f.day] = disk[f.day] \o p] BY <2>2, <2>3
  <2>7. /\ Sound(x.f, x.disk, w.pruned) /\ DOMAIN x.disk = DOMAIN disk /\ x.disk[f.day] = disk[f.day] \o p
        /\ SavedIn(disk, w.pruned) \subseteq SavedIn(x.disk, w.pruned)
        /\ KeptIn(f, disk, w.pruned) \subseteq KeptIn(x.f, x.disk, w.pruned)
        /\ NamedIn(x.f, x.disk, w.pruned) = NamedIn(f, disk, w.pruned)
    <3>1. f.day \in DOMAIN disk BY <1>2, <1>6
    <3>2. PICK new : new = x.disk OBVIOUS
    <3>a. f.fd # "nil" /\ ~f.err BY <1>6
    <3>3. MovesTo(f, disk, p, q, x.f, new)
      <4> HIDE DEF f, disk, err
      <4> QED BY <2>4, <2>5, <2>6, <3>1, <3>2, <3>a DEF MovesTo
    <3>4. new[f.day] = disk[f.day] \o p /\ DOMAIN new = DOMAIN disk BY <3>3 DEF MovesTo
    <3> HIDE DEF f, disk, err
    <3>5. /\ Sound(x.f, new, w.pruned)
          /\ SavedIn(disk, w.pruned) \subseteq SavedIn(new, w.pruned)
          /\ KeptIn(f, disk, w.pruned) \subseteq KeptIn(x.f, new, w.pruned)
          /\ NamedIn(x.f, new, w.pruned) = NamedIn(f, disk, w.pruned)
      BY <1>1, <3>3, AuMoved
    <3> QED BY <3>2, <3>4, <3>5
  <2>8. x.faults \in Int /\ x.ok \in BOOLEAN
    <3>1. w.faults \in Int BY AuWorkFields
    <3> HIDE DEF err
    <3>2. err \in BOOLEAN BY DEF err
    <3> QED BY <2>2, <3>1, <3>2
  <2>9. IsWork(x) BY <2>2, <2>7, <2>8 DEF IsWork
  <2>10. Carries(w, x, {}) BY <2>2, <2>7 DEF Carries
  <2>11. (~x.ok => x.f.err) /\ (x.ok => n = Len(f.buf)) /\ (x.f.err \/ n = Len(f.buf)) BY <2>2, <2>5
  <2> HIDE DEF f, disk, err
  <2> QED BY <1>6, <2>2, <2>4, <2>5, <2>7, <2>9, <2>10, <2>11 DEF f, disk, err
<1>7. \/ x = w /\ (f.fd = "nil" \/ (~f.err /\ f.buf = <<>>))
      \/ x = [w EXCEPT !.ok = FALSE] /\ f.err
      \/ /\ f.fd # "nil" /\ ~f.err
         /\ \E n \in auWrites(f, f.buf) :
              x = IF n = Len(f.buf)
                  THEN [w EXCEPT !.disk = auWrite(w.disk, f.day, f.buf, n), !.f.buf = <<>>]
                  ELSE [w EXCEPT !.disk = auWrite(w.disk, f.day, f.buf, n), !.f.buf = rest(n),
                                 !.f.err = TRUE, !.ok = FALSE, !.faults = w.faults + 1]
  BY DEF auFlushes
<1>8. auWrites(f, f.buf) \subseteq 0..Len(f.buf)
  <2>1. Len(f.buf) \in Nat BY AuWorkFields, LenProperties
  <2> QED BY <2>1 DEF auWrites
<1> QED BY <1>4, <1>5, <1>6, <1>7, <1>8
\* The pieces of a line that go to the buffer before it is full, and the rest.
Cut(s, r, n, p, q) ==
  /\ p \in Seq(AuPieces) /\ q \in Seq(AuPieces)
  /\ p = SubSeq(auLine(r), 1, n) /\ q = SubSeq(auLine(r), n + 1, Len(auLine(r)))
  /\ Len(p) = n /\ Len(q) = 2 - n
  /\ RecsOf(p) \subseteq {r} /\ RecsOf(q) \subseteq {r} /\ {r} = auRecordsIn(p) \cup auRecordsIn(q)
  /\ OfDay(p, auDayOf(r.at)) /\ OfDay(q, auDayOf(r.at))
  /\ Paired(s \o p) /\ Paired((s \o p) \o q)
LEMMA AuCut ==
  ASSUME NEW s \in Seq(AuPieces), Paired(s), NEW r \in AuRecs, NEW n \in 0..2
  PROVE  \E p, q : Cut(s, r, n, p, q)
<1>1. PICK t : t = auLine(r) OBVIOUS
<1>2. /\ t \in Seq(AuPieces) /\ Len(t) = 2 /\ RecsOf(t) = {r} /\ auRecordsIn(t) = {r}
      /\ OfDay(t, auDayOf(r.at)) /\ Paired(s \o t)
  BY <1>1, AuLineAfter
<1>3. PICK p, q : p = SubSeq(t, 1, n) /\ q = SubSeq(t, n + 1, Len(t)) OBVIOUS
<1>4. p \in Seq(AuPieces) /\ q \in Seq(AuPieces) /\ Len(p) = n /\ Len(q) = 2 - n /\ t = p \o q
  <2>1. n \in 0..Len(t) BY <1>2
  <2>2. /\ SubSeq(t, 1, n) \in Seq(AuPieces) /\ SubSeq(t, n + 1, Len(t)) \in Seq(AuPieces)
        /\ Len(SubSeq(t, 1, n)) = n /\ Len(SubSeq(t, n + 1, Len(t))) = Len(t) - n
        /\ t = SubSeq(t, 1, n) \o SubSeq(t, n + 1, Len(t))
    BY <1>2, <2>1, AuSplit
  <2> QED BY <1>2, <1>3, <2>2
<1>5. /\ RecsOf(t) = RecsOf(p) \cup RecsOf(q) /\ auRecordsIn(t) = auRecordsIn(p) \cup auRecordsIn(q)
      /\ \A d : OfDay(t, d) <=> OfDay(p, d) /\ OfDay(q, d)
  BY <1>4, AuJoined
<1>6. (s \o p) \o q = s \o t
  <2>1. (s \o p) \o q = s \o (p \o q) BY <1>4, AuGrouped
  <2> QED BY <1>4, <2>1
<1>7. s \o p \in Seq(AuPieces) BY <1>4, AuJoined
<1>8. Paired((s \o p) \o q) BY <1>2, <1>6
<1>9. Paired(s \o p) BY <1>4, <1>7, <1>8, AuJoined
<1>10. RecsOf(p) \subseteq {r} /\ RecsOf(q) \subseteq {r} /\ {r} = auRecordsIn(p) \cup auRecordsIn(q) BY <1>2, <1>5
<1>11. OfDay(p, auDayOf(r.at)) /\ OfDay(q, auDayOf(r.at)) BY <1>2, <1>5
<1> QED BY <1>1, <1>3, <1>4, <1>8, <1>9, <1>10, <1>11 DEF Cut

\* More of a line in the buffer of a call in progress.
More(w, t, x) ==
  /\ t \in Seq(AuPieces) /\ w.f.fd # "nil" /\ ~w.f.err
  /\ OfDay(t, w.f.day) /\ Paired((w.disk[w.f.day] \o w.f.buf) \o t) /\ Len(w.f.buf) + Len(t) <= AuBufSize
  /\ \A p \in w.pruned : p.rec \notin RecsOf(t)
  /\ x = [w EXCEPT !.f.buf = w.f.buf \o t]
LEMMA AuMore ==
  ASSUME NEW w, IsWork(w), NEW t, NEW x, More(w, t, x)
  PROVE  /\ IsWork(x) /\ x.ok = w.ok /\ x.disk = w.disk /\ x.pruned = w.pruned
         /\ x.f.day = w.f.day /\ x.f.fd = w.f.fd /\ ~x.f.err /\ x.f.buf = w.f.buf \o t
         /\ KeptIn(x.f, x.disk, x.pruned) = KeptIn(w.f, w.disk, w.pruned) \cup auRecordsIn(t)
         /\ Carries(w, x, RecsOf(t))
<1>1. PICK b : b = w.f.buf \o t OBVIOUS
<1>2. BufferTo(w, b, x) BY <1>1 DEF More, BufferTo
<1>3. x = [f |-> [day |-> w.f.day, fd |-> w.f.fd, buf |-> b, err |-> w.f.err], disk |-> w.disk, ok |-> w.ok,
           faults |-> w.faults, pruned |-> w.pruned]
  BY <1>2, AuEditBuffer
<1>4. /\ x = [f |-> x.f, disk |-> x.disk, ok |-> x.ok, faults |-> x.faults, pruned |-> x.pruned]
      /\ x.f = [day |-> w.f.day, fd |-> w.f.fd, buf |-> b, err |-> w.f.err]
      /\ x.disk = w.disk /\ x.ok = w.ok /\ x.faults = w.faults /\ x.pruned = w.pruned
  BY <1>3
<1>5. x.f.day = w.f.day /\ x.f.fd = w.f.fd /\ x.f.err = w.f.err /\ x.f.buf = b BY <1>4
<1>6. PICK f, disk, pruned : f = w.f /\ disk = w.disk /\ pruned = w.pruned OBVIOUS
<1>7. /\ Sound(f, disk, pruned) /\ f.fd # "nil" /\ ~f.err /\ t \in Seq(AuPieces) /\ OfDay(t, f.day)
      /\ Paired((disk[f.day] \o f.buf) \o t) /\ Len(f.buf) + Len(t) <= AuBufSize
      /\ \A y \in pruned : y.rec \notin RecsOf(t)
  BY <1>6 DEF More, IsWork
<1>8. PICK g : g = x.f OBVIOUS
<1>9. g = [day |-> f.day, fd |-> f.fd, buf |-> f.buf \o t, err |-> f.err] BY <1>1, <1>4, <1>6, <1>8
<1>10. /\ Sound(g, disk, pruned)
       /\ KeptIn(g, disk, pruned) = KeptIn(f, disk, pruned) \cup auRecordsIn(t)
       /\ NamedIn(g, disk, pruned) = NamedIn(f, disk, pruned) \cup RecsOf(t)
  <2>1. Fills(f, disk, pruned, t, g) BY <1>7, <1>9 DEF Fills
  <2> QED BY <1>7, <2>1, AuFilled
<1>11. IsWork(x)
  <2>1. w.ok \in BOOLEAN /\ w.faults \in Int BY AuWorkFields
  <2>2. Sound(x.f, x.disk, x.pruned) BY <1>4, <1>6, <1>8, <1>10
  <2> QED BY <1>4, <2>1, <2>2 DEF IsWork
<1>12. /\ KeptIn(x.f, x.disk, x.pruned) = KeptIn(w.f, w.disk, w.pruned) \cup auRecordsIn(t)
       /\ NamedIn(x.f, x.disk, x.pruned) = NamedIn(w.f, w.disk, w.pruned) \cup RecsOf(t)
  BY <1>4, <1>6, <1>8, <1>10
<1>13. Carries(w, x, RecsOf(t)) BY <1>4, <1>12 DEF Carries
<1>14. ~x.f.err BY <1>5, <1>6, <1>7
<1> QED BY <1>1, <1>4, <1>5, <1>11, <1>12, <1>13, <1>14

\* A record that no piece is of yet goes behind what is there.
LEMMA AuBuffersWell ==
  ASSUME NEW w, IsWork(w), w.ok, w.f.fd # "nil",
         NEW rec \in AuRecs, auDayOf(rec.at) = w.f.day, rec \notin NamedIn(w.f, w.disk, w.pruned),
         NEW x \in auBuffers(w, auLine(rec))
  PROVE  /\ IsWork(x) /\ Carries(w, x, {rec}) /\ x.f.fd # "nil"
         /\ x.ok => rec \in KeptIn(x.f, x.disk, x.pruned)
<1> DEFINE line == auLine(rec)
           room == AuBufSize - Len(w.f.buf)
           full == [w EXCEPT !.f.buf = w.f.buf \o SubSeq(line, 1, room)]
<1>1. Sound(w.f, w.disk, w.pruned) /\ w.f.buf \in Seq(AuPieces) BY AuWorkFields DEF IsWork
<1>2. w.f.day \in DOMAIN w.disk /\ w.disk[w.f.day] \in Seq(AuPieces) /\ Len(w.f.buf) <= AuBufSize BY <1>1 DEF Sound
<1>3. room \in Nat /\ Len(w.f.buf) \in Nat
  <2>1. Len(w.f.buf) \in Nat /\ AuBufSize \in Nat BY <1>1, LenProperties, AuAssumption DEF AuAssumption
  <2> QED BY <1>2, <2>1
<1>4. \A p \in w.pruned : p.rec # rec BY DEF NamedIn
<1>5. PICK s : s = w.disk[w.f.day] \o w.f.buf OBVIOUS
<1>6. s \in Seq(AuPieces) BY <1>1, <1>2, <1>5, AuJoined
<1>7. Len(line) = 2 BY DEF auLine
<1>8. CASE w.f.err
  <2>1. x = [w EXCEPT !.ok = FALSE] BY <1>8 DEF auBuffers
  <2>2. x = [f |-> w.f, disk |-> w.disk, ok |-> FALSE, faults |-> w.faults, pruned |-> w.pruned]
    BY <2>1, AuEditRefused, Zenon
  <2>3. /\ x.f = w.f /\ x.disk = w.disk /\ x.ok = FALSE /\ x.faults = w.faults /\ x.pruned = w.pruned
        /\ x = [f |-> x.f, disk |-> x.disk, ok |-> x.ok, faults |-> x.faults, pruned |-> x.pruned]
    BY <2>2
  <2>4. Carries(w, x, {}) /\ Sound(x.f, x.disk, x.pruned) BY <2>3, AuSame
  <2>5. IsWork(x) BY <2>3, <2>4, AuWorkFields DEF IsWork
  <2>6. Carries(w, x, {rec}) BY <2>4 DEF Carries
  <2> QED BY <2>3, <2>5, <2>6
<1>9. CASE ~w.f.err
  <2>p. Paired(s) BY <1>1, <1>5, <1>9 DEF Sound
  <2>1. CASE 2 <= room
    <3>1. x = [w EXCEPT !.f.buf = w.f.buf \o line] BY <1>7, <1>9, <2>1 DEF auBuffers
    <3>2. PICK t : t = line OBVIOUS
    <3>3. /\ t \in Seq(AuPieces) /\ Len(t) = 2 /\ RecsOf(t) = {rec} /\ auRecordsIn(t) = {rec}
          /\ OfDay(t, w.f.day) /\ Paired(s \o t)
      BY <1>6, <2>p, <3>2, AuLineAfter
    <3>4. More(w, t, x)
      <4>1. Len(w.f.buf) + Len(t) <= AuBufSize
        <5>1. AuBufSize \in Nat BY AuAssumption DEF AuAssumption
        <5> QED BY <1>3, <2>1, <3>3, <5>1
      <4>2. \A p \in w.pruned : p.rec \notin RecsOf(t) BY <1>4, <3>3
      <4> HIDE DEF line, room, full
      <4>3. x = [w EXCEPT !.f.buf = w.f.buf \o t] BY <3>1, <3>2
      <4> QED BY <1>5, <1>9, <3>3, <4>1, <4>2, <4>3 DEF More
    <3>5. /\ IsWork(x) /\ x.f.fd = w.f.fd
          /\ KeptIn(x.f, x.disk, x.pruned) = KeptIn(w.f, w.disk, w.pruned) \cup auRecordsIn(t)
          /\ Carries(w, x, RecsOf(t))
      BY <3>4, AuMore
    <3> QED BY <3>3, <3>5
  <2>2. CASE ~(2 <= room)
    <3>1. \E y \in auFlushes(full) : x = IF y.ok THEN [y EXCEPT !.f.buf = SubSeq(line, room + 1, Len(line))] ELSE y
      BY <1>7, <1>9, <2>2 DEF auBuffers
    <3>2. PICK y \in auFlushes(full) :
            x = IF y.ok THEN [y EXCEPT !.f.buf = SubSeq(line, room + 1, Len(line))] ELSE y
      BY <3>1
    <3>3. room \in 0..2 BY <1>3, <2>2
    <3>a. PICK p, q : Cut(s, rec, room, p, q)
      <4> HIDE DEF room
      <4> QED BY <1>6, <2>p, <3>3, AuCut
    <3>4. /\ p \in Seq(AuPieces) /\ q \in Seq(AuPieces)
          /\ p = SubSeq(line, 1, room) /\ q = SubSeq(line, room + 1, Len(line))
          /\ Len(p) = room /\ Len(q) = 2 - room
          /\ RecsOf(p) \subseteq {rec} /\ RecsOf(q) \subseteq {rec} /\ {rec} = auRecordsIn(p) \cup auRecordsIn(q)
          /\ OfDay(p, w.f.day) /\ OfDay(q, w.f.day)
          /\ Paired(s \o p) /\ Paired((s \o p) \o q)
      <4> HIDE DEF room
      <4> QED BY <3>a DEF Cut
    <3>v. PICK v : v = full OBVIOUS
    <3>5. More(w, p, v)
      <4>1. Len(w.f.buf) + Len(p) <= AuBufSize
        <5>1. AuBufSize \in Nat BY AuAssumption DEF AuAssumption
        <5> QED BY <1>3, <3>4, <5>1
      <4>2. \A z \in w.pruned : z.rec \notin RecsOf(p) BY <1>4, <3>4
      <4>3. v = [w EXCEPT !.f.buf = w.f.buf \o p] BY <3>4, <3>v
      <4> HIDE DEF line, room, full
      <4> QED BY <1>5, <1>9, <3>4, <4>1, <4>2, <4>3 DEF More
    <3>7. /\ IsWork(v) /\ v.ok = w.ok /\ v.disk = w.disk /\ v.pruned = w.pruned
          /\ v.f.day = w.f.day /\ v.f.fd = w.f.fd /\ ~v.f.err /\ v.f.buf = w.f.buf \o p
          /\ KeptIn(v.f, v.disk, v.pruned) = KeptIn(w.f, w.disk, w.pruned) \cup auRecordsIn(p)
          /\ Carries(w, v, RecsOf(p))
      BY <3>5, AuMore
    <3>8. /\ IsWork(y) /\ Carries(v, y, {})
          /\ y.f.day = v.f.day /\ y.f.fd = v.f.fd /\ y.pruned = v.pruned
          /\ y.ok => /\ y.f.buf = <<>> /\ ~y.f.err
                     /\ y.disk[v.f.day] = v.disk[v.f.day] \o v.f.buf
      <4>1. y \in auFlushes(v) BY <3>2, <3>v
      <4> HIDE DEF full, line, room
      <4>2. v.ok /\ IsWork(v) BY <3>7
      <4>3. FlushedWell(v, y) BY <4>1, <4>2, AuFlushesWell
      <4> QED BY <3>7, <4>3 DEF FlushedWell
    <3>9. Carries(w, y, {rec})
      <4>1. Carries(w, y, RecsOf(p) \cup {}) BY <3>7, <3>8, AuKeepsOn
      <4> QED BY <3>4, <4>1 DEF Carries
    <3>10. CASE ~y.ok
      <4>1. x = y BY <3>2, <3>10
      <4> QED BY <3>7, <3>8, <3>9, <3>10, <4>1
    <3>11. CASE y.ok
      <4>1. x = [y EXCEPT !.f.buf = q] BY <3>2, <3>4, <3>11
      <4>2. y.f.buf \o q = q BY <3>8, <3>11, <3>4, ConcatEmptySeq
      <4>3. y.disk[y.f.day] = s \o p
        <5>2. (w.disk[w.f.day] \o w.f.buf) \o p = w.disk[w.f.day] \o (w.f.buf \o p)
          <6>1. PICK a, b : a = w.disk[w.f.day] /\ b = w.f.buf OBVIOUS
          <6>2. a \in Seq(AuPieces) /\ b \in Seq(AuPieces) /\ p \in Seq(AuPieces) BY <1>1, <1>2, <3>4, <6>1
          <6>3. \A z1, z2, z3 \in Seq(AuPieces) : (z1 \o z2) \o z3 = z1 \o (z2 \o z3) BY AuGrouped
          <6>4. (a \o b) \o p = a \o (b \o p) BY <6>2, <6>3
          <6> QED BY <6>1, <6>4
        <5> QED BY <1>5, <3>7, <3>8, <3>11, <5>2
      <4>4. s \o p \in Seq(AuPieces) BY <1>6, <3>4, AuJoined
      <4>5. (y.disk[y.f.day] \o y.f.buf) \o q = (s \o p) \o q
        <5>1. (s \o p) \o <<>> = s \o p BY <4>4, ConcatEmptySeq
        <5> QED BY <3>8, <3>11, <4>3, <5>1
      <4>6. Len(y.f.buf) + Len(q) <= AuBufSize
        <5>1. AuBufSize \in Nat /\ AuBufSize >= 2 /\ Len(y.f.buf) = 0 BY <3>8, <3>11, AuAssumption DEF AuAssumption
        <5>2. PICK k : k = room OBVIOUS
        <5>3. k \in 0..2 /\ Len(q) = 2 - k BY <3>3, <3>4, <5>2
        <5> QED BY <5>1, <5>3
      <4>7. More(y, q, x)
        <5>1. \A z \in y.pruned : z.rec \notin RecsOf(q) BY <1>4, <3>4, <3>7, <3>8
        <5> HIDE DEF line, room
        <5>2. y.f.fd # "nil" /\ ~y.f.err BY <3>7, <3>8, <3>11
        <5>3. OfDay(q, y.f.day) BY <3>4, <3>7, <3>8
        <5>4. Paired((y.disk[y.f.day] \o y.f.buf) \o q) BY <3>4, <4>5
        <5>5. x = [y EXCEPT !.f.buf = y.f.buf \o q] BY <4>1, <4>2
        <5> QED BY <3>4, <4>6, <5>1, <5>2, <5>3, <5>4, <5>5 DEF More
      <4>8. /\ IsWork(x) /\ x.f.fd = y.f.fd
            /\ KeptIn(x.f, x.disk, x.pruned) = KeptIn(y.f, y.disk, y.pruned) \cup auRecordsIn(q)
            /\ Carries(y, x, RecsOf(q))
        BY <3>8, <4>7, AuMore
      <4>9. Carries(w, x, {rec})
        <5>1. Carries(w, x, {rec} \cup RecsOf(q)) BY <3>9, <4>8, AuKeepsOn
        <5>2. {rec} \cup RecsOf(q) = {rec} BY <3>4
        <5> QED BY <5>1, <5>2
      <4>10. rec \in KeptIn(x.f, x.disk, x.pruned)
        <5>1. auRecordsIn(p) \subseteq KeptIn(y.f, y.disk, y.pruned) BY <3>7, <3>8 DEF Carries
        <5> QED BY <3>4, <4>8, <5>1
      <4> QED BY <3>7, <3>8, <4>8, <4>9, <4>10
    <3> QED BY <3>10, <3>11
  <2> QED BY <2>1, <2>2
<1> QED BY <1>8, <1>9

\* The file is put down or let go with nothing in its buffer.
Refiles(f, g) ==
  /\ f.buf = <<>> /\ g = [day |-> f.day, fd |-> g.fd, buf |-> <<>>, err |-> f.err]
  /\ g.fd \in {"open", "nil", "closed"} /\ (g.fd # "nil" => f.fd # "nil")
LEMMA AuRefiled ==
  ASSUME NEW f, NEW disk, NEW pruned, Sound(f, disk, pruned), NEW g, Refiles(f, g)
  PROVE  /\ Sound(g, disk, pruned)
         /\ KeptIn(g, disk, pruned) = KeptIn(f, disk, pruned)
         /\ NamedIn(g, disk, pruned) = NamedIn(f, disk, pruned)
<1>1. /\ f \in AuFiles /\ f.buf = <<>> /\ g.buf = <<>> /\ g.day = f.day /\ g.err = f.err
      /\ g.fd \in {"open", "nil", "closed"} /\ (g.fd # "nil" => f.fd # "nil")
  BY DEF Refiles, Sound
<1>2. g \in AuFiles
  <2>1. f.day \in auDays /\ f.err \in BOOLEAN /\ <<>> \in Seq(AuPieces) BY <1>1, AuFileFields
  <2> QED BY <1>1, <2>1 DEF Refiles, AuFiles
<1>3. Sound(g, disk, pruned) BY <1>1, <1>2 DEF Sound
<1> QED BY <1>1, <1>3 DEF KeptIn, NamedIn

\* A call that only put the file down or let it go.
Works(w, x) ==
  /\ x = [f |-> x.f, disk |-> w.disk, ok |-> x.ok, faults |-> x.faults, pruned |-> w.pruned]
  /\ x.ok \in BOOLEAN /\ x.faults \in Int /\ Refiles(w.f, x.f)
LEMMA AuWorksOn ==
  ASSUME NEW w, IsWork(w), NEW x, Works(w, x)
  PROVE  IsWork(x) /\ Carries(w, x, {})
<1>1. /\ x = [f |-> x.f, disk |-> w.disk, ok |-> x.ok, faults |-> x.faults, pruned |-> w.pruned]
      /\ x.ok \in BOOLEAN /\ x.faults \in Int /\ Refiles(w.f, x.f)
  BY DEF Works
<1>2. x.disk = w.disk /\ x.pruned = w.pruned BY <1>1
<1>3. Sound(w.f, w.disk, w.pruned) BY DEF IsWork
<1>4. /\ Sound(x.f, w.disk, w.pruned)
      /\ KeptIn(x.f, w.disk, w.pruned) = KeptIn(w.f, w.disk, w.pruned)
      /\ NamedIn(x.f, w.disk, w.pruned) = NamedIn(w.f, w.disk, w.pruned)
  BY <1>1, <1>3, AuRefiled
<1>5. IsWork(x) BY <1>1, <1>2, <1>4 DEF IsWork
<1> QED BY <1>2, <1>4, <1>5 DEF Carries

LEMMA AuLeavesWell ==
  ASSUME NEW w, IsWork(w), w.ok, NEW x \in auLeaves(w)
  PROVE  /\ IsWork(x) /\ Carries(w, x, {})
         /\ x.ok => x.f.fd = "nil" /\ x.f.buf = <<>>
<1>1. CASE w.f.fd = "nil"
  <2>1. x = w BY <1>1 DEF auLeaves
  <2>2. Carries(w, x, {}) BY <2>1, AuSame
  <2>3. w.f.buf = <<>> BY <1>1 DEF IsWork, Sound
  <2> QED BY <1>1, <2>1, <2>2, <2>3
<1>2. CASE w.f.fd # "nil"
  <2>1. PICK y \in auFlushes(w) :
          \/ ~y.ok /\ x = y
          \/ y.ok /\ y.f.fd = "open" /\ x = [y EXCEPT !.f.fd = "nil", !.f.buf = <<>>]
          \/ y.ok /\ y.f.fd # "open" /\ x = [y EXCEPT !.ok = FALSE]
          \/ y.ok /\ y.f.fd = "open" /\ x = [y EXCEPT !.f.fd = "closed", !.ok = FALSE, !.faults = y.faults + 1]
    BY <1>2 DEF auLeaves
  <2>2. IsWork(y) /\ Carries(w, y, {}) /\ (y.ok => y.f.buf = <<>>)
    <3>1. FlushedWell(w, y) BY AuFlushesWell
    <3> QED BY <3>1 DEF FlushedWell
  <2>3. CASE ~y.ok /\ x = y BY <2>2, <2>3
  <2>4. CASE y.ok /\ y.f.fd = "open" /\ x = [y EXCEPT !.f.fd = "nil", !.f.buf = <<>>]
    <3>1. LeftTo(y, <<>>, x) BY <2>4 DEF LeftTo
    <3>2. x = [f |-> [day |-> y.f.day, fd |-> "nil", buf |-> <<>>, err |-> y.f.err], disk |-> y.disk, ok |-> y.ok,
               faults |-> y.faults, pruned |-> y.pruned]
      BY <2>2, <3>1, AuEditLeft
    <3>3. Refiles(y.f, x.f)
      <4>1. x.f = [day |-> y.f.day, fd |-> "nil", buf |-> <<>>, err |-> y.f.err] BY <3>2
      <4>2. x.f.fd = "nil" BY <4>1
      <4>3. y.f.buf = <<>> BY <2>2, <2>4
      <4> QED BY <4>1, <4>2, <4>3 DEF Refiles
    <3>4. Works(y, x) BY <2>2, <3>2, <3>3, AuWorkFields DEF Works
    <3>5. IsWork(x) /\ Carries(y, x, {}) BY <2>2, <3>4, AuWorksOn
    <3>6. Carries(w, x, {}) BY <2>2, <3>5, AuKeepsOn
    <3>7. x.f.fd = "nil" /\ x.f.buf = <<>> BY <3>2
    <3> QED BY <3>5, <3>6, <3>7
  <2>5. CASE y.ok /\ y.f.fd # "open" /\ x = [y EXCEPT !.ok = FALSE]
    <3>1. x = [f |-> y.f, disk |-> y.disk, ok |-> FALSE, faults |-> y.faults, pruned |-> y.pruned]
      BY <2>2, <2>5, AuEditRefused, Zenon
    <3>2. Works(y, x)
      <4>1. y.f = [day |-> y.f.day, fd |-> y.f.fd, buf |-> y.f.buf, err |-> y.f.err] /\ y.f.fd \in {"open", "nil", "closed"}
        BY <2>2, AuWorkFields
      <4>2. y.f.buf = <<>> BY <2>2, <2>5
      <4>3. Refiles(y.f, y.f) BY <4>1, <4>2 DEF Refiles
      <4>4. x.f = y.f BY <3>1
      <4> QED BY <2>2, <3>1, <4>3, <4>4, AuWorkFields DEF Works
    <3>3. IsWork(x) /\ Carries(y, x, {}) BY <2>2, <3>2, AuWorksOn
    <3>4. Carries(w, x, {}) BY <2>2, <3>3, AuKeepsOn
    <3> QED BY <3>1, <3>3, <3>4
  <2>6. CASE y.ok /\ y.f.fd = "open" /\ x = [y EXCEPT !.f.fd = "closed", !.ok = FALSE, !.faults = y.faults + 1]
    <3>a. PICK n : n = y.faults + 1 OBVIOUS
    <3>1. StuckAt(y, n, x) BY <2>6, <3>a DEF StuckAt
    <3>2. x = [f |-> [day |-> y.f.day, fd |-> "closed", buf |-> y.f.buf, err |-> y.f.err], disk |-> y.disk, ok |-> FALSE,
               faults |-> n, pruned |-> y.pruned]
      BY <2>2, <3>1, AuEditStuck
    <3>3. Refiles(y.f, x.f)
      <4>1. x.f = [day |-> y.f.day, fd |-> "closed", buf |-> y.f.buf, err |-> y.f.err] BY <3>2
      <4>2. x.f.fd = "closed" BY <4>1
      <4>3. y.f.buf = <<>> /\ y.f.fd = "open" BY <2>2, <2>6
      <4> QED BY <4>1, <4>2, <4>3 DEF Refiles
    <3>n. n \in Int
      <4>1. y.faults \in Int BY <2>2, AuWorkFields
      <4> QED BY <3>a, <4>1
    <3>4. Works(y, x) BY <3>2, <3>3, <3>n DEF Works
    <3>5. IsWork(x) /\ Carries(y, x, {}) BY <2>2, <3>4, AuWorksOn
    <3>6. Carries(w, x, {}) BY <2>2, <3>5, AuKeepsOn
    <3> QED BY <3>2, <3>5, <3>6
  <2> QED BY <2>1, <2>3, <2>4, <2>5, <2>6
<1> QED BY <1>1, <1>2

\* An empty file for a day that has none, and the file of the day in hand.
LEMMA AuOpensWell ==
  ASSUME NEW w, IsWork(w), w.ok, w.f.buf = <<>>, NEW day \in auDays, NEW x \in auOpens(w, day)
  PROVE  /\ IsWork(x) /\ Carries(w, x, {})
         /\ x.ok => x.f.fd = "open" /\ x.f.day = day /\ x.f.buf = <<>>
         /\ ~x.ok => x.f = w.f /\ x.disk = w.disk
<1>1. \/ x = [w EXCEPT !.f = [day |-> day, fd |-> "open", buf |-> <<>>, err |-> FALSE],
                       !.disk = IF day \in DOMAIN w.disk THEN w.disk
                                ELSE [d \in DOMAIN w.disk \cup {day} |-> IF d = day THEN <<>> ELSE w.disk[d]]]
      \/ x = [w EXCEPT !.ok = FALSE, !.faults = w.faults + 1]
  BY DEF auOpens
<1>2. CASE x = [w EXCEPT !.ok = FALSE, !.faults = w.faults + 1]
  <2>1. PICK n : n = w.faults + 1 OBVIOUS
  <2>2. FaultAt(w, n, x) BY <1>2, <2>1 DEF FaultAt
  <2>3. x = [f |-> w.f, disk |-> w.disk, ok |-> FALSE, faults |-> n, pruned |-> w.pruned] BY <2>2, AuEditFault
  <2>4. x.f = w.f /\ x.disk = w.disk /\ x.pruned = w.pruned /\ x.ok = FALSE /\ x.faults = n
        /\ x = [f |-> x.f, disk |-> x.disk, ok |-> x.ok, faults |-> x.faults, pruned |-> x.pruned]
    BY <2>3
  <2>5. Carries(w, x, {}) /\ Sound(x.f, x.disk, x.pruned) BY <2>4, AuSame
  <2>6. n \in Int
    <3>1. w.faults \in Int BY AuWorkFields
    <3> QED BY <2>1, <3>1
  <2>7. IsWork(x) BY <2>4, <2>5, <2>6 DEF IsWork
  <2> QED BY <2>4, <2>5, <2>7
<1>3. ASSUME x = [w EXCEPT !.f = [day |-> day, fd |-> "open", buf |-> <<>>, err |-> FALSE],
                       !.disk = IF day \in DOMAIN w.disk THEN w.disk
                                ELSE [d \in DOMAIN w.disk \cup {day} |-> IF d = day THEN <<>> ELSE w.disk[d]]]
      PROVE  /\ IsWork(x) /\ Carries(w, x, {})
             /\ x.ok => x.f.fd = "open" /\ x.f.day = day /\ x.f.buf = <<>>
             /\ x.ok
  <2>1. PICK g, disk, pruned, to :
          /\ g = [day |-> day, fd |-> "open", buf |-> <<>>, err |-> FALSE]
          /\ disk = w.disk /\ pruned = w.pruned
          /\ to = IF day \in DOMAIN w.disk THEN w.disk
                  ELSE [d \in DOMAIN w.disk \cup {day} |-> IF d = day THEN <<>> ELSE w.disk[d]]
    OBVIOUS
  <2>2. OpenedTo(w, to, g, x) BY <1>3, <2>1 DEF OpenedTo
  <2>3. x = [f |-> g, disk |-> to, ok |-> w.ok, faults |-> w.faults, pruned |-> w.pruned] BY <2>2, AuEditOpened
  <2>4. x.f = g /\ x.disk = to /\ x.pruned = pruned /\ x.ok = w.ok /\ x.faults = w.faults
        /\ x = [f |-> x.f, disk |-> x.disk, ok |-> x.ok, faults |-> x.faults, pruned |-> x.pruned]
    BY <2>1, <2>3
  <2>5. Sound(w.f, disk, pruned) BY <2>1 DEF IsWork
  <2>6. /\ g \in AuFiles /\ g.buf = <<>> /\ g.fd = "open" /\ g.day = day /\ g.err = FALSE
    <3>1. <<>> \in Seq(AuPieces) BY AuNothing
    <3> QED BY <2>1, <3>1 DEF AuFiles
  <2>7. /\ DOMAIN to = DOMAIN disk \cup {day}
        /\ to = [d \in DOMAIN to |-> to[d]]
        /\ \A d \in DOMAIN disk : to[d] = disk[d]
        /\ day \notin DOMAIN disk => to[day] = <<>>
    <3>1. CASE day \in DOMAIN disk
      <4>1. to = disk BY <2>1, <3>1
      <4>2. disk = [d \in DOMAIN disk |-> disk[d]] BY <2>5 DEF Sound
      <4> QED BY <3>1, <4>1, <4>2
    <3>2. CASE day \notin DOMAIN disk
      <4>1. to = [d \in DOMAIN disk \cup {day} |-> IF d = day THEN <<>> ELSE disk[d]] BY <2>1, <3>2
      <4> QED BY <3>2, <4>1
    <3> QED BY <3>1, <3>2
  <2>8. /\ DOMAIN disk \subseteq auDays /\ disk \in [DOMAIN disk -> Seq(AuPieces)]
        /\ \A d \in DOMAIN disk : OfDay(disk[d], d) /\ Paired(disk[d])
        /\ pruned \subseteq AuPrunes
        /\ \A p \in pruned : p.when - p.rec.at > AuRetention /\ \A d \in DOMAIN disk : p.rec \notin RecsOf(disk[d])
    BY <2>5 DEF Sound
  <2>9. \A d \in DOMAIN to : to[d] \in Seq(AuPieces) /\ OfDay(to[d], d) /\ Paired(to[d])
    <3>1. ASSUME NEW d \in DOMAIN to PROVE to[d] \in Seq(AuPieces) /\ OfDay(to[d], d) /\ Paired(to[d])
      <4>1. CASE d \in DOMAIN disk BY <2>7, <2>8, <4>1
      <4>2. CASE d \notin DOMAIN disk
        <5>1. to[d] = <<>> BY <2>7, <4>2
        <5> QED BY <5>1, AuNothing
      <4> QED BY <4>1, <4>2
    <3> QED BY <3>1
  <2>10. to \in [DOMAIN to -> Seq(AuPieces)] BY <2>7, <2>9
  <2>11. Paired(to[day] \o <<>>)
    <3>1. to[day] \in Seq(AuPieces) /\ Paired(to[day]) BY <2>7, <2>9
    <3>2. to[day] \o <<>> = to[day] BY <3>1, ConcatEmptySeq
    <3> QED BY <3>1, <3>2
  <2>12. \A d \in DOMAIN to : RecsOf(to[d]) # {} => d \in DOMAIN disk /\ to[d] = disk[d] BY <2>7, AuNothing
  <2>13. Sound(g, to, pruned)
    <3>1. \A p \in pruned : /\ p.when - p.rec.at > AuRetention
                            /\ \A d \in DOMAIN to : p.rec \notin RecsOf(to[d])
                            /\ p.rec \notin RecsOf(g.buf)
      <4>1. ASSUME NEW p \in pruned, NEW d \in DOMAIN to PROVE p.rec \notin RecsOf(to[d]) BY <2>8, <2>12
      <4>2. RecsOf(g.buf) = {} BY <2>6, AuNothing
      <4> QED BY <2>8, <4>1, <4>2
    <3>2. Len(g.buf) <= AuBufSize
      <4>1. AuBufSize \in Nat /\ Len(g.buf) = 0 BY <2>6, AuAssumption DEF AuAssumption
      <4> QED BY <4>1
    <3>3. OfDay(g.buf, g.day) BY <2>6, AuNothing
    <3>4. Paired(to[g.day] \o g.buf) BY <2>6, <2>11
    <3> QED BY <2>6, <2>7, <2>8, <2>9, <2>10, <3>1, <3>2, <3>3, <3>4 DEF Sound
  <2>14. Carries(w, x, {})
    <3>1. SavedIn(disk, pruned) \subseteq SavedIn(to, pruned) BY <2>7 DEF SavedIn
    <3>2. auRecordsIn(w.f.buf) = {} /\ auRecordsIn(g.buf) = {} /\ RecsOf(g.buf) = {} BY <2>6, AuNothing
    <3>3. NamedIn(g, to, pruned) \subseteq NamedIn(w.f, disk, pruned) BY <2>12, <3>2 DEF NamedIn
    <3> QED BY <2>1, <2>4, <3>1, <3>2, <3>3 DEF Carries, KeptIn
  <2>15. IsWork(x)
    <3>1. w.ok \in BOOLEAN /\ w.faults \in Int BY AuWorkFields
    <3> QED BY <2>4, <2>13, <3>1 DEF IsWork
  <2> QED BY <2>4, <2>6, <2>14, <2>15
<1> QED BY <1>1, <1>2, <1>3

\* What prune takes is a day that has left the window, and never the day in hand.
LEMMA AuPruneWell ==
  ASSUME NEW w, IsWork(w), w.ok, w.f.buf = <<>>, auNow \in 0..AuMaxTime, NEW day \in auDays,
         w.f.fd = "open", w.f.day = day, (AuRetention = 0 \/ 2 * (day + 1) > auNow - AuRetention)
  PROVE  /\ IsWork(auPrune(w)) /\ Carries(w, auPrune(w), {})
         /\ auPrune(w).f = w.f /\ auPrune(w).ok
<1> DEFINE old == {d \in DOMAIN w.disk : 2 * (d + 1) <= auNow - AuRetention}
<1>1. CASE AuRetention = 0
  <2>1. auPrune(w) = w BY <1>1 DEF auPrune
  <2> QED BY <2>1, AuSame
<1>2. CASE AuRetention # 0
  <2>1. PICK x, disk, pruned, to, more :
          /\ x = auPrune(w) /\ disk = w.disk /\ pruned = w.pruned
          /\ to = [d \in (DOMAIN disk) \ old |-> disk[d]]
          /\ more = pruned \cup UNION {{[rec |-> r, when |-> auNow] : r \in auRecordsIn(disk[d])} : d \in old}
    OBVIOUS
  <2>2. PrunedTo(w, to, more, x) BY <1>2, <2>1 DEF PrunedTo, auPrune
  <2>3. x = [f |-> w.f, disk |-> to, ok |-> w.ok, faults |-> w.faults, pruned |-> more] BY <2>2, AuEditPruned
  <2>4. x.f = w.f /\ x.disk = to /\ x.pruned = more /\ x.ok = w.ok /\ x.faults = w.faults
        /\ x = [f |-> x.f, disk |-> x.disk, ok |-> x.ok, faults |-> x.faults, pruned |-> x.pruned]
    BY <2>3
  <2>5. Sound(w.f, disk, pruned) BY <2>1 DEF IsWork
  <2>6. /\ DOMAIN disk \subseteq auDays /\ disk \in [DOMAIN disk -> Seq(AuPieces)]
        /\ \A d \in DOMAIN disk : OfDay(disk[d], d) /\ Paired(disk[d])
        /\ pruned \subseteq AuPrunes
        /\ \A p \in pruned : p.when - p.rec.at > AuRetention /\ \A d \in DOMAIN disk : p.rec \notin RecsOf(disk[d])
        /\ w.f \in AuFiles /\ w.f.day \in DOMAIN disk
        /\ (~w.f.err => Paired(disk[w.f.day] \o w.f.buf))
        /\ OfDay(w.f.buf, w.f.day) /\ Len(w.f.buf) <= AuBufSize
    BY <2>5 DEF Sound
  <2>7. old \subseteq DOMAIN disk /\ \A d \in DOMAIN disk : d \in old <=> 2 * (d + 1) <= auNow - AuRetention BY <2>1
  <2>8. /\ DOMAIN to = (DOMAIN disk) \ old /\ to = [d \in DOMAIN to |-> to[d]]
        /\ \A d \in DOMAIN to : d \in DOMAIN disk /\ d \notin old /\ to[d] = disk[d]
    BY <2>1
  <2>9. \A d \in auDays : d \in Int BY DEF auDays
  <2>10. day \notin old
    <3>1. AuRetention \in Int /\ auNow \in Int /\ day \in Int BY <2>9, AuAssumption DEF AuAssumption
    <3> QED BY <1>2, <3>1
  <2> HIDE DEF old
  \* Every record of a file is of its day.
  <2>11. ASSUME NEW d \in DOMAIN disk, NEW r \in auRecordsIn(disk[d])
         PROVE  r \in RecsOf(disk[d]) /\ r \in AuRecs /\ auDayOf(r.at) = d
    <3>1. disk[d] \in Seq(AuPieces) /\ OfDay(disk[d], d) BY <2>6
    <3>2. PICK i \in 1..Len(disk[d]) : disk[d][i].rec = r
      <4>1. DOMAIN disk[d] = 1..Len(disk[d]) BY <3>1, LenProperties
      <4> QED BY <4>1 DEF auRecordsIn
    <3>3. disk[d][i] \in AuPieces BY <3>1, ElementOfSeq
    <3> QED BY <3>1, <3>2, <3>3 DEF RecsOf, OfDay, AuPieces
  <2>12. ASSUME NEW d \in DOMAIN disk, NEW r \in RecsOf(disk[d]) PROVE auDayOf(r.at) = d
    BY <2>6 DEF RecsOf, OfDay
  <2>13. \A p \in more : p \in pruned \/ \E d \in old : p.rec \in auRecordsIn(disk[d]) /\ p.when = auNow
                                           /\ p = [rec |-> p.rec, when |-> auNow]
    BY <2>1
  <2>14. more \subseteq AuPrunes
    <3>1. ASSUME NEW p \in more PROVE p \in AuPrunes
      <4>1. CASE p \in pruned BY <2>6, <4>1
      <4>2. CASE \E d \in old : p.rec \in auRecordsIn(disk[d]) /\ p = [rec |-> p.rec, when |-> auNow]
        <5>1. p.rec \in AuRecs BY <2>7, <2>11, <4>2
        <5> QED BY <4>2, <5>1 DEF AuPrunes
      <4> QED BY <2>13, <4>1, <4>2
    <3> QED BY <3>1
  <2>15. \A p \in more : /\ p.when - p.rec.at > AuRetention
                         /\ \A d \in DOMAIN to : p.rec \notin RecsOf(to[d])
                         /\ p.rec \notin RecsOf(w.f.buf)
    <3>e. RecsOf(w.f.buf) = {} BY AuNothing
    <3>1. ASSUME NEW p \in more
          PROVE  p.when - p.rec.at > AuRetention /\ \A d \in DOMAIN to : p.rec \notin RecsOf(to[d])
      <4>1. CASE p \in pruned BY <2>6, <2>8, <4>1
      <4>2. ASSUME NEW d \in old, p.rec \in auRecordsIn(disk[d]), p.when = auNow
            PROVE  p.when - p.rec.at > AuRetention /\ \A k \in DOMAIN to : p.rec \notin RecsOf(to[k])
        <5>1. p.rec \in AuRecs /\ auDayOf(p.rec.at) = d /\ d \in DOMAIN disk BY <2>7, <2>11, <4>2
        <5>2. 2 * (d + 1) <= auNow - AuRetention BY <2>7, <5>1
        <5>3. p.rec.at \in Int BY <5>1 DEF AuRecs
        <5>4. p.rec.at < 2 * (d + 1) BY <5>1, <5>3 DEF auDayOf
        <5>5. auNow - p.rec.at > AuRetention
          <6>1. AuRetention \in Int /\ auNow \in Int /\ d \in Int BY <2>6, <2>9, <5>1, AuAssumption DEF AuAssumption
          <6> QED BY <5>2, <5>3, <5>4, <6>1
        <5>6. \A k \in DOMAIN to : p.rec \notin RecsOf(to[k]) BY <2>8, <2>12, <5>1, <4>2
        <5> QED BY <4>2, <5>5, <5>6
      <4> QED BY <2>13, <4>1, <4>2
    <3> QED BY <3>e, <3>1
  <2>16. day \in DOMAIN to /\ to[day] = disk[day] BY <2>6, <2>8, <2>10
  <2>17. to \in [DOMAIN to -> Seq(AuPieces)] BY <2>6, <2>8
  <2>18. Sound(w.f, to, more)
    <3>1. \A d \in DOMAIN to : OfDay(to[d], d) /\ Paired(to[d]) BY <2>6, <2>8
    <3>2. DOMAIN to \subseteq auDays BY <2>6, <2>8
    <3> QED BY <2>6, <2>14, <2>15, <2>16, <2>17, <3>1, <3>2 DEF Sound
  <2>19. SavedIn(disk, pruned) \subseteq SavedIn(to, more)
    <3>1. ASSUME NEW d \in DOMAIN disk, NEW r \in auRecordsIn(disk[d]) PROVE r \in SavedIn(to, more)
      <4>1. CASE d \notin old
        <5>1. d \in DOMAIN to /\ r \in auRecordsIn(to[d]) BY <2>8, <4>1
        <5> QED BY <5>1 DEF SavedIn
      <4>2. CASE d \in old
        <5>1. [rec |-> r, when |-> auNow] \in more
          <6>1. PICK p : p = [rec |-> r, when |-> auNow] OBVIOUS
          <6>2. p \in {[rec |-> q, when |-> auNow] : q \in auRecordsIn(disk[d])} BY <3>1, <6>1
          <6>3. p \in UNION {{[rec |-> q, when |-> auNow] : q \in auRecordsIn(disk[k])} : k \in old} BY <4>2, <6>2, Zenon
          <6> QED BY <2>1, <6>1, <6>3
        <5>2. [rec |-> r, when |-> auNow].rec = r OBVIOUS
        <5> QED BY <5>1, <5>2 DEF SavedIn
      <4> QED BY <4>1, <4>2
    <3>2. pruned \subseteq more BY <2>1
    <3> QED BY <3>1, <3>2 DEF SavedIn
  <2>20. NamedIn(w.f, to, more) \subseteq NamedIn(w.f, disk, pruned)
    <3>1. \A d \in DOMAIN to : d \in DOMAIN disk /\ RecsOf(to[d]) = RecsOf(disk[d]) BY <2>8
    <3>2. \A p \in more : p \in pruned \/ \E d \in DOMAIN disk : p.rec \in RecsOf(disk[d]) BY <2>7, <2>11, <2>13
    <3> QED BY <3>1, <3>2 DEF NamedIn
  <2>21. Carries(w, x, {}) BY <2>1, <2>4, <2>19, <2>20 DEF Carries, KeptIn
  <2>22. IsWork(x)
    <3>1. w.ok \in BOOLEAN /\ w.faults \in Int BY AuWorkFields
    <3> QED BY <2>4, <2>18, <3>1 DEF IsWork
  <2> QED BY <2>1, <2>4, <2>21, <2>22
<1> QED BY <1>1, <1>2

LEMMA AuRollsWell ==
  ASSUME NEW w, IsWork(w), w.ok, auNow \in 0..AuMaxTime, NEW day \in auDays,
         (AuRetention = 0 \/ 2 * (day + 1) > auNow - AuRetention), NEW x \in auRolls(w, day)
  PROVE  /\ IsWork(x) /\ Carries(w, x, {})
         /\ x.ok => x.f.fd = "open" /\ x.f.day = day
<1>1. PICK v \in auLeaves(w) : IF v.ok THEN \E y \in auOpens(v, day) : x = IF y.ok THEN auPrune(y) ELSE y ELSE x = v
  BY DEF auRolls
<1>2. IsWork(v) /\ Carries(w, v, {}) /\ (v.ok => v.f.fd = "nil" /\ v.f.buf = <<>>) BY AuLeavesWell
<1>3. CASE ~v.ok BY <1>1, <1>2, <1>3
<1>4. CASE v.ok
  <2>1. PICK y \in auOpens(v, day) : x = IF y.ok THEN auPrune(y) ELSE y BY <1>1, <1>4
  <2>2. IsWork(y) /\ Carries(v, y, {}) /\ (y.ok => y.f.fd = "open" /\ y.f.day = day /\ y.f.buf = <<>>)
    BY <1>2, <1>4, AuOpensWell
  <2>3. Carries(w, y, {}) BY <1>2, <2>2, AuKeepsOn
  <2>4. CASE ~y.ok BY <2>1, <2>2, <2>3, <2>4
  <2>5. CASE y.ok
    <3>1. x = auPrune(y) BY <2>1, <2>5
    <3>2. IsWork(x) /\ Carries(y, x, {}) /\ x.f = y.f /\ x.ok BY <2>2, <2>5, <3>1, AuPruneWell
    <3>3. Carries(w, x, {}) BY <2>3, <3>2, AuKeepsOn
    <3> QED BY <2>2, <2>5, <3>2, <3>3
  <2> QED BY <2>4, <2>5
<1> QED BY <1>3, <1>4

\* What Append writes, rolling the file first when the day has changed.
LEMMA AuAppendsWell ==
  ASSUME Sound(auFile, auDisk, auPruned), auNow \in 0..AuMaxTime, auFaults \in Int,
         NEW rec \in AuRecs, (AuRetention = 0 \/ auNow - rec.at <= AuRetention), rec \notin NamedIn(auFile, auDisk, auPruned),
         NEW x \in auAppends(rec)
  PROVE  /\ IsWork(x) /\ Carries(auAt(auFile, auDisk, TRUE), x, {rec})
         /\ x.ok => rec \in KeptIn(x.f, x.disk, x.pruned)
<1>1. PICK w : w = auAt(auFile, auDisk, TRUE) OBVIOUS
<1>2. IsWork(w) /\ w.ok /\ w.f = auFile /\ w.disk = auDisk /\ w.pruned = auPruned BY <1>1 DEF auAt, IsWork
<1>3. PICK y : /\ y \in IF auDayOf(rec.at) = auFile.day THEN {w} ELSE auRolls(w, auDayOf(rec.at))
               /\ IF y.ok THEN y.f.fd # "nil" /\ x \in auBuffers(y, auLine(rec)) ELSE x = y
  BY <1>1 DEF auAppends
<1>d. auDayOf(rec.at) \in auDays /\ (AuRetention = 0 \/ 2 * (auDayOf(rec.at) + 1) > auNow - AuRetention)
  <2>1. rec.at \in 0..AuMaxTime /\ AuMaxTime \in Nat /\ AuRetention \in Nat BY AuAssumption DEF AuRecs, AuAssumption
  <2> QED BY <2>1 DEF auDayOf, auDays
<1>4. IsWork(y) /\ Carries(w, y, {}) /\ (y.ok /\ y.f.fd # "nil" => y.f.day = auDayOf(rec.at))
  <2>1. CASE auDayOf(rec.at) = auFile.day
    <3>1. y = w BY <1>3, <2>1
    <3>2. Carries(w, y, {}) BY <1>2, <3>1, AuSame
    <3> QED BY <1>2, <2>1, <3>1, <3>2
  <2>2. CASE auDayOf(rec.at) # auFile.day
    <3>1. y \in auRolls(w, auDayOf(rec.at)) BY <1>3, <2>2
    <3> QED BY <1>2, <1>d, <3>1, AuRollsWell
  <2> QED BY <2>1, <2>2
<1>5. rec \notin NamedIn(y.f, y.disk, y.pruned) BY <1>2, <1>4 DEF Carries
<1>6. CASE ~y.ok
  <2>1. x = y BY <1>3, <1>6
  <2>2. Carries(w, x, {rec}) BY <1>4, <2>1 DEF Carries
  <2> QED BY <1>1, <1>4, <1>6, <2>1, <2>2
<1>7. CASE y.ok
  <2>1. y.f.fd # "nil" /\ x \in auBuffers(y, auLine(rec)) BY <1>3, <1>7
  <2>2. IsWork(x) /\ Carries(y, x, {rec}) /\ (x.ok => rec \in KeptIn(x.f, x.disk, x.pruned))
    BY <1>4, <1>5, <1>7, <2>1, AuBuffersWell
  <2>3. Carries(w, x, {} \cup {rec}) BY <1>4, <2>2, AuKeepsOn
  <2> QED BY <1>1, <2>2, <2>3
<1> QED BY <1>6, <1>7

-----------------------------------------------------------------------------
(* Every step keeps the invariant.                                         *)

AuOpen == Sound(auFile, auDisk, auPruned)
AuKnown == NamedIn(auFile, auDisk, auPruned) \subseteq auQueued
AuThere == auQueued \subseteq Range(auQueue) \cup KeptIn(auFile, auDisk, auPruned) \cup auFailed \cup auLost

LEMMA AuInvParts == AuInv <=> AuOpen /\ QueueHolds /\ HandlersHold /\ RunHolds /\ AuKnown /\ AuThere /\ SyncReaches
BY DEF AuInv, AuOpen, AuKnown, AuThere

LEMMA AuSaved == auOnDisk = SavedIn(auDisk, auPruned)
BY DEF auOnDisk, SavedIn

\* What the handlers have queued, as records.
LEMMA AuQueuedRecs ==
  ASSUME HandlersHold
  PROVE  auQueued \subseteq AuRecs
<1> SUFFICES ASSUME NEW h \in AuHandlers PROVE auRec(h) \in AuRecs BY DEF auQueued
<1>1. auHandler[h] \in AuStates BY DEF HandlersHold
<1> QED BY <1>1 DEF AuStates, auRec, AuRecs

LEMMA AuQueuedStays ==
  ASSUME \A h \in AuHandlers : auHandler'[h].did = "queued" <=> auHandler[h].did = "queued",
         \A h \in AuHandlers : auHandler[h].did = "queued" => auHandler'[h].at = auHandler[h].at
  PROVE  auQueued' = auQueued
<1>1. ASSUME NEW r \in auQueued PROVE r \in auQueued'
  <2>1. PICK h \in AuHandlers : auHandler[h].did = "queued" /\ r = auRec(h) BY DEF auQueued
  <2>2. auHandler'[h].did = "queued" /\ r = auRec(h)' BY <2>1 DEF auRec
  <2> QED BY <2>2 DEF auQueued
<1>2. ASSUME NEW r \in auQueued' PROVE r \in auQueued
  <2>1. PICK h \in AuHandlers : auHandler'[h].did = "queued" /\ r = auRec(h)' BY DEF auQueued
  <2>2. auHandler[h].did = "queued" /\ r = auRec(h) BY <2>1 DEF auRec
  <2> QED BY <2>2 DEF auQueued
<1> QED BY <1>1, <1>2

\* A step that leaves the queue, the file and the directory alone.
LEMMA AuAside ==
  ASSUME AuOpen, QueueHolds, AuKnown, AuThere, SyncReaches,
         UNCHANGED <<auNow, auQueue, auFile, auDisk, auPruned, auFailed, auLost>>, auQueued' = auQueued
  PROVE  AuOpen' /\ QueueHolds' /\ AuKnown' /\ AuThere'
<1>1. AuOpen' BY DEF AuOpen, Sound
<1>2. NamedIn(auFile, auDisk, auPruned)' = NamedIn(auFile, auDisk, auPruned) BY DEF NamedIn
<1>3. KeptIn(auFile, auDisk, auPruned)' = KeptIn(auFile, auDisk, auPruned) BY DEF KeptIn, SavedIn
<1>4. Range(auQueue)' = Range(auQueue) OBVIOUS
<1>5. QueueHolds' BY <1>2, <1>4 DEF QueueHolds
<1> QED BY <1>1, <1>2, <1>3, <1>4, <1>5 DEF AuKnown, AuThere

LEMMA AuSyncStays ==
  ASSUME SyncReaches, UNCHANGED auSync,
         SavedIn(auDisk, auPruned) \subseteq SavedIn(auDisk', auPruned'), auFailed \subseteq auFailed', auLost \subseteq auLost'
  PROVE  SyncReaches'
<1>1. auOnDisk' = SavedIn(auDisk', auPruned') BY DEF auOnDisk, SavedIn
<1> QED BY <1>1, AuSaved DEF SyncReaches

LEMMA AuStampStep ==
  ASSUME AuInv, NEW h \in AuHandlers, AuStamp(h)
  PROVE  AuInv'
<1>1. AuOpen /\ QueueHolds /\ HandlersHold /\ RunHolds /\ AuKnown /\ AuThere /\ SyncReaches BY AuInvParts
<1>2. /\ UNCHANGED <<auNow, auQueue, auFile, auDisk, auPruned, auFailed, auLost, auSync, auRun, auQuit, auFaults>>
      /\ auHandler' = [auHandler EXCEPT ![h] = [at |-> auNow, did |-> "waiting"]]
      /\ auHandler[h].did = "idle"
  BY DEF AuStamp
<1>3. /\ auHandler' = [g \in AuHandlers |-> IF g = h THEN [at |-> auNow, did |-> "waiting"] ELSE auHandler[g]]
      /\ auHandler'[h].at = auNow /\ auHandler'[h].did = "waiting"
      /\ \A g \in AuHandlers : g # h => auHandler'[g] = auHandler[g]
  <2>1. auHandler = [g \in AuHandlers |-> auHandler[g]] BY <1>1 DEF HandlersHold
  <2> QED BY <1>2, <2>1
<1>4. auQueued' = auQueued BY <1>2, <1>3, AuQueuedStays
<1>5. HandlersHold'
  <2>1. [at |-> auNow, did |-> "waiting"] \in AuStates BY <1>1 DEF AuStates, RunHolds
  <2>2. auHandler' \in [AuHandlers -> AuStates] BY <1>1, <1>3, <2>1 DEF HandlersHold
  <2>3. auNow \in Int /\ (AuRetention = 0 \/ auNow - auNow <= AuRetention) BY <1>1, AuAssumption DEF RunHolds, AuAssumption
  <2>4. \A g \in AuHandlers : auHandler'[g].did # "idle" => auHandler'[g].at <= auNow
    BY <1>1, <1>3, <2>3 DEF HandlersHold
  <2>5. \A g \in AuHandlers : auHandler'[g].did = "waiting" => (AuRetention = 0 \/ auNow - auHandler'[g].at <= AuRetention)
    BY <1>1, <1>3, <2>3 DEF HandlersHold
  <2> QED BY <1>2, <2>2, <2>4, <2>5 DEF HandlersHold
<1>6. AuOpen' /\ QueueHolds' /\ AuKnown' /\ AuThere' BY <1>1, <1>2, <1>4, AuAside
<1>7. SyncReaches' BY <1>1, <1>2, AuSyncStays
<1>8. RunHolds' BY <1>1, <1>2, <1>4 DEF RunHolds
<1> QED BY <1>5, <1>6, <1>7, <1>8 DEF AuInv, AuOpen, AuKnown, AuThere

LEMMA AuWriteStep ==
  ASSUME AuInv, NEW h \in AuHandlers, AuWrite(h)
  PROVE  AuInv'
<1>1. AuOpen /\ QueueHolds /\ HandlersHold /\ RunHolds /\ AuKnown /\ AuThere /\ SyncReaches BY AuInvParts
<1>2. UNCHANGED <<auNow, auFile, auDisk, auPruned, auFailed, auLost, auSync, auRun, auQuit, auFaults>>
      /\ auHandler[h].did = "waiting"
  BY DEF AuWrite
<1>h. auHandler \in [AuHandlers -> AuStates] BY <1>1 DEF HandlersHold
\* Both ways the select can go, as changes of one handler.
<1>3. ASSUME NEW did \in {"queued", "reported"}, auHandler' = [auHandler EXCEPT ![h].did = did]
      PROVE  /\ HandlersHold'
             /\ auHandler'[h].at = auHandler[h].at /\ auHandler'[h].did = did
             /\ \A g \in AuHandlers : g # h => auHandler'[g] = auHandler[g]
  <2>1. auHandler[h] \in AuStates BY <1>h
  <2>2. [auHandler[h] EXCEPT !.did = did] = [at |-> auHandler[h].at, did |-> did] BY <2>1 DEF AuStates
  <2>3. auHandler' = [g \in AuHandlers |-> IF g = h THEN [at |-> auHandler[h].at, did |-> did] ELSE auHandler[g]]
    BY <1>3, <1>h, <2>2
  <2>4. /\ auHandler'[h].at = auHandler[h].at /\ auHandler'[h].did = did
        /\ \A g \in AuHandlers : g # h => auHandler'[g] = auHandler[g]
    BY <2>3
  <2>5. [at |-> auHandler[h].at, did |-> did] \in AuStates BY <2>1 DEF AuStates
  <2>6. auHandler' \in [AuHandlers -> AuStates] BY <1>h, <2>3, <2>5
  <2>7. \A g \in AuHandlers : auHandler'[g].did # "idle" => auHandler'[g].at <= auNow
    BY <1>1, <1>2, <2>4 DEF HandlersHold
  <2>8. \A g \in AuHandlers : auHandler'[g].did = "waiting" => (AuRetention = 0 \/ auNow - auHandler'[g].at <= AuRetention)
    BY <1>1, <2>4 DEF HandlersHold
  <2> QED BY <1>2, <2>4, <2>6, <2>7, <2>8 DEF HandlersHold
<1>4. SyncReaches' BY <1>1, <1>2, AuSyncStays
<1>5. CASE auHandler' = [auHandler EXCEPT ![h].did = "reported"] /\ auQueue' = auQueue
  <2>1. /\ HandlersHold' /\ auHandler'[h].did = "reported"
        /\ \A g \in AuHandlers : g # h => auHandler'[g] = auHandler[g]
    BY <1>3, <1>5
  <2>2. auQueued' = auQueued BY <1>2, <2>1, AuQueuedStays
  <2>3. AuOpen' /\ QueueHolds' /\ AuKnown' /\ AuThere' BY <1>1, <1>2, <1>5, <2>2, AuAside
  <2>4. RunHolds' BY <1>1, <1>2, <1>5, <2>2 DEF RunHolds
  <2> QED BY <1>4, <2>1, <2>3, <2>4 DEF AuInv, AuOpen, AuKnown, AuThere
<1>6. CASE /\ Len(auQueue) < AuQueueSize /\ auQueue' = Append(auQueue, auRec(h))
           /\ auHandler' = [auHandler EXCEPT ![h].did = "queued"]
  <2>1. /\ HandlersHold' /\ auHandler'[h].did = "queued" /\ auHandler'[h].at = auHandler[h].at
        /\ \A g \in AuHandlers : g # h => auHandler'[g] = auHandler[g]
    BY <1>3, <1>6
  <2>2. PICK rec : rec = auRec(h) OBVIOUS
  <2>3. rec \in AuRecs /\ rec.at = auHandler[h].at /\ rec.by = h
    <3>1. auHandler[h] \in AuStates BY <1>h
    <3> QED BY <2>2, <3>1 DEF AuStates, auRec, AuRecs
  <2>4. rec \notin auQueued
    <3>1. \A g \in AuHandlers : auRec(g).by = g BY DEF auRec
    <3> QED BY <1>2, <2>3, <3>1 DEF auQueued
  <2>5. auQueued' = auQueued \cup {rec}
    <3>1. ASSUME NEW r \in auQueued PROVE r \in auQueued'
      <4>1. PICK g \in AuHandlers : auHandler[g].did = "queued" /\ r = auRec(g) BY DEF auQueued
      <4>2. g # h BY <1>2, <4>1
      <4>3. auHandler'[g].did = "queued" /\ r = auRec(g)' BY <2>1, <4>1, <4>2 DEF auRec
      <4> QED BY <4>3 DEF auQueued
    <3>2. rec \in auQueued'
      <4>1. rec = auRec(h)' BY <2>1, <2>2 DEF auRec
      <4> QED BY <2>1, <4>1 DEF auQueued
    <3>3. ASSUME NEW r \in auQueued' PROVE r \in auQueued \cup {rec}
      <4>1. PICK g \in AuHandlers : auHandler'[g].did = "queued" /\ r = auRec(g)' BY DEF auQueued
      <4>2. CASE g = h BY <2>1, <2>2, <4>1, <4>2 DEF auRec
      <4>3. CASE g # h
        <5>1. auHandler[g].did = "queued" /\ r = auRec(g) BY <2>1, <4>1, <4>3 DEF auRec
        <5> QED BY <5>1 DEF auQueued
      <4> QED BY <4>2, <4>3
    <3> QED BY <3>1, <3>2, <3>3
  <2>6. /\ auQueue \in Seq(AuRecs) /\ auQueue' = Append(auQueue, rec) BY <1>1, <1>6, <2>2 DEF QueueHolds
  <2>7. /\ auQueue' \in Seq(AuRecs) /\ Len(auQueue) \in Nat /\ Len(auQueue') = Len(auQueue) + 1
        /\ \A i \in 1..Len(auQueue) : auQueue'[i] = auQueue[i]
        /\ auQueue'[Len(auQueue) + 1] = rec
    BY <2>3, <2>6, AppendProperties, LenProperties
  <2>8. Range(auQueue') = Range(auQueue) \cup {rec}
    <3>1. DOMAIN auQueue = 1..Len(auQueue) /\ DOMAIN auQueue' = 1..Len(auQueue) + 1 BY <2>6, <2>7, LenProperties
    <3>2. \A i : i \in 1..Len(auQueue) + 1 <=> i \in 1..Len(auQueue) \/ i = Len(auQueue) + 1 BY <2>7
    <3> QED BY <2>7, <3>1, <3>2 DEF Range
  <2>9. NamedIn(auFile, auDisk, auPruned)' = NamedIn(auFile, auDisk, auPruned) BY <1>2 DEF NamedIn
  <2>10. KeptIn(auFile, auDisk, auPruned)' = KeptIn(auFile, auDisk, auPruned) BY <1>2 DEF KeptIn, SavedIn
  <2>11. QueueHolds'
    <3>1. Len(auQueue') <= AuQueueSize
      <4>1. AuQueueSize \in Nat BY AuAssumption DEF AuAssumption
      <4> QED BY <1>6, <2>7, <4>1
    <3>2. \A i, j \in 1..Len(auQueue') : auQueue'[i] = auQueue'[j] => i = j
      <4>1. \A i \in 1..Len(auQueue') : i \in 1..Len(auQueue) \/ i = Len(auQueue) + 1 BY <2>7
      <4>2. \A i \in 1..Len(auQueue) : auQueue[i] # rec
        <5>1. \A i \in 1..Len(auQueue) : auQueue[i] \in Range(auQueue)
          <6>1. DOMAIN auQueue = 1..Len(auQueue) BY <2>6, LenProperties
          <6> QED BY <6>1 DEF Range
        <5> QED BY <1>1, <2>4, <5>1 DEF QueueHolds
      <4>3. \A i, j \in 1..Len(auQueue) : auQueue[i] = auQueue[j] => i = j BY <1>1 DEF QueueHolds
      <4> QED BY <2>7, <4>1, <4>2, <4>3
    <3>3. Range(auQueue') \subseteq auQueued' BY <1>1, <2>5, <2>8 DEF QueueHolds
    <3>4. rec \notin NamedIn(auFile, auDisk, auPruned) BY <1>1, <2>4 DEF AuKnown
    <3>5. (AuRetention = 0 \/ auNow - rec.at <= AuRetention) BY <1>1, <1>2, <2>3 DEF HandlersHold
    <3>6. \A r \in Range(auQueue') : r \notin NamedIn(auFile, auDisk, auPruned)' /\ (AuRetention = 0 \/ auNow' - r.at <= AuRetention)
      BY <1>1, <1>2, <2>8, <2>9, <3>4, <3>5 DEF QueueHolds
    <3> QED BY <2>7, <3>1, <3>2, <3>3, <3>6 DEF QueueHolds
  <2>12. AuOpen' BY <1>1, <1>2 DEF AuOpen, Sound
  <2>13. AuKnown' BY <1>1, <2>5, <2>9 DEF AuKnown
  <2>14. AuThere' BY <1>1, <1>2, <2>5, <2>8, <2>10 DEF AuThere
  <2>15. RunHolds'
    <3>1. auQueue' # <<>> BY <2>7
    <3> QED BY <1>1, <1>2, <2>5, <3>1 DEF RunHolds
  <2> QED BY <1>4, <2>1, <2>11, <2>12, <2>13, <2>14, <2>15 DEF AuInv, AuOpen, AuKnown, AuThere
<1> QED BY <1>5, <1>6 DEF AuWrite

LEMMA AuSyncStep ==
  ASSUME AuInv, AuSync
  PROVE  AuInv'
<1>1. AuOpen /\ QueueHolds /\ HandlersHold /\ RunHolds /\ AuKnown /\ AuThere /\ SyncReaches BY AuInvParts
<1>2. UNCHANGED <<auNow, auFaults, auQueue, auQuit, auHandler, auFile, auDisk, auFailed, auLost, auPruned>> BY DEF AuSync
<1>3. auQueued' = auQueued BY <1>2, AuQueuedStays
<1>4. AuOpen' /\ QueueHolds' /\ AuKnown' /\ AuThere' BY <1>1, <1>2, <1>3, AuAside
<1>5. HandlersHold' BY <1>1, <1>2 DEF HandlersHold
<1>6. \/ auRun = "run" /\ auRun' = "sync" /\ auSync' = [did |-> "asked", owes |-> auQueued]
      \/ auSync' = [did |-> "closing", owes |-> {}] /\ auRun' = auRun
  BY DEF AuSync
<1>7. auSync'.did \in {"asked", "closing"} /\ auSync'.owes \subseteq auQueued BY <1>6
<1>8. RunHolds' BY <1>1, <1>2, <1>3, <1>6, <1>7 DEF RunHolds
<1>9. SyncReaches' BY <1>7 DEF SyncReaches
<1> QED BY <1>4, <1>5, <1>8, <1>9 DEF AuInv, AuOpen, AuKnown, AuThere

\* Steps that only set auQuit, auRun or the clock.
LEMMA AuQuitSteps ==
  ASSUME AuInv, AuClose \/ AuQuits
  PROVE  AuInv'
<1>1. AuOpen /\ QueueHolds /\ HandlersHold /\ RunHolds /\ AuKnown /\ AuThere /\ SyncReaches BY AuInvParts
<1>2. UNCHANGED <<auNow, auFaults, auQueue, auSync, auHandler, auFile, auDisk, auFailed, auLost, auPruned>>
  BY DEF AuClose, AuQuits
<1>3. auQueued' = auQueued BY <1>2, AuQueuedStays
<1>4. AuOpen' /\ QueueHolds' /\ AuKnown' /\ AuThere' BY <1>1, <1>2, <1>3, AuAside
<1>5. HandlersHold' BY <1>1, <1>2 DEF HandlersHold
<1>6. auQuit' \in BOOLEAN /\ (auRun' = auRun \/ auRun' = "quit") BY <1>1 DEF AuClose, AuQuits, RunHolds
<1>7. RunHolds' BY <1>1, <1>2, <1>3, <1>6 DEF RunHolds
<1>8. SyncReaches' BY <1>1, <1>2, AuSyncStays
<1> QED BY <1>4, <1>5, <1>7, <1>8 DEF AuInv, AuOpen, AuKnown, AuThere

LEMMA AuTickStep ==
  ASSUME AuInv, AuTick
  PROVE  AuInv'
<1>1. AuOpen /\ QueueHolds /\ HandlersHold /\ RunHolds /\ AuKnown /\ AuThere /\ SyncReaches BY AuInvParts
<1>2. /\ UNCHANGED <<auFaults, auQueue, auQuit, auRun, auSync, auHandler, auFile, auDisk, auFailed, auLost, auPruned>>
      /\ auNow < AuMaxTime /\ auNow' = auNow + 1
      /\ \A r \in Range(auQueue) : (AuRetention = 0 \/ auNow - r.at < AuRetention)
      /\ \A h \in AuHandlers : auHandler[h].did = "waiting" => (AuRetention = 0 \/ auNow - auHandler[h].at < AuRetention)
  <2>1. \A r \in auInMemory \cup {auRec(h) : h \in {g \in AuHandlers : auHandler[g].did = "waiting"}} :
          (AuRetention = 0 \/ auNow - r.at < AuRetention)
    BY DEF AuTick
  <2>2. \A r \in Range(auQueue) : (AuRetention = 0 \/ auNow - r.at < AuRetention) BY <2>1 DEF auInMemory
  <2>3. ASSUME NEW h \in AuHandlers, auHandler[h].did = "waiting" PROVE (AuRetention = 0 \/ auNow - auHandler[h].at < AuRetention)
    <3>1. (AuRetention = 0 \/ auNow - auRec(h).at < AuRetention) BY <2>1, <2>3
    <3> QED BY <3>1 DEF auRec
  <2> QED BY <2>2, <2>3 DEF AuTick
<1>3. auQueued' = auQueued BY <1>2, AuQueuedStays
<1>4. auNow \in Int /\ auNow' \in 0..AuMaxTime /\ auNow' = auNow + 1 /\ AuRetention \in Int
  BY <1>1, <1>2, AuAssumption DEF RunHolds, AuAssumption
<1>5. AuOpen' BY <1>1, <1>2 DEF AuOpen, Sound
<1>6. NamedIn(auFile, auDisk, auPruned)' = NamedIn(auFile, auDisk, auPruned) BY <1>2 DEF NamedIn
<1>7. KeptIn(auFile, auDisk, auPruned)' = KeptIn(auFile, auDisk, auPruned) BY <1>2 DEF KeptIn, SavedIn
<1>8. QueueHolds'
  <2>1. \A r \in Range(auQueue) : r.at \in Int
    <3>1. \A r \in AuRecs : r.at \in Int BY DEF AuRecs
    <3>2. Range(auQueue) \subseteq AuRecs BY <1>1, AuQueuedRecs DEF QueueHolds
    <3> QED BY <3>1, <3>2
  <2>2. \A r \in Range(auQueue) : (AuRetention = 0 \/ auNow' - r.at <= AuRetention) BY <1>2, <1>4, <2>1
  <2> QED BY <1>1, <1>2, <1>3, <1>6, <2>2 DEF QueueHolds
<1>9. HandlersHold'
  <2>1. \A h \in AuHandlers : auHandler[h].at \in Int
    <3>1. \A h \in AuHandlers : auHandler[h] \in AuStates BY <1>1 DEF HandlersHold
    <3> QED BY <3>1 DEF AuStates
  <2>2. \A h \in AuHandlers : auHandler[h].did # "idle" => auHandler[h].at <= auNow' BY <1>1, <1>4, <2>1 DEF HandlersHold
  <2>3. \A h \in AuHandlers : auHandler[h].did = "waiting" => (AuRetention = 0 \/ auNow' - auHandler[h].at <= AuRetention) BY <1>2, <1>4, <2>1
  <2> QED BY <1>1, <1>2, <2>2, <2>3 DEF HandlersHold
<1>10. RunHolds' BY <1>1, <1>2, <1>3, <1>4 DEF RunHolds
<1>11. SyncReaches' BY <1>1, <1>2, AuSyncStays
<1>12. AuKnown' /\ AuThere' BY <1>1, <1>2, <1>3, <1>6, <1>7 DEF AuKnown, AuThere
<1> QED BY <1>5, <1>8, <1>9, <1>10, <1>11, <1>12 DEF AuInv, AuOpen, AuKnown, AuThere

\* The file is let go with whatever the buffer holds.
LetGo(f, g) == \E day \in auDays, err \in BOOLEAN : g = [day |-> day, fd |-> "nil", buf |-> <<>>, err |-> err]
LEMMA AuLetGo ==
  ASSUME NEW f, NEW disk, NEW pruned, Sound(f, disk, pruned), NEW g, LetGo(f, g)
  PROVE  /\ Sound(g, disk, pruned) /\ g.fd = "nil" /\ g.buf = <<>>
         /\ KeptIn(g, disk, pruned) = SavedIn(disk, pruned)
         /\ KeptIn(f, disk, pruned) \subseteq SavedIn(disk, pruned) \cup auBuffered(f)
         /\ NamedIn(g, disk, pruned) \subseteq NamedIn(f, disk, pruned)
<1>1. PICK day \in auDays, err \in BOOLEAN : g = [day |-> day, fd |-> "nil", buf |-> <<>>, err |-> err] BY DEF LetGo
<1>2. g.fd = "nil" /\ g.buf = <<>> /\ g \in AuFiles
  <2>1. <<>> \in Seq(AuPieces) BY AuNothing
  <2> QED BY <1>1, <2>1 DEF AuFiles
<1>3. RecsOf(g.buf) = {} /\ auRecordsIn(g.buf) = {} BY <1>2, AuNothing
<1>4. Sound(g, disk, pruned)
  <2>1. Len(g.buf) <= AuBufSize
    <3>1. AuBufSize \in Nat /\ Len(g.buf) = 0 BY <1>2, AuAssumption DEF AuAssumption
    <3> QED BY <3>1
  <2> QED BY <1>2, <1>3, <2>1 DEF Sound
<1>5. auRecordsIn(f.buf) \subseteq auBuffered(f) BY DEF auRecordsIn, auBuffered
<1> QED BY <1>2, <1>3, <1>4, <1>5 DEF KeptIn, NamedIn

\* A process that dies takes the queue and the buffer with it, and nothing else.
LEMMA AuDieStep ==
  ASSUME AuInv, auDie
  PROVE  AuInv'
<1>1. AuOpen /\ QueueHolds /\ HandlersHold /\ RunHolds /\ AuKnown /\ AuThere /\ SyncReaches BY AuInvParts
<1>2. /\ UNCHANGED <<auNow, auFaults, auQuit, auHandler, auSync, auDisk, auFailed, auPruned>>
      /\ auRun' = "down" /\ auQueue' = <<>>
      /\ auLost' = auLost \cup Range(auQueue) \cup auBuffered(auFile)
      /\ auFile' = [auNoFile EXCEPT !.day = auFile.day]
  BY DEF auDie, auInMemory
<1>3. auQueued' = auQueued BY <1>2, AuQueuedStays
<1>4. LetGo(auFile, auFile')
  <2>1. auFile.day \in auDays BY <1>1, AuFileFields DEF AuOpen, Sound
  <2>2. auFile' = [day |-> auFile.day, fd |-> "nil", buf |-> <<>>, err |-> FALSE] BY <1>2 DEF auNoFile
  <2> QED BY <2>1, <2>2 DEF LetGo
<1>5. /\ Sound(auFile', auDisk, auPruned) /\ auFile'.fd = "nil" /\ auFile'.buf = <<>>
      /\ KeptIn(auFile', auDisk, auPruned) = SavedIn(auDisk, auPruned)
      /\ KeptIn(auFile, auDisk, auPruned) \subseteq SavedIn(auDisk, auPruned) \cup auBuffered(auFile)
      /\ NamedIn(auFile', auDisk, auPruned) \subseteq NamedIn(auFile, auDisk, auPruned)
  BY <1>1, <1>4, AuLetGo DEF AuOpen
<1>6. AuOpen' BY <1>2, <1>5 DEF AuOpen, Sound
<1>7. Range(auQueue') = {} /\ auQueue' \in Seq(AuRecs) /\ Len(auQueue') = 0
  <2>1. DOMAIN auQueue' = {} BY <1>2
  <2> QED BY <1>2, <2>1 DEF Range
<1>8. QueueHolds'
  <2>1. 0 <= AuQueueSize BY AuAssumption DEF AuAssumption
  <2> QED BY <1>7, <2>1 DEF QueueHolds
<1>9. HandlersHold' BY <1>1, <1>2 DEF HandlersHold
<1>10. RunHolds' BY <1>1, <1>2, <1>3, <1>5 DEF RunHolds
<1>11. AuKnown' /\ AuThere'
  <2>1. NamedIn(auFile, auDisk, auPruned)' = NamedIn(auFile', auDisk, auPruned) BY <1>2 DEF NamedIn
  <2>2. KeptIn(auFile, auDisk, auPruned)' = KeptIn(auFile', auDisk, auPruned) BY <1>2 DEF KeptIn, SavedIn
  <2> QED BY <1>1, <1>2, <1>3, <1>5, <1>7, <2>1, <2>2 DEF AuKnown, AuThere
<1>12. SyncReaches' BY <1>1, <1>2, AuSyncStays
<1> QED BY <1>6, <1>8, <1>9, <1>10, <1>11, <1>12 DEF AuInv, AuOpen, AuKnown, AuThere

\* The answer of a call is what the log goes on with.
LEMMA AuKeptOn ==
  ASSUME AuInv, NEW w, IsWork(w), NEW new, Carries(auAt(auFile, auDisk, TRUE), w, new), auKeep(w)
  PROVE  /\ AuOpen' /\ auFaults' \in Int
         /\ SavedIn(auDisk, auPruned) \subseteq SavedIn(auDisk', auPruned')
         /\ KeptIn(auFile, auDisk, auPruned) \subseteq KeptIn(auFile', auDisk', auPruned')
         /\ NamedIn(auFile', auDisk', auPruned') \subseteq NamedIn(auFile, auDisk, auPruned) \cup new
<1>1. auFile' = w.f /\ auDisk' = w.disk /\ auFaults' = w.faults /\ auPruned' = w.pruned BY DEF auKeep
<1>2. PICK v : v = auAt(auFile, auDisk, TRUE) OBVIOUS
<1>3. v.f = auFile /\ v.disk = auDisk /\ v.pruned = auPruned BY <1>2 DEF auAt
<1>4. Carries(v, w, new) BY <1>2
<1>5. Sound(auFile', auDisk', auPruned') BY <1>1 DEF IsWork
<1>6. AuOpen' BY <1>5 DEF AuOpen, Sound
<1> QED BY <1>1, <1>3, <1>4, <1>6, AuWorkFields DEF Carries

LEMMA AuAtWork ==
  ASSUME AuInv
  PROVE  /\ IsWork(auAt(auFile, auDisk, TRUE)) /\ auAt(auFile, auDisk, TRUE).ok
         /\ auAt(auFile, auDisk, TRUE).f = auFile
BY DEF AuInv, RunHolds, auAt, IsWork

\* The record at the head is in the file, in the buffer or counted as failed.
LEMMA AuTakeStep ==
  ASSUME AuInv, AuTake
  PROVE  AuInv'
<1>1. AuOpen /\ QueueHolds /\ HandlersHold /\ RunHolds /\ AuKnown /\ AuThere /\ SyncReaches BY AuInvParts
<1>2. /\ UNCHANGED <<auNow, auQuit, auRun, auHandler, auSync, auLost>> /\ auQueue' = Tail(auQueue)
      /\ auRun \in {"run", "sync", "quit"} /\ auQueue # <<>>
  BY DEF AuTake
<1>3. PICK rec : rec = Head(auQueue) OBVIOUS
<1>4. PICK x \in auAppends(rec) :
        /\ auFailed' = IF x.ok THEN auFailed ELSE auFailed \cup {rec}
        /\ \E y \in auFlushed([x EXCEPT !.ok = TRUE]) : auKeep(y)
  BY <1>3 DEF AuTake
<1>5. PICK v : v = [x EXCEPT !.ok = TRUE] OBVIOUS
<1>6. PICK y \in auFlushed(v) : auKeep(y) BY <1>4, <1>5
<1>q. /\ auQueue \in Seq(AuRecs) /\ rec \in AuRecs /\ Len(auQueue) \in Nat /\ Len(auQueue) >= 1
      /\ rec = auQueue[1] /\ rec \in Range(auQueue)
  <2>1. auQueue \in Seq(AuRecs) BY <1>1 DEF QueueHolds
  <2>2. Len(auQueue) \in Nat /\ Len(auQueue) # 0 /\ DOMAIN auQueue = 1..Len(auQueue) BY <1>2, <2>1, EmptySeq, LenProperties
  <2>3. 1 \in DOMAIN auQueue /\ Len(auQueue) >= 1 BY <2>2
  <2>4. rec = auQueue[1] BY <1>3 DEF Head
  <2>5. rec \in Range(auQueue) BY <2>3, <2>4 DEF Range
  <2>6. rec \in AuRecs BY <2>1, <2>2, <2>3, <2>4, ElementOfSeq
  <2> QED BY <2>1, <2>2, <2>3, <2>4, <2>5, <2>6
<1>7. rec \notin NamedIn(auFile, auDisk, auPruned) /\ (AuRetention = 0 \/ auNow - rec.at <= AuRetention) BY <1>1, <1>q DEF QueueHolds
<1>8. /\ IsWork(x) /\ Carries(auAt(auFile, auDisk, TRUE), x, {rec})
      /\ x.ok => rec \in KeptIn(x.f, x.disk, x.pruned)
  <2>1. Sound(auFile, auDisk, auPruned) /\ auNow \in 0..AuMaxTime /\ auFaults \in Int BY <1>1 DEF AuOpen, RunHolds
  <2> QED BY <1>4, <1>7, <1>q, <2>1, AuAppendsWell
<1>9. IsWork(v) /\ v.ok /\ Carries(x, v, {})
  <2>1. v = [f |-> x.f, disk |-> x.disk, ok |-> TRUE, faults |-> x.faults, pruned |-> x.pruned]
    BY <1>5, <1>8, AuEditAccepted, Zenon
  <2>2. v.f = x.f /\ v.disk = x.disk /\ v.pruned = x.pruned /\ v.ok = TRUE /\ v.faults = x.faults
        /\ v = [f |-> v.f, disk |-> v.disk, ok |-> v.ok, faults |-> v.faults, pruned |-> v.pruned]
    BY <2>1
  <2>3. Carries(x, v, {}) /\ Sound(v.f, v.disk, v.pruned) BY <1>8, <2>2, AuSame
  <2>4. x.faults \in Int BY <1>8, AuWorkFields
  <2> QED BY <2>2, <2>3, <2>4 DEF IsWork
<1>10. IsWork(y) /\ Carries(v, y, {}) /\ (auRun = "run" /\ Len(auQueue) = 1 => y.f.err \/ y.f.buf = <<>>)
  <2>1. CASE auRun = "run" /\ Len(auQueue) = 1
    <3>1. y \in auFlushes(v) BY <1>6, <2>1 DEF auFlushed
    <3>2. FlushedWell(v, y) BY <1>9, <3>1, AuFlushesWell
    <3> QED BY <3>2 DEF FlushedWell
  <2>2. CASE ~(auRun = "run" /\ Len(auQueue) = 1)
    <3>1. y = v BY <1>6, <2>2 DEF auFlushed
    <3>2. Carries(v, y, {}) BY <1>9, <3>1, AuSame
    <3> QED BY <1>9, <2>2, <3>1, <3>2
  <2> QED BY <2>1, <2>2
<1>11. Carries(x, y, {}) BY <1>9, <1>10, AuKeepsOn
<1>12. Carries(auAt(auFile, auDisk, TRUE), y, {rec})
  <2>1. Carries(auAt(auFile, auDisk, TRUE), y, {rec} \cup {}) BY <1>8, <1>11, AuKeepsOn
  <2>2. {rec} \cup {} = {rec} OBVIOUS
  <2> QED BY <2>1, <2>2
<1>13. /\ AuOpen' /\ auFaults' \in Int
       /\ SavedIn(auDisk, auPruned) \subseteq SavedIn(auDisk', auPruned')
       /\ KeptIn(auFile, auDisk, auPruned) \subseteq KeptIn(auFile', auDisk', auPruned')
       /\ NamedIn(auFile', auDisk', auPruned') \subseteq NamedIn(auFile, auDisk, auPruned) \cup {rec}
  BY <1>6, <1>10, <1>12, AuKeptOn
<1>14. auFile' = y.f /\ auDisk' = y.disk /\ auPruned' = y.pruned BY <1>6 DEF auKeep
<1>15. x.ok => rec \in KeptIn(auFile', auDisk', auPruned') BY <1>8, <1>11, <1>14 DEF Carries
<1>16. auQueued' = auQueued BY <1>2, AuQueuedStays
<1>17. /\ auQueue' \in Seq(AuRecs) /\ Len(auQueue') = Len(auQueue) - 1
       /\ \A i \in 1..Len(auQueue') : i + 1 \in 1..Len(auQueue) /\ auQueue'[i] = auQueue[i + 1]
       /\ \A i \in 1..Len(auQueue) : i = 1 \/ (i - 1 \in 1..Len(auQueue') /\ auQueue'[i - 1] = auQueue[i])
  <2>1. /\ Tail(auQueue) \in Seq(AuRecs) /\ Len(Tail(auQueue)) = Len(auQueue) - 1
        /\ \A i \in 1..Len(Tail(auQueue)) : Tail(auQueue)[i] = auQueue[i + 1]
    BY <1>2, <1>q, HeadTailProperties
  <2>2. \A i \in 1..Len(auQueue') : i + 1 \in 1..Len(auQueue) /\ auQueue'[i] = auQueue[i + 1] BY <1>2, <1>q, <2>1
  <2>3. \A i \in 1..Len(auQueue) : i = 1 \/ (i - 1 \in 1..Len(auQueue') /\ auQueue'[i - 1] = auQueue[i])
    <3>1. ASSUME NEW i \in 1..Len(auQueue), i # 1 PROVE i - 1 \in 1..Len(auQueue') /\ auQueue'[i - 1] = auQueue[i]
      <4>1. i - 1 \in 1..Len(auQueue') BY <1>2, <1>q, <2>1, <3>1
      <4>2. auQueue'[i - 1] = auQueue[(i - 1) + 1] BY <2>2, <4>1
      <4>3. (i - 1) + 1 = i BY <1>q
      <4> QED BY <4>1, <4>2, <4>3
    <3> QED BY <3>1
  <2> QED BY <1>2, <2>1, <2>2, <2>3
<1>18. /\ Range(auQueue') \subseteq Range(auQueue) /\ rec \notin Range(auQueue')
       /\ Range(auQueue) \subseteq Range(auQueue') \cup {rec}
  <2>1. DOMAIN auQueue = 1..Len(auQueue) /\ DOMAIN auQueue' = 1..Len(auQueue') BY <1>17, <1>q, LenProperties
  <2>2. \A r \in Range(auQueue') : \E i \in 1..Len(auQueue) : i # 1 /\ auQueue[i] = r
    <3>1. ASSUME NEW i \in 1..Len(auQueue') PROVE i + 1 # 1
      <4>1. Len(auQueue') \in Nat BY <1>17, LenProperties
      <4> QED BY <4>1
    <3>2. ASSUME NEW r \in Range(auQueue') PROVE \E i \in 1..Len(auQueue) : i # 1 /\ auQueue[i] = r
      <4>1. PICK j \in DOMAIN auQueue' : auQueue'[j] = r BY DEF Range
      <4>2. j \in 1..Len(auQueue') BY <2>1
      <4>3. j + 1 \in 1..Len(auQueue) /\ j + 1 # 1 /\ auQueue[j + 1] = r BY <1>17, <3>1, <4>1, <4>2
      <4> QED BY <4>3
    <3> QED BY <3>2
  <2>3. rec \notin Range(auQueue')
    <3>1. \A i, j \in 1..Len(auQueue) : auQueue[i] = auQueue[j] => i = j BY <1>1 DEF QueueHolds
    <3>2. 1 \in 1..Len(auQueue) BY <1>q
    <3> QED BY <1>q, <2>2, <3>1, <3>2
  <2>4. Range(auQueue') \subseteq Range(auQueue)
    <3>1. \A i \in 1..Len(auQueue) : auQueue[i] \in Range(auQueue) BY <2>1 DEF Range
    <3> QED BY <2>2, <3>1
  <2>5. ASSUME NEW r \in Range(auQueue) PROVE r \in Range(auQueue') \cup {rec}
    <3>1. PICK i \in DOMAIN auQueue : auQueue[i] = r BY DEF Range
    <3>2. CASE i = 1 BY <1>q, <3>1, <3>2
    <3>3. CASE i # 1
      <4>1. i - 1 \in DOMAIN auQueue' /\ auQueue'[i - 1] = r BY <1>17, <2>1, <3>1, <3>3
      <4> QED BY <4>1 DEF Range
    <3> QED BY <3>2, <3>3
  <2> QED BY <2>3, <2>4, <2>5
<1>19. QueueHolds'
  <2>1. Len(auQueue') <= AuQueueSize
    <3>1. Len(auQueue) <= AuQueueSize /\ AuQueueSize \in Nat BY <1>1, AuAssumption DEF QueueHolds, AuAssumption
    <3> QED BY <1>17, <1>q, <3>1
  <2>2. \A i, j \in 1..Len(auQueue') : auQueue'[i] = auQueue'[j] => i = j
    <3>1. \A i, j \in 1..Len(auQueue) : auQueue[i] = auQueue[j] => i = j BY <1>1 DEF QueueHolds
    <3>2. ASSUME NEW i \in 1..Len(auQueue'), NEW j \in 1..Len(auQueue'), auQueue'[i] = auQueue'[j] PROVE i = j
      <4>1. i + 1 = j + 1 BY <1>17, <3>1, <3>2
      <4>2. Len(auQueue') \in Nat BY <1>17, LenProperties
      <4> QED BY <4>1, <4>2
    <3> QED BY <3>2
  <2>3. \A r \in Range(auQueue') : r \notin NamedIn(auFile', auDisk', auPruned') /\ (AuRetention = 0 \/ auNow' - r.at <= AuRetention)
    BY <1>1, <1>2, <1>13, <1>18 DEF QueueHolds
  <2>4. Range(auQueue') \subseteq auQueued' BY <1>1, <1>16, <1>18 DEF QueueHolds
  <2>5. NamedIn(auFile, auDisk, auPruned)' = NamedIn(auFile', auDisk', auPruned') BY DEF NamedIn
  <2> QED BY <1>17, <2>1, <2>2, <2>3, <2>4, <2>5 DEF QueueHolds
<1>20. HandlersHold' BY <1>1, <1>2 DEF HandlersHold
<1>21. RunHolds'
  <2>1. auRun' = "run" /\ auQueue' = <<>> /\ ~auFile'.err => auFile'.buf = <<>>
    <3>1. auQueue' = <<>> => Len(auQueue) = 1
      <4>1. auQueue' = <<>> => Len(auQueue') = 0 BY <1>17
      <4> QED BY <1>17, <1>q, <4>1
    <3> QED BY <1>2, <1>10, <1>14, <3>1
  <2> QED BY <1>1, <1>2, <1>13, <1>16, <2>1 DEF RunHolds
<1>22. AuKnown'
  <2>1. NamedIn(auFile, auDisk, auPruned)' = NamedIn(auFile', auDisk', auPruned') BY DEF NamedIn
  <2>2. rec \in auQueued BY <1>1, <1>q DEF QueueHolds
  <2> QED BY <1>1, <1>13, <1>16, <2>1, <2>2 DEF AuKnown
<1>23. AuThere'
  <2>1. KeptIn(auFile, auDisk, auPruned)' = KeptIn(auFile', auDisk', auPruned') BY DEF KeptIn, SavedIn
  <2>2. auFailed \subseteq auFailed' /\ (rec \in KeptIn(auFile', auDisk', auPruned') \/ rec \in auFailed') BY <1>4, <1>15
  <2> QED BY <1>1, <1>2, <1>13, <1>16, <1>18, <2>1, <2>2 DEF AuThere
<1>24. SyncReaches'
  <2>1. auFailed \subseteq auFailed' BY <1>4
  <2> QED BY <1>1, <1>2, <1>13, <2>1, AuSyncStays
<1> QED BY <1>13, <1>19, <1>20, <1>21, <1>22, <1>23, <1>24 DEF AuInv, AuOpen, AuKnown, AuThere

\* An empty queue: the queue invariant is about nothing.
LEMMA AuQueueEmpty ==
  ASSUME auQueue' = <<>>
  PROVE  QueueHolds' /\ Range(auQueue') = {}
<1>1. auQueue' \in Seq(AuRecs) /\ Len(auQueue') = 0 /\ Range(auQueue') = {}
  <2>1. DOMAIN <<>> = {} OBVIOUS
  <2> QED BY <2>1 DEF Range
<1>2. 0 <= AuQueueSize BY AuAssumption DEF AuAssumption
<1> QED BY <1>1, <1>2 DEF QueueHolds

\* Sync answers after a flush of everything queued before it.
LEMMA AuSyncedStep ==
  ASSUME AuInv, AuSynced
  PROVE  AuInv'
<1>1. AuOpen /\ QueueHolds /\ HandlersHold /\ RunHolds /\ AuKnown /\ AuThere /\ SyncReaches BY AuInvParts
<1>2. /\ UNCHANGED <<auNow, auQueue, auQuit, auHandler, auFailed, auLost>>
      /\ auRun = "sync" /\ auRun' = "run" /\ auQueue = <<>>
  BY DEF AuSynced
<1>3. PICK w \in auFlushes(auAt(auFile, auDisk, TRUE)) :
        auKeep(w) /\ auSync' = [auSync EXCEPT !.did = IF w.ok THEN "ok" ELSE "error"]
  BY DEF AuSynced
<1>4. FlushedWell(auAt(auFile, auDisk, TRUE), w) BY <1>3, AuAtWork, AuFlushesWell
<1>5. /\ IsWork(w) /\ Carries(auAt(auFile, auDisk, TRUE), w, {})
      /\ w.f.err \/ w.f.buf = <<>>
      /\ w.ok => w.f.buf = <<>>
  BY <1>4 DEF FlushedWell
<1>6. /\ AuOpen' /\ auFaults' \in Int
      /\ SavedIn(auDisk, auPruned) \subseteq SavedIn(auDisk', auPruned')
      /\ KeptIn(auFile, auDisk, auPruned) \subseteq KeptIn(auFile', auDisk', auPruned')
      /\ NamedIn(auFile', auDisk', auPruned') \subseteq NamedIn(auFile, auDisk, auPruned)
  <2>1. NamedIn(auFile', auDisk', auPruned') \subseteq NamedIn(auFile, auDisk, auPruned) \cup {}
        /\ AuOpen' /\ auFaults' \in Int
        /\ SavedIn(auDisk, auPruned) \subseteq SavedIn(auDisk', auPruned')
        /\ KeptIn(auFile, auDisk, auPruned) \subseteq KeptIn(auFile', auDisk', auPruned')
    BY <1>3, <1>5, AuKeptOn
  <2> QED BY <2>1
<1>7. auFile' = w.f BY <1>3 DEF auKeep
<1>8. auQueued' = auQueued BY <1>2, AuQueuedStays
<1>9. QueueHolds' /\ Range(auQueue') = {} BY <1>2, AuQueueEmpty
<1>10. HandlersHold' BY <1>1, <1>2 DEF HandlersHold
<1>11. /\ auSync' = [did |-> auSync'.did, owes |-> auSync'.owes]
       /\ auSync'.did \in {"idle", "asked", "closing", "ok", "error"} /\ auSync'.owes \subseteq auQueued
       /\ (auSync'.did = "ok" => w.ok)
  <2>1. auSync.owes \subseteq auQueued BY <1>1 DEF RunHolds
  <2>2. PICK did : did = IF w.ok THEN "ok" ELSE "error" OBVIOUS
  <2>3. auSync' = [auSync EXCEPT !.did = did] BY <1>3, <2>2
  <2>4. auSync = [did |-> auSync.did, owes |-> auSync.owes] BY <1>1 DEF RunHolds
  <2>5. auSync' = [did |-> did, owes |-> auSync.owes] BY <2>3, <2>4
  <2>6. did \in {"ok", "error"} /\ (did = "ok" => w.ok) BY <2>2
  <2>7. auSync'.did = did /\ auSync'.owes = auSync.owes BY <2>5
  <2> QED BY <2>1, <2>5, <2>6, <2>7
<1>12. RunHolds' BY <1>1, <1>2, <1>5, <1>6, <1>7, <1>8, <1>11 DEF RunHolds
<1>13. AuKnown'
  <2>1. NamedIn(auFile, auDisk, auPruned)' = NamedIn(auFile', auDisk', auPruned') BY DEF NamedIn
  <2> QED BY <1>1, <1>6, <1>8, <2>1 DEF AuKnown
<1>14. AuThere'
  <2>1. KeptIn(auFile, auDisk, auPruned)' = KeptIn(auFile', auDisk', auPruned') BY DEF KeptIn, SavedIn
  <2> QED BY <1>1, <1>2, <1>6, <1>8, <2>1 DEF AuThere
<1>15. SyncReaches'
  <2>1. ASSUME w.ok PROVE auQueued \subseteq SavedIn(auDisk', auPruned') \cup auFailed \cup auLost
    <3>1. auRecordsIn(auFile'.buf) = {} BY <1>5, <1>7, <2>1, AuNothing
    <3>2. KeptIn(auFile', auDisk', auPruned') = SavedIn(auDisk', auPruned') BY <3>1 DEF KeptIn
    <3>3. Range(auQueue) = {} BY <1>2, <1>9
    <3> QED BY <1>1, <1>6, <3>2, <3>3 DEF AuThere
  <2>2. auOnDisk' = SavedIn(auDisk', auPruned') BY DEF auOnDisk, SavedIn
  <2> QED BY <1>2, <1>11, <2>1, <2>2 DEF SyncReaches
<1> QED BY <1>6, <1>9, <1>10, <1>12, <1>13, <1>14, <1>15 DEF AuInv, AuOpen, AuKnown, AuThere

\* The writer is gone; what its last flush could not write is lost.
LEMMA AuExitsStep ==
  ASSUME AuInv, AuExits
  PROVE  AuInv'
<1>1. AuOpen /\ QueueHolds /\ HandlersHold /\ RunHolds /\ AuKnown /\ AuThere /\ SyncReaches BY AuInvParts
<1>2. /\ UNCHANGED <<auNow, auQueue, auQuit, auHandler, auFailed, auSync>>
      /\ auRun' = "exited" /\ auQueue = <<>>
  BY DEF AuExits
<1>3. PICK w \in auFlushes(auAt(auFile, auDisk, TRUE)) :
        auKeep([w EXCEPT !.f.fd = "nil", !.f.buf = <<>>]) /\ auLost' = auLost \cup auBuffered(w.f)
  BY DEF AuExits
<1>4. FlushedWell(auAt(auFile, auDisk, TRUE), w) BY <1>3, AuAtWork, AuFlushesWell
<1>5. IsWork(w) /\ Carries(auAt(auFile, auDisk, TRUE), w, {}) BY <1>4 DEF FlushedWell
<1>6. PICK x : x = [w EXCEPT !.f.fd = "nil", !.f.buf = <<>>] OBVIOUS
<1>7. x = [f |-> [day |-> w.f.day, fd |-> "nil", buf |-> <<>>, err |-> w.f.err], disk |-> w.disk, ok |-> w.ok,
           faults |-> w.faults, pruned |-> w.pruned]
  <2>1. LeftTo(w, <<>>, x) BY <1>6 DEF LeftTo
  <2> QED BY <1>5, <2>1, AuEditLeft
<1>8. x.f = [day |-> w.f.day, fd |-> "nil", buf |-> <<>>, err |-> w.f.err] /\ x.disk = w.disk
      /\ x.faults = w.faults /\ x.pruned = w.pruned
  BY <1>7
<1>9. auFile' = x.f /\ auDisk' = w.disk /\ auFaults' = w.faults /\ auPruned' = w.pruned
  BY <1>3, <1>6, <1>8 DEF auKeep
<1>10. LetGo(w.f, auFile')
  <2>1. w.f.day \in auDays /\ w.f.err \in BOOLEAN BY <1>5, AuWorkFields
  <2> QED BY <1>8, <1>9, <2>1 DEF LetGo
<1>11. /\ Sound(auFile', w.disk, w.pruned) /\ auFile'.fd = "nil" /\ auFile'.buf = <<>>
       /\ KeptIn(auFile', w.disk, w.pruned) = SavedIn(w.disk, w.pruned)
       /\ KeptIn(w.f, w.disk, w.pruned) \subseteq SavedIn(w.disk, w.pruned) \cup auBuffered(w.f)
       /\ NamedIn(auFile', w.disk, w.pruned) \subseteq NamedIn(w.f, w.disk, w.pruned)
  <2>1. Sound(w.f, w.disk, w.pruned) BY <1>5 DEF IsWork
  <2> QED BY <1>10, <2>1, AuLetGo
<1>12. /\ SavedIn(auDisk, auPruned) \subseteq SavedIn(w.disk, w.pruned)
       /\ KeptIn(auFile, auDisk, auPruned) \subseteq KeptIn(w.f, w.disk, w.pruned)
       /\ NamedIn(w.f, w.disk, w.pruned) \subseteq NamedIn(auFile, auDisk, auPruned)
  <2>1. PICK v : v = auAt(auFile, auDisk, TRUE) OBVIOUS
  <2>2. v.f = auFile /\ v.disk = auDisk /\ v.pruned = auPruned BY <2>1 DEF auAt
  <2>3. Carries(v, w, {}) BY <1>5, <2>1
  <2> QED BY <2>2, <2>3 DEF Carries
<1>13. AuOpen' BY <1>9, <1>11 DEF AuOpen, Sound
<1>14. auQueued' = auQueued BY <1>2, AuQueuedStays
<1>15. QueueHolds' /\ Range(auQueue') = {} BY <1>2, AuQueueEmpty
<1>16. HandlersHold' BY <1>1, <1>2 DEF HandlersHold
<1>17. RunHolds'
  <2>1. auFaults' \in Int BY <1>5, <1>9, AuWorkFields
  <2> QED BY <1>1, <1>2, <1>11, <1>14, <2>1 DEF RunHolds
<1>18. AuKnown'
  <2>1. NamedIn(auFile, auDisk, auPruned)' = NamedIn(auFile', w.disk, w.pruned) BY <1>9 DEF NamedIn
  <2> QED BY <1>1, <1>11, <1>12, <1>14, <2>1 DEF AuKnown
<1>19. AuThere'
  <2>1. KeptIn(auFile, auDisk, auPruned)' = KeptIn(auFile', w.disk, w.pruned) BY <1>9 DEF KeptIn, SavedIn
  <2>2. Range(auQueue) = {} BY <1>2, <1>15
  <2> QED BY <1>1, <1>2, <1>3, <1>11, <1>12, <1>14, <2>1, <2>2 DEF AuThere
<1>20. SyncReaches'
  <2>1. SavedIn(auDisk, auPruned) \subseteq SavedIn(auDisk', auPruned') BY <1>9, <1>12
  <2>2. auLost \subseteq auLost' BY <1>3
  <2> QED BY <1>1, <1>2, <2>1, <2>2, AuSyncStays
<1> QED BY <1>13, <1>15, <1>16, <1>17, <1>18, <1>19, <1>20 DEF AuInv, AuOpen, AuKnown, AuThere

\* A new process opens the day it starts in, and finds what the last one left.
LEMMA AuRestartStep ==
  ASSUME AuInv, AuRestart
  PROVE  AuInv'
<1>1. AuOpen /\ QueueHolds /\ HandlersHold /\ RunHolds /\ AuKnown /\ AuThere /\ SyncReaches BY AuInvParts
<1>2. /\ UNCHANGED <<auNow, auFailed>> /\ auRun \in {"down", "exited"}
      /\ auRun' = "run" /\ auQuit' = FALSE /\ auQueue' = <<>> /\ auSync' = auNoSync
      /\ auLost' = auLost \cup Range(auQueue)
      /\ auHandler' = [h \in AuHandlers |-> IF auHandler[h].did = "waiting" THEN auIdle ELSE auHandler[h]]
  BY DEF AuRestart
<1>3. PICK v : v = auAt(auNoFile, auDisk, TRUE) OBVIOUS
<1>4. PICK w \in auOpens(v, auDayOf(auNow)) : w.ok /\ auKeep(auPrune(w)) BY <1>3 DEF AuRestart
<1>d. auDayOf(auNow) \in auDays /\ (AuRetention = 0 \/ 2 * (auDayOf(auNow) + 1) > auNow - AuRetention) /\ 0 \in auDays
  <2>1. auNow \in 0..AuMaxTime /\ AuMaxTime \in Nat /\ AuRetention \in Nat BY <1>1, AuAssumption DEF RunHolds, AuAssumption
  <2> QED BY <2>1 DEF auDayOf, auDays
<1>5. auFile.fd = "nil" /\ auFile.buf = <<>> BY <1>1, <1>2 DEF RunHolds, AuOpen, Sound
<1>6. /\ Sound(auNoFile, auDisk, auPruned)
      /\ KeptIn(auNoFile, auDisk, auPruned) = SavedIn(auDisk, auPruned)
      /\ NamedIn(auNoFile, auDisk, auPruned) \subseteq NamedIn(auFile, auDisk, auPruned)
  <2>1. LetGo(auFile, auNoFile) BY <1>d DEF LetGo, auNoFile
  <2> QED BY <1>1, <2>1, AuLetGo DEF AuOpen
<1>7. IsWork(v) /\ v.ok /\ v.f = auNoFile /\ v.disk = auDisk /\ v.pruned = auPruned /\ v.f.buf = <<>>
  BY <1>1, <1>3, <1>6 DEF auAt, IsWork, RunHolds, auNoFile
<1>8. IsWork(w) /\ Carries(v, w, {}) /\ w.f.fd = "open" /\ w.f.day = auDayOf(auNow) /\ w.f.buf = <<>>
  BY <1>4, <1>7, <1>d, AuOpensWell
<1>9. PICK x : x = auPrune(w) OBVIOUS
<1>10. IsWork(x) /\ Carries(w, x, {}) /\ x.f = w.f
  <2>1. auNow \in 0..AuMaxTime BY <1>1 DEF RunHolds
  <2> QED BY <1>4, <1>8, <1>9, <1>d, <2>1, AuPruneWell
<1>11. Carries(v, x, {})
  <2>1. Carries(v, x, {} \cup {}) BY <1>8, <1>10, AuKeepsOn
  <2> QED BY <2>1
<1>12. auFile' = x.f /\ auDisk' = x.disk /\ auFaults' = x.faults /\ auPruned' = x.pruned BY <1>4, <1>9 DEF auKeep
<1>13. /\ SavedIn(auDisk, auPruned) \subseteq SavedIn(auDisk', auPruned')
       /\ KeptIn(auFile, auDisk, auPruned) \subseteq KeptIn(auFile', auDisk', auPruned')
       /\ NamedIn(auFile', auDisk', auPruned') \subseteq NamedIn(auFile, auDisk, auPruned)
  <2>1. auRecordsIn(auFile.buf) = {} BY <1>5, AuNothing
  <2>2. KeptIn(auFile, auDisk, auPruned) = SavedIn(auDisk, auPruned) BY <2>1 DEF KeptIn
  <2> QED BY <1>6, <1>7, <1>11, <1>12, <2>2 DEF Carries
<1>14. AuOpen' BY <1>10, <1>12 DEF AuOpen, Sound, IsWork
<1>15. auQueued' = auQueued
  <2>1. \A h \in AuHandlers : auHandler'[h] = IF auHandler[h].did = "waiting" THEN auIdle ELSE auHandler[h] BY <1>2
  <2>2. auIdle.did = "idle" BY DEF auIdle
  <2>3. \A h \in AuHandlers : auHandler'[h].did = "queued" <=> auHandler[h].did = "queued" BY <2>1, <2>2
  <2>4. \A h \in AuHandlers : auHandler[h].did = "queued" => auHandler'[h].at = auHandler[h].at BY <2>1
  <2> QED BY <2>3, <2>4, AuQueuedStays
<1>16. QueueHolds' /\ Range(auQueue') = {} BY <1>2, AuQueueEmpty
<1>17. HandlersHold'
  <2>1. auIdle \in AuStates /\ auIdle.did = "idle"
    <3>1. AuMaxTime \in Nat BY AuAssumption DEF AuAssumption
    <3> QED BY <3>1 DEF auIdle, AuStates
  <2>2. auHandler' \in [AuHandlers -> AuStates] BY <1>1, <1>2, <2>1 DEF HandlersHold
  <2>3. \A h \in AuHandlers : auHandler'[h] = IF auHandler[h].did = "waiting" THEN auIdle ELSE auHandler[h] BY <1>2
  <2>4. \A h \in AuHandlers : auHandler'[h].did # "idle" => auHandler'[h].at <= auNow BY <1>1, <2>1, <2>3 DEF HandlersHold
  <2>5. \A h \in AuHandlers : auHandler'[h].did # "waiting" BY <2>1, <2>3
  <2> QED BY <1>2, <2>2, <2>4, <2>5 DEF HandlersHold
<1>18. RunHolds'
  <2>1. auFaults' \in Int BY <1>10, <1>12, AuWorkFields
  <2>2. auFile'.buf = <<>> BY <1>8, <1>10, <1>12
  <2> QED BY <1>1, <1>2, <2>1, <2>2 DEF RunHolds, auNoSync
<1>19. AuKnown'
  <2>1. NamedIn(auFile, auDisk, auPruned)' = NamedIn(auFile', auDisk', auPruned') BY DEF NamedIn
  <2> QED BY <1>1, <1>13, <1>15, <2>1 DEF AuKnown
<1>20. AuThere'
  <2>1. KeptIn(auFile, auDisk, auPruned)' = KeptIn(auFile', auDisk', auPruned') BY DEF KeptIn, SavedIn
  <2> QED BY <1>1, <1>2, <1>13, <1>15, <2>1 DEF AuThere
<1>21. SyncReaches' BY <1>2 DEF SyncReaches, auNoSync
<1> QED BY <1>14, <1>16, <1>17, <1>18, <1>19, <1>20, <1>21 DEF AuInv, AuOpen, AuKnown, AuThere

LEMMA AuInitInv == AuInit => AuInv
<1> SUFFICES ASSUME AuInit PROVE AuInv OBVIOUS
<1>1. /\ auNow = 0 /\ auFaults = 0 /\ auQueue = <<>> /\ auQuit = FALSE /\ auRun = "run"
      /\ auHandler = [h \in AuHandlers |-> auIdle] /\ auSync = auNoSync
      /\ auFile = [auNoFile EXCEPT !.fd = "open"] /\ auDisk = [d \in {0} |-> <<>>]
      /\ auFailed = {} /\ auLost = {} /\ auPruned = {}
  BY DEF AuInit
<1>2. AuMaxTime \in Nat /\ AuRetention \in Nat /\ AuQueueSize \in Nat /\ AuBufSize \in Nat BY AuAssumption DEF AuAssumption
<1>3. 0 \in auDays BY <1>2 DEF auDays, auDayOf
<1>4. \A h \in AuHandlers : auHandler[h].did = "idle" BY <1>1 DEF auIdle
<1>5. auQueued = {} BY <1>4 DEF auQueued
<1>6. auFile = [day |-> 0, fd |-> "open", buf |-> <<>>, err |-> FALSE] BY <1>1 DEF auNoFile
<1>7. auFile.buf = <<>> /\ auFile.day = 0 /\ auFile.fd = "open" BY <1>6
<1>8. DOMAIN auDisk = {0} /\ auDisk[0] = <<>> BY <1>1
<1>9. AuOpen
  <2>1. auFile \in AuFiles BY <1>3, <1>6, AuNothing DEF AuFiles
  <2>2. auDisk \in [DOMAIN auDisk -> Seq(AuPieces)] BY <1>1, AuNothing
  <2>3. <<>> \o <<>> = <<>> BY AuNothing, ConcatEmptySeq
  <2>4. Len(auFile.buf) <= AuBufSize BY <1>2, <1>7
  <2>5. Paired(auDisk[auFile.day] \o auFile.buf) BY <1>7, <1>8, <2>3, AuNothing
  <2>6. \A d \in DOMAIN auDisk : OfDay(auDisk[d], d) /\ Paired(auDisk[d]) BY <1>8, AuNothing
  <2>7. OfDay(auFile.buf, auFile.day) BY <1>7, AuNothing
  <2> QED BY <1>1, <1>3, <1>7, <1>8, <2>1, <2>2, <2>4, <2>5, <2>6, <2>7 DEF AuOpen, Sound
<1>10. Range(auQueue) = {} /\ auQueue \in Seq(AuRecs) /\ Len(auQueue) = 0
  <2>1. DOMAIN <<>> = {} OBVIOUS
  <2> QED BY <1>1, <2>1 DEF Range
<1>11. QueueHolds BY <1>2, <1>10 DEF QueueHolds
<1>12. HandlersHold
  <2>1. auIdle \in AuStates BY <1>2 DEF auIdle, AuStates
  <2> QED BY <1>1, <1>4, <2>1 DEF HandlersHold
<1>13. RunHolds
  <2>1. auSync = [did |-> "idle", owes |-> {}] BY <1>1 DEF auNoSync
  <2>2. auSync.did = "idle" /\ auSync.owes = {} BY <2>1
  <2>3. auSync = [did |-> auSync.did, owes |-> auSync.owes] BY <2>1, <2>2
  <2>4. auNow \in 0..AuMaxTime /\ auFaults \in Int BY <1>1, <1>2
  <2>5. auQuit \in BOOLEAN BY <1>1
  <2> QED BY <1>1, <1>7, <2>2, <2>3, <2>4, <2>5 DEF RunHolds
<1>14. AuKnown
  <2>1. \A d \in DOMAIN auDisk : RecsOf(auDisk[d]) = {} BY <1>8, AuNothing
  <2>2. RecsOf(auFile.buf) = {} BY <1>7, AuNothing
  <2> QED BY <1>1, <2>1, <2>2 DEF AuKnown, NamedIn
<1>15. AuThere BY <1>5 DEF AuThere
<1>16. SyncReaches BY <1>1 DEF SyncReaches, auNoSync
<1> QED BY <1>9, <1>11, <1>12, <1>13, <1>14, <1>15, <1>16, AuInvParts

LEMMA AuNextInv == AuInv /\ [AuNext]_auVars => AuInv'
<1> SUFFICES ASSUME AuInv, [AuNext]_auVars PROVE AuInv' OBVIOUS
<1>1. CASE \E h \in AuHandlers : AuStamp(h) \/ AuWrite(h) BY <1>1, AuStampStep, AuWriteStep
<1>2. CASE AuSync BY <1>2, AuSyncStep
<1>3. CASE AuClose \/ AuQuits BY <1>3, AuQuitSteps
<1>4. CASE AuTake BY <1>4, AuTakeStep
<1>5. CASE AuSynced BY <1>5, AuSyncedStep
<1>6. CASE AuExits BY <1>6, AuExitsStep
<1>7. CASE AuCrash \/ AuPanic BY <1>7, AuDieStep DEF AuCrash, AuPanic
<1>8. CASE AuRestart BY <1>8, AuRestartStep
<1>9. CASE AuTick BY <1>9, AuTickStep
<1>10. CASE UNCHANGED auVars
  <2>1. AuOpen /\ QueueHolds /\ HandlersHold /\ RunHolds /\ AuKnown /\ AuThere /\ SyncReaches BY AuInvParts
  <2>2. UNCHANGED <<auNow, auFaults, auQueue, auQuit, auRun, auHandler, auSync, auFile, auDisk, auFailed, auLost, auPruned>>
    BY <1>10 DEF auVars
  <2>3. auQueued' = auQueued BY <2>2, AuQueuedStays
  <2>4. AuOpen' /\ QueueHolds' /\ AuKnown' /\ AuThere' BY <2>1, <2>2, <2>3, AuAside
  <2>5. HandlersHold' /\ RunHolds' BY <2>1, <2>2, <2>3 DEF HandlersHold, RunHolds
  <2>6. SyncReaches' BY <2>1, <2>2, AuSyncStays
  <2> QED BY <2>4, <2>5, <2>6 DEF AuInv, AuOpen, AuKnown, AuThere
<1> QED BY <1>1, <1>2, <1>3, <1>4, <1>5, <1>6, <1>7, <1>8, <1>9, <1>10 DEF AuNext, AuWriter

-----------------------------------------------------------------------------
(* Reading what was written.                                               *)

\* A file in which no line was written behind half of another one.
Untorn(s) == \A i \in 1..(Len(s) - 1) : s[i].end \/ s[i + 1] = [s[i] EXCEPT !.end = TRUE]

LEMMA AuParsed ==
  ASSUME NEW r \in AuRecs
  PROVE  auParses(auLine(r)) /\ auLine(r)[1].rec = r /\ Len(auLine(r)) = 2 /\ auLine(r)[2].end = TRUE
<1>1. Len(auLine(r)) = 2 /\ auLine(r)[1] = [rec |-> r, end |-> FALSE] /\ auLine(r)[2] = [rec |-> r, end |-> TRUE]
  BY DEF auLine
<1>2. auLine(r)[1].rec = r /\ auLine(r)[2].end = TRUE BY <1>1
<1> QED BY <1>1, <1>2 DEF auParses

\* The rank of a member among the members up to it.
RankIn(ends, i) == Cardinality({j \in ends : j <= i})
LEMMA AuRanks ==
  ASSUME NEW N \in Nat, NEW ends \in SUBSET (1..N)
  PROVE  /\ IsFiniteSet(ends) /\ Cardinality(ends) \in Nat
         /\ \A i \in ends : RankIn(ends, i) \in 1..Cardinality(ends)
         /\ \A i, k \in ends : RankIn(ends, i) = RankIn(ends, k) => i = k
         /\ \A n \in 1..Cardinality(ends) : \E i \in ends : RankIn(ends, i) = n
         /\ N \in ends => RankIn(ends, N) = Cardinality(ends)
<1>1. IsFiniteSet(ends)
  <2>1. IsFiniteSet(1..N) BY FS_Interval
  <2> QED BY <2>1, FS_Subset
<1>2. Cardinality(ends) \in Nat BY <1>1, FS_CardinalityType
<1>3. ASSUME NEW i \in ends
      PROVE  /\ IsFiniteSet({j \in ends : j <= i}) /\ RankIn(ends, i) \in Nat /\ RankIn(ends, i) <= Cardinality(ends)
             /\ RankIn(ends, i) # 0
  <2>1. {j \in ends : j <= i} \in SUBSET ends OBVIOUS
  <2>2. IsFiniteSet({j \in ends : j <= i}) /\ RankIn(ends, i) <= Cardinality(ends) BY <1>1, <2>1, FS_Subset DEF RankIn
  <2>3. RankIn(ends, i) \in Nat BY <2>2, FS_CardinalityType DEF RankIn
  <2>4. i \in {j \in ends : j <= i} OBVIOUS
  <2>5. RankIn(ends, i) # 0 BY <2>2, <2>4, FS_EmptySet DEF RankIn
  <2> QED BY <2>2, <2>3, <2>5
<1>4. \A i \in ends : RankIn(ends, i) \in 1..Cardinality(ends)
  <2>1. ASSUME NEW i \in ends PROVE RankIn(ends, i) \in 1..Cardinality(ends)
    <3>1. RankIn(ends, i) \in Nat /\ RankIn(ends, i) <= Cardinality(ends) /\ RankIn(ends, i) # 0 BY <1>3
    <3> QED BY <1>2, <3>1
  <2> QED BY <2>1
<1>n. \A j \in ends : j \in Int /\ j <= N OBVIOUS
<1>5. ASSUME NEW i \in ends, NEW k \in ends, i < k PROVE RankIn(ends, i) # RankIn(ends, k)
  <2>1. {j \in ends : j <= i} \in SUBSET {j \in ends : j <= k}
    <3>1. \A j \in ends : j <= i => j <= k BY <1>5, <1>n
    <3> QED BY <3>1
  <2>2. k \in {j \in ends : j <= k} /\ k \notin {j \in ends : j <= i} BY <1>5, <1>n
  <2>3. {j \in ends : j <= k} # {j \in ends : j <= i} BY <2>2
  <2>4. Cardinality({j \in ends : j <= k}) # Cardinality({j \in ends : j <= i}) BY <1>3, <2>1, <2>3, FS_Subset
  <2> QED BY <2>4 DEF RankIn
<1>6. \A i, k \in ends : RankIn(ends, i) = RankIn(ends, k) => i = k
  <2>1. \A i, k \in ends : i < k \/ k < i \/ i = k OBVIOUS
  <2> QED BY <1>5, <2>1
<1>7. \A n \in 1..Cardinality(ends) : \E i \in ends : RankIn(ends, i) = n
  <2> DEFINE rk == [i \in ends |-> RankIn(ends, i)]
  <2>1. rk \in [ends -> 1..Cardinality(ends)] BY <1>4
  <2>2. IsInjective(rk) BY <1>6 DEF IsInjective
  <2>3. rk \in Injection(ends, 1..Cardinality(ends)) BY <2>1, <2>2 DEF Injection
  <2>4. IsFiniteSet(1..Cardinality(ends)) /\ Cardinality(1..Cardinality(ends)) = Cardinality(ends)
    <3>1. PICK n \in Nat : n = Cardinality(ends) BY <1>2
    <3>2. IsFiniteSet(1..n) /\ Cardinality(1..n) = IF 1 > n THEN 0 ELSE n - 1 + 1 BY FS_Interval
    <3>3. Cardinality(1..n) = n BY <3>2
    <3> QED BY <3>1, <3>2, <3>3
  <2>5. rk \in Surjection(ends, 1..Cardinality(ends)) BY <2>3, <2>4, FS_Injection
  <2> QED BY <2>5 DEF Surjection
<1>8. N \in ends => RankIn(ends, N) = Cardinality(ends)
  <2>1. {j \in ends : j <= N} = ends BY <1>n
  <2> QED BY <2>1 DEF RankIn
<1> QED BY <1>1, <1>2, <1>4, <1>6, <1>7, <1>8

LEMMA AuLast ==
  ASSUME NEW N \in Nat, NEW S \in SUBSET (1..N), S # {}
  PROVE  \E j \in S : \A k \in S : k <= j
<1>1. /\ IsFiniteSet(S) /\ Cardinality(S) \in Nat
      /\ \A n \in 1..Cardinality(S) : \E i \in S : RankIn(S, i) = n
  BY AuRanks
<1>2. Cardinality(S) # 0 BY <1>1, FS_EmptySet
<1>3. Cardinality(S) \in 1..Cardinality(S) BY <1>1, <1>2
<1>4. PICK j \in S : RankIn(S, j) = Cardinality(S) BY <1>1, <1>3
<1>5. {k \in S : k <= j} \in SUBSET S OBVIOUS
<1>6. Cardinality(S) = Cardinality({k \in S : k <= j}) BY <1>4 DEF RankIn
<1>7. S = {k \in S : k <= j} BY <1>1, <1>5, <1>6, FS_Subset
<1>8. \A k \in S : k <= j BY <1>7
<1> QED BY <1>8

\* The scanner's lines of a file of whole lines: all but the last are records, and
\* they are the records whose lines are complete.
LEMMA AuLinesRead ==
  ASSUME NEW s \in Seq(AuPieces), Paired(s), Untorn(s)
  PROVE  ~auRefused(auLines(s)) /\ auGoodIn(auLines(s)) = auRecordsIn(s)
<1> DEFINE ends == {i \in DOMAIN s : s[i].end} \cup (IF s = <<>> THEN {} ELSE {Len(s)})
           from(i) == 1 + (IF \E j \in ends : j < i THEN CHOOSE j \in ends : j < i /\ \A k \in ends : k < i => k <= j ELSE 0)
           N == Cardinality(ends)
           at(n) == CHOOSE i \in ends : Cardinality({j \in ends : j <= i}) = n
           lines == auLines(s)
<1>1. lines = [n \in 1..N |-> SubSeq(s, from(at(n)), at(n))] BY DEF auLines
<1>2. /\ Len(s) \in Nat /\ DOMAIN s = 1..Len(s) /\ \A i \in 1..Len(s) : s[i] \in AuPieces
      /\ (s = <<>> => Len(s) = 0) /\ (Len(s) = 0 => s = <<>>)
  BY LenProperties, ElementOfSeq, EmptySeq
<1>3. /\ ends \in SUBSET (1..Len(s))
      /\ \A i \in ends : s[i].end \/ i = Len(s)
      /\ \A i \in 1..Len(s) : s[i].end => i \in ends
      /\ Len(s) > 0 => Len(s) \in ends
  <2>1. CASE s = <<>>
    <3>1. ends = {i \in DOMAIN s : s[i].end} BY <2>1
    <3>2. DOMAIN s = {} /\ Len(s) = 0 BY <1>2, <2>1
    <3> HIDE DEF ends
    <3> QED BY <1>2, <3>1, <3>2
  <2>2. CASE s # <<>>
    <3>1. ends = {i \in DOMAIN s : s[i].end} \cup {Len(s)} BY <2>2
    <3>2. Len(s) \in 1..Len(s) BY <1>2, <2>2
    <3> HIDE DEF ends
    <3> QED BY <1>2, <3>1, <3>2
  <2> QED BY <2>1, <2>2
<1>p. \A i \in AuPieces : /\ i = [rec |-> i.rec, end |-> i.end] /\ i.rec \in AuRecs /\ i.end \in BOOLEAN
                          /\ [i EXCEPT !.end = TRUE].end = TRUE
  BY DEF AuPieces
<1> HIDE DEF ends
\* A line that ends starts at the piece before.
<1>4. ASSUME NEW i \in ends, s[i].end
      PROVE  SubSeq(s, from(i), i) = auLine(s[i].rec) /\ s[i].rec \in AuRecs
  <2>1. i \in 1..Len(s) /\ i > 1 /\ s[i - 1] = [rec |-> s[i].rec, end |-> FALSE] /\ i - 1 \in 1..Len(s)
    <3>1. i \in 1..Len(s) BY <1>3
    <3>2. i > 1 /\ s[i - 1] = [rec |-> s[i].rec, end |-> FALSE] BY <1>4, <3>1 DEF Paired
    <3> QED BY <1>2, <3>1, <3>2
  <2>2. ~s[i - 1].end /\ i - 1 \notin ends
    <3>1. s[i - 1].end = FALSE BY <2>1
    <3>2. i - 1 # Len(s) BY <2>1, <1>2
    <3> QED BY <1>3, <3>1, <3>2
  <2>3. from(i) = i - 1
    <3>1. CASE i = 2
      <4>1. ~\E j \in ends : j < i
        <5>1. ASSUME NEW j \in ends, j < i PROVE FALSE
          <6>1. j = i - 1 BY <1>3, <3>1, <5>1
          <6> QED BY <2>2, <5>1, <6>1
        <5> QED BY <5>1
      <4>2. from(i) = 1 + 0 BY <4>1
      <4> QED BY <3>1, <4>2
    <3>2. CASE i # 2
      <4>1. i - 2 \in 1..(Len(s) - 1) /\ i - 2 \in 1..Len(s) /\ (i - 2) + 1 = i - 1 BY <1>2, <2>1, <3>2
      <4>2. s[i - 2].end
        <5>1. s[i - 2].end \/ s[i - 1] = [s[i - 2] EXCEPT !.end = TRUE] BY <4>1 DEF Untorn
        <5>2. s[i - 2] \in AuPieces BY <1>2, <4>1
        <5>3. [s[i - 2] EXCEPT !.end = TRUE].end = TRUE BY <1>p, <5>2
        <5>4. s[i - 1] # [s[i - 2] EXCEPT !.end = TRUE] BY <2>2, <5>3
        <5> QED BY <5>1, <5>4
      <4>3. i - 2 \in ends BY <1>3, <4>1, <4>2
      <4>4. \A k \in ends : k < i => k <= i - 2
        <5>1. ASSUME NEW k \in ends, k < i PROVE k <= i - 2
          <6>1. k # i - 1 BY <2>2
          <6>2. k \in Int /\ i \in Int BY <1>3, <2>1
          <6> QED BY <5>1, <6>1, <6>2
        <5> QED BY <5>1
      <4>5. PICK m : m = CHOOSE j \in ends : j < i /\ \A k \in ends : k < i => k <= j OBVIOUS
      <4>6. i - 2 < i BY <2>1
      <4>7. m \in ends /\ m < i /\ \A k \in ends : k < i => k <= m
        <5>1. \E j \in ends : j < i /\ \A k \in ends : k < i => k <= j BY <4>3, <4>4, <4>6
        <5> QED BY <4>5, <5>1
      <4>8. m = i - 2
        <5>1. m <= i - 2 /\ i - 2 <= m BY <4>3, <4>4, <4>6, <4>7
        <5>2. m \in Int /\ i \in Int BY <1>3, <2>1, <4>7
        <5> QED BY <5>1, <5>2
      <4>9. from(i) = 1 + m BY <4>3, <4>5, <4>6
      <4> QED BY <2>1, <4>8, <4>9
    <3> QED BY <3>1, <3>2
  <2>4. PICK t : t = SubSeq(s, i - 1, i) OBVIOUS
  <2>5. Len(t) = 2 /\ t[1] = s[i - 1] /\ t[2] = s[i] /\ t \in Seq(AuPieces)
    <3>1. i - 1 \in Int /\ i \in Int /\ \A k \in (i - 1)..i : s[k] \in AuPieces
      <4>1. \A k \in (i - 1)..i : k \in 1..Len(s) BY <1>2, <2>1
      <4> QED BY <1>2, <2>1, <4>1
    <3>2. /\ t \in Seq(AuPieces) /\ Len(t) = IF i - 1 <= i THEN i - (i - 1) + 1 ELSE 0
          /\ \A k \in 1 .. i - (i - 1) + 1 : t[k] = s[(i - 1) + k - 1]
      BY <2>4, <3>1, SubSeqProperties
    <3>3. 1 \in 1 .. i - (i - 1) + 1 /\ 2 \in 1 .. i - (i - 1) + 1 BY <2>1
    <3>4. (i - 1) + 1 - 1 = i - 1 /\ (i - 1) + 2 - 1 = i /\ i - (i - 1) + 1 = 2 BY <2>1
    <3>5. t[1] = s[(i - 1) + 1 - 1] /\ t[2] = s[(i - 1) + 2 - 1] BY <3>2, <3>3
    <3>6. i - 1 <= i BY <2>1
    <3>7. t[1] = s[i - 1] /\ t[2] = s[i] BY <3>4, <3>5, Zenon
    <3> QED BY <3>2, <3>4, <3>6, <3>7
  <2>6. s[i].rec \in AuRecs /\ s[i] = [rec |-> s[i].rec, end |-> TRUE]
    <3>1. s[i] \in AuPieces BY <1>2, <2>1
    <3>2. s[i] = [rec |-> s[i].rec, end |-> s[i].end] /\ s[i].rec \in AuRecs /\ s[i].end \in BOOLEAN BY <1>p, <3>1
    <3>3. s[i].end = TRUE BY <1>4, <3>2
    <3> QED BY <3>2, <3>3
  <2>7. t = auLine(s[i].rec)
    <3>1. t = <<t[1], t[2]>> BY <2>5
    <3> QED BY <2>1, <2>5, <2>6, <3>1 DEF auLine
  <2> QED BY <2>3, <2>4, <2>6, <2>7
\* Half a line at the end of the file does not parse.
<1>5. ASSUME NEW i \in ends, ~s[i].end
      PROVE  ~auParses(SubSeq(s, from(i), i))
  <2>1. i \in 1..Len(s) BY <1>3
  <2>2. from(i) \in 1..i
    <3>1. CASE \E j \in ends : j < i
      <4>1. PICK m : m = CHOOSE j \in ends : j < i /\ \A k \in ends : k < i => k <= j OBVIOUS
      <4>2. \E j \in ends : j < i /\ \A k \in ends : k < i => k <= j
        <5> DEFINE below == {j \in ends : j < i}
        <5>1. below \in SUBSET (1..Len(s)) /\ below # {} BY <1>3, <3>1
        <5>2. PICK j \in below : \A k \in below : k <= j
          <6> HIDE DEF below
          <6> QED BY <1>2, <5>1, AuLast
        <5>3. \A k \in ends : k < i => k \in below OBVIOUS
        <5>4. j \in ends /\ j < i /\ \A k \in ends : k < i => k <= j BY <5>2, <5>3
        <5> QED BY <5>4
      <4>3. m \in ends /\ m < i BY <4>1, <4>2
      <4>4. from(i) = 1 + m BY <3>1, <4>1
      <4> QED BY <1>3, <2>1, <4>3, <4>4
    <3>2. CASE ~\E j \in ends : j < i
      <4>1. from(i) = 1 + 0 BY <3>2
      <4> QED BY <2>1, <4>1
    <3> QED BY <3>1, <3>2
  <2> HIDE DEF from
  <2>3. PICK k : k = from(i) OBVIOUS
  <2>4. PICK t : t = SubSeq(s, k, i) OBVIOUS
  <2>5. Len(t) = i - k + 1 /\ t[Len(t)] = s[i]
    <3>1. k \in Int /\ i \in Int /\ k <= i /\ \A z \in k..i : s[z] \in AuPieces
      <4>1. \A z \in k..i : z \in 1..Len(s) BY <1>2, <2>1, <2>2, <2>3
      <4> QED BY <1>2, <2>1, <2>2, <2>3, <4>1
    <3>2. /\ Len(t) = IF k <= i THEN i - k + 1 ELSE 0
          /\ \A z \in 1 .. i - k + 1 : t[z] = s[k + z - 1]
      BY <2>4, <3>1, SubSeqProperties
    <3>3. i - k + 1 \in 1 .. i - k + 1 /\ k + (i - k + 1) - 1 = i BY <3>1
    <3> QED BY <3>1, <3>2, <3>3
  <2>6. ASSUME auParses(t) PROVE FALSE
    <3>1. Len(t) = 2 /\ t = auLine(t[1].rec) BY <2>6 DEF auParses
    <3>2. t[2] = s[i] BY <2>5, <3>1
    <3>3. t[2] = [rec |-> t[1].rec, end |-> TRUE]
      <4>1. PICK r : r = t[1].rec OBVIOUS
      <4>2. t = <<[rec |-> r, end |-> FALSE], [rec |-> r, end |-> TRUE]>> BY <3>1, <4>1 DEF auLine
      <4> QED BY <4>1, <4>2
    <3>4. s[i].end = TRUE BY <3>2, <3>3
    <3> QED BY <1>5, <3>4
  <2> QED BY <2>3, <2>4, <2>6
<1> HIDE DEF from
<1>6. /\ N \in Nat
      /\ \A i \in ends : RankIn(ends, i) \in 1..N
      /\ \A i, k \in ends : RankIn(ends, i) = RankIn(ends, k) => i = k
      /\ \A n \in 1..N : \E i \in ends : RankIn(ends, i) = n
      /\ Len(s) \in ends => RankIn(ends, Len(s)) = N
  BY <1>2, <1>3, AuRanks
<1>7. \A n \in 1..N : at(n) \in ends /\ RankIn(ends, at(n)) = n
  <2> SUFFICES ASSUME NEW n \in 1..N PROVE at(n) \in ends /\ RankIn(ends, at(n)) = n OBVIOUS
  <2>1. \E i \in ends : Cardinality({j \in ends : j <= i}) = n BY <1>6 DEF RankIn
  <2> QED BY <2>1 DEF RankIn
<1>8. \A i \in ends : at(RankIn(ends, i)) = i
  <2> SUFFICES ASSUME NEW i \in ends PROVE at(RankIn(ends, i)) = i OBVIOUS
  <2>1. RankIn(ends, i) \in 1..N BY <1>6
  <2>2. at(RankIn(ends, i)) \in ends /\ RankIn(ends, at(RankIn(ends, i))) = RankIn(ends, i) BY <1>7, <2>1
  <2> HIDE DEF at
  <2> QED BY <1>6, <2>2
<1>9. DOMAIN lines = 1..N /\ \A n \in 1..N : lines[n] = SubSeq(s, from(at(n)), at(n)) BY <1>1
<1> HIDE DEF at, lines, N
<1>10. ~auRefused(lines)
  <2> SUFFICES ASSUME NEW n \in 1..N, NEW last \in 1..N, n < last, ~auParses(lines[n]) PROVE FALSE BY <1>9 DEF auRefused
  <2>1. at(n) \in ends /\ RankIn(ends, at(n)) = n BY <1>7
  <2>2. CASE s[at(n)].end
    <3>1. lines[n] = auLine(s[at(n)].rec) /\ s[at(n)].rec \in AuRecs BY <1>4, <1>9, <2>1, <2>2
    <3>2. auParses(lines[n]) BY <3>1, AuParsed
    <3> QED BY <3>2
  <2>3. CASE ~s[at(n)].end
    <3>1. at(n) = Len(s) BY <1>3, <2>1, <2>3
    <3>2. n = N BY <1>6, <2>1, <3>1
    <3> QED BY <1>6, <3>2
  <2> QED BY <2>2, <2>3
<1>11. auGoodIn(lines) = auRecordsIn(s)
  <2>1. ASSUME NEW n \in 1..N, auParses(lines[n]) PROVE lines[n][1].rec \in auRecordsIn(s)
    <3>1. at(n) \in ends BY <1>7
    <3>2. s[at(n)].end BY <1>5, <1>9, <2>1, <3>1
    <3>3. lines[n] = auLine(s[at(n)].rec) /\ s[at(n)].rec \in AuRecs BY <1>4, <1>9, <3>1, <3>2
    <3>4. lines[n][1].rec = s[at(n)].rec BY <3>3, AuParsed
    <3>5. at(n) \in {j \in DOMAIN s : s[j].end} BY <1>2, <1>3, <3>1, <3>2
    <3> QED BY <3>4, <3>5 DEF auRecordsIn
  <2>2. ASSUME NEW i \in DOMAIN s, s[i].end PROVE s[i].rec \in auGoodIn(lines)
    <3>1. i \in ends BY <1>2, <1>3, <2>2
    <3>2. PICK n : n = RankIn(ends, i) OBVIOUS
    <3>3. n \in 1..N /\ at(n) = i BY <1>6, <1>8, <3>1, <3>2
    <3>4. lines[n] = auLine(s[i].rec) /\ s[i].rec \in AuRecs BY <1>4, <1>9, <2>2, <3>1, <3>3
    <3>5. auParses(lines[n]) /\ lines[n][1].rec = s[i].rec BY <3>4, AuParsed
    <3>6. n \in DOMAIN lines BY <1>9, <3>3
    <3> QED BY <3>5, <3>6 DEF auGoodIn
  <2>3. auGoodIn(lines) \subseteq auRecordsIn(s) BY <1>9, <2>1 DEF auGoodIn
  <2>4. auRecordsIn(s) \subseteq auGoodIn(lines) BY <2>2 DEF auRecordsIn
  <2> QED BY <2>3, <2>4
<1> QED BY <1>10, <1>11 DEF lines

LEMMA AuWindow == AuInv => WindowIsWhole
<1> SUFFICES ASSUME AuInv, NEW from \in 0..AuMaxTime, NEW to \in 0..AuMaxTime, \A d \in DOMAIN auDisk : ~auTorn(d)
             PROVE  /\ auRecords(from, to).ok
                    /\ auRecords(from, to).recs = {r \in auOnDisk \ {p.rec : p \in auPruned} : from <= r.at /\ r.at <= to}
  BY Zenon DEF WindowIsWhole
<1>1. /\ DOMAIN auDisk \subseteq auDays /\ auDisk \in [DOMAIN auDisk -> Seq(AuPieces)]
      /\ \A d \in DOMAIN auDisk : OfDay(auDisk[d], d) /\ Paired(auDisk[d])
      /\ \A p \in auPruned : \A d \in DOMAIN auDisk : p.rec \notin RecsOf(auDisk[d])
  BY DEF AuInv, Sound
<1>2. ASSUME NEW d \in DOMAIN auDisk
      PROVE  /\ ~auRefused(auLines(auDisk[d])) /\ auGoodIn(auLines(auDisk[d])) = auRecordsIn(auDisk[d])
             /\ \A r \in auRecordsIn(auDisk[d]) : r \in RecsOf(auDisk[d]) /\ r \in AuRecs /\ auDayOf(r.at) = d
  <2>1. auDisk[d] \in Seq(AuPieces) /\ Paired(auDisk[d]) /\ OfDay(auDisk[d], d) BY <1>1
  <2>2. Untorn(auDisk[d]) BY DEF Untorn, auTorn
  <2>3. ASSUME NEW r \in auRecordsIn(auDisk[d]) PROVE r \in RecsOf(auDisk[d]) /\ r \in AuRecs /\ auDayOf(r.at) = d
    <3>1. DOMAIN auDisk[d] = 1..Len(auDisk[d]) BY <2>1, LenProperties
    <3>2. PICK i \in 1..Len(auDisk[d]) : auDisk[d][i].rec = r BY <3>1 DEF auRecordsIn
    <3>3. auDisk[d][i] \in AuPieces BY <2>1, ElementOfSeq
    <3> QED BY <2>1, <3>2, <3>3 DEF RecsOf, OfDay, AuPieces
  <2> QED BY <2>1, <2>2, <2>3, AuLinesRead
<1> DEFINE read == [d \in auFiles(from, to) |-> auReadFile(auDisk[d], from, to)]
<1>3. auRecords(from, to) = [ok |-> \A d \in DOMAIN read : read[d].ok, recs |-> UNION {read[d].recs : d \in DOMAIN read}]
  BY DEF auRecords
<1>4. DOMAIN read = auFiles(from, to) /\ \A d \in auFiles(from, to) : read[d] = auReadFile(auDisk[d], from, to) OBVIOUS
<1>5. auFiles(from, to) \subseteq DOMAIN auDisk BY DEF auFiles
<1>6. ASSUME NEW d \in auFiles(from, to)
      PROVE  read[d].ok /\ read[d].recs = {r \in auRecordsIn(auDisk[d]) : from <= r.at /\ r.at <= to}
  <2>1. PICK lines : lines = auLines(auDisk[d]) OBVIOUS
  <2>2. ~auRefused(lines) /\ auGoodIn(lines) = auRecordsIn(auDisk[d]) BY <1>2, <1>5, <2>1
  <2>3. PICK ok : ok = ~auRefused(lines) OBVIOUS
  <2>4. auReadFile(auDisk[d], from, to) = [ok |-> ok, recs |-> {r \in auGoodIn(lines) : from <= r.at /\ r.at <= to}]
    BY <2>1, <2>3, Zenon DEF auReadFile
  <2>5. read[d].ok = ok /\ read[d].recs = {r \in auGoodIn(lines) : from <= r.at /\ r.at <= to}
    <3>1. read[d] = [ok |-> ok, recs |-> {r \in auGoodIn(lines) : from <= r.at /\ r.at <= to}] BY <1>4, <2>4
    <3> HIDE DEF read
    <3> QED BY <3>1
  <2> QED BY <2>2, <2>3, <2>5
<1> HIDE DEF read
<1>7. auRecords(from, to).ok
  <2>1. PICK ok : ok = (\A d \in DOMAIN read : read[d].ok) OBVIOUS
  <2>2. auRecords(from, to) = [ok |-> ok, recs |-> UNION {read[d].recs : d \in DOMAIN read}] BY <1>3, <2>1, Zenon
  <2>3. auRecords(from, to).ok = ok BY <2>2
  <2>4. \A d \in DOMAIN read : read[d].ok BY <1>4, <1>6
  <2> QED BY <2>1, <2>3, <2>4
<1>8. auRecords(from, to).recs = UNION {read[d].recs : d \in DOMAIN read}
  <2>1. PICK ok : ok = (\A d \in DOMAIN read : read[d].ok) OBVIOUS
  <2>2. auRecords(from, to) = [ok |-> ok, recs |-> UNION {read[d].recs : d \in DOMAIN read}] BY <1>3, <2>1, Zenon
  <2> QED BY <2>2
<1>9. ASSUME NEW d \in DOMAIN auDisk, NEW r \in auRecordsIn(auDisk[d]), from <= r.at, r.at <= to
      PROVE  d \in auFiles(from, to)
  <2>1. auDayOf(r.at) = d /\ r.at \in Int
    <3>1. r \in AuRecs /\ auDayOf(r.at) = d BY <1>2
    <3> QED BY <3>1 DEF AuRecs
  <2>2. 2 * d <= r.at /\ r.at < 2 * (d + 1) /\ d \in Int BY <2>1 DEF auDayOf
  <2>3. 2 * (d + 1) >= from /\ 2 * d <= to BY <1>9, <2>1, <2>2
  <2> QED BY <2>3 DEF auFiles
<1>10. ASSUME NEW r \in auRecords(from, to).recs
       PROVE  r \in {x \in auOnDisk \ {p.rec : p \in auPruned} : from <= x.at /\ x.at <= to}
  <2>1. PICK d \in auFiles(from, to) : r \in auRecordsIn(auDisk[d]) /\ from <= r.at /\ r.at <= to BY <1>4, <1>6, <1>8
  <2>2. d \in DOMAIN auDisk /\ r \in RecsOf(auDisk[d]) BY <1>2, <1>5, <2>1
  <2>3. r \notin {p.rec : p \in auPruned} BY <1>1, <2>2
  <2> QED BY <2>1, <2>2, <2>3 DEF auOnDisk
<1>11. ASSUME NEW r \in auOnDisk \ {p.rec : p \in auPruned}, from <= r.at, r.at <= to
       PROVE  r \in auRecords(from, to).recs
  <2>1. PICK d \in DOMAIN auDisk : r \in auRecordsIn(auDisk[d]) BY DEF auOnDisk
  <2>2. d \in auFiles(from, to) BY <1>9, <1>11, <2>1
  <2>3. r \in read[d].recs BY <1>6, <1>11, <2>1, <2>2
  <2> QED BY <1>4, <1>8, <2>2, <2>3
<1> QED BY <1>7, <1>10, <1>11

LEMMA AuRecordsKept == AuInv => RecordsAreKept
<1> SUFFICES ASSUME AuInv PROVE RecordsAreKept OBVIOUS
<1>1. AuOpen /\ QueueHolds /\ HandlersHold /\ RunHolds /\ AuKnown /\ AuThere /\ SyncReaches BY AuInvParts
<1>2. AuTypeOK
  <2>1. /\ DOMAIN auDisk \subseteq auDays /\ Len(auFile.buf) <= AuBufSize /\ auFile.fd \in {"open", "nil", "closed"}
        /\ auFile.fd = "nil" => auFile.buf = <<>>
    BY <1>1, AuFileFields DEF AuOpen, Sound
  <2>2. \A h \in AuHandlers : auHandler[h].did \in {"idle", "waiting", "queued", "reported"}
    <3>1. \A h \in AuHandlers : auHandler[h] \in AuStates BY <1>1 DEF HandlersHold
    <3> QED BY <3>1 DEF AuStates
  <2> QED BY <1>1, <2>1, <2>2 DEF AuTypeOK, RunHolds, QueueHolds
<1>3. QuietIsWritten
  <2> SUFFICES ASSUME auQueue = <<>>, auRun = "run", ~auFile.err PROVE auQueued \subseteq auOnDisk \cup auFailed \cup auLost
    BY DEF QuietIsWritten
  <2>1. auFile.buf = <<>> BY <1>1 DEF RunHolds
  <2>2. auRecordsIn(auFile.buf) = {} BY <2>1, AuNothing
  <2>3. KeptIn(auFile, auDisk, auPruned) = auOnDisk BY <2>2, AuSaved DEF KeptIn
  <2>4. Range(auQueue) = {}
    <3>1. DOMAIN auQueue = {} OBVIOUS
    <3> QED BY <3>1 DEF Range
  <2> QED BY <1>1, <2>3, <2>4 DEF AuThere
<1>4. RightDay
  <2> SUFFICES ASSUME NEW d \in DOMAIN auDisk, NEW i \in DOMAIN auDisk[d] PROVE auDayOf(auDisk[d][i].rec.at) = d
    BY DEF RightDay
  <2>1. auDisk[d] \in Seq(AuPieces) /\ OfDay(auDisk[d], d) BY <1>1 DEF AuOpen, Sound
  <2>2. i \in 1..Len(auDisk[d]) BY <2>1, LenProperties
  <2> QED BY <2>1, <2>2 DEF OfDay
<1>5. RetentionHonest BY <1>1 DEF RetentionHonest, AuOpen, Sound
<1>6. WindowIsWhole BY AuWindow
<1> QED BY <1>1, <1>2, <1>3, <1>4, <1>5, <1>6 DEF RecordsAreKept

\* Whatever the log accepted can be accounted for: Sync and a quiet process have it
\* written, in the file of its day, and a reader of any window is given it until
\* prune rightly takes it (Log.run, File.Append, File.roll, File.prune, readFile).
THEOREM RecordsKept == AuSpec => []RecordsAreKept
<1>1. AuInit => AuInv BY AuInitInv
<1>2. AuInv /\ [AuNext]_auVars => AuInv' BY AuNextInv
<1>3. AuInv => RecordsAreKept BY AuRecordsKept
<1> QED BY <1>1, <1>2, <1>3, PTL DEF AuSpec
=============================================================================
