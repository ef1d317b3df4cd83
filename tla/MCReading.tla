----------------------------- MODULE MCReading -----------------------------
(* Small instances of the parts that answer a request, for TLC.  One        *)
(* behaviour is about one part: they meet through the values they pass, not *)
(* through state they share.                                                *)
EXTENDS Directory, Recheck, Search, Audit, Tokens, Providers, Api

CONSTANTS Parts
VARIABLE part

-----------------------------------------------------------------------------
\* Ann is in a cycle of two groups and through it in a third; the lab knows
\* her too.  One file names a group it does not define, one reaches too many.
grp(id, parents) == [id |-> id, memberOf |-> parents, version |-> "v1"]
sub(groups) == [id |-> "ann", memberOf |-> groups, version |-> "s1", disabled |-> FALSE,
                identities |-> {[source |-> "slack", value |-> "U1"]}]
file(name, groups, subject) == [name |-> name, groups |-> groups, subjects |-> <<subject>>]
Corp == file("corp", <<grp("g1", {"g2"}), grp("g2", {"g1", "g3"}), grp("g3", {}), grp("g4", {})>>,
             sub({"g1", "g2"}))
CorpWide == [Corp EXCEPT !.groups = <<grp("g1", {"g2"}), grp("g2", {"g3", "g4"}), grp("g3", {}), grp("g4", {})>>]
CorpTypo == [Corp EXCEPT !.groups = <<grp("g1", {"g2"}), grp("g2", {"g1", "g3"})>>]
Lab == file("lab", <<grp("g1", {})>>, sub({"g1"}))
MCDirs == <<"corp", "lab">>
MCDirFiles == "corp" :> {Corp, CorpWide, CorpTypo} @@ "lab" :> {Lab}
DirStart == dirHeld["corp"] # ReadStatic(CorpWide)
\* The walks are checked against edits, the cache against the clock.  A second
\* walk comes after an edit, while the first answer is in use, and does not fail.
inUse(c) == dirCall[c].at = "answered"
DirWalksOnly ==
  /\ dirNow' = 0 /\ dirForgets' = dirForgets
  /\ dirShard # <<>> /\ dirShard' = <<>> => \E c \in DirCallers : inUse(c) /\ dirCall[c].got.of # dirHeld
  /\ dirShard = <<>> => \A c \in DirCallers : inUse(c) =>
       /\ dirCall'[c] = dirCall[c]
       /\ \A i \in DirIds : dirWalk'[i] # None =>
            ~ dirWalk'[i].canceled /\ \A d \in DirNames : dirWalk'[i].parts[d].at \notin {"failed", "canceled"}
DirTimesOnly == dirEdits' = 0

\* Every description is opened where the service behaves, and one elsewhere.
\* Faults come with few changes, and the account changes between two expansions.
PvStart == pvSite.etags => pvKind = "google" /\ ~ pvSite.repeats
PvFewer ==
  /\ pvServer.at = "closed" /\ (pvSite.repeats \/ pvSite.etags) =>
       pvServer'.credential = "accepted" /\ pvServer'.fields \cap {"authority", "credential_env"} = {}
  /\ pvSite.repeats => pvSpent'.changes = 0
  /\ pvSpent'.faults > 0 => pvSpent'.changes <= 1 /\ pvSpent'.walks <= 1
  /\ pvSite'.user.mail # pvSite.user.mail => pvWalk.at = "none" /\ pvSite'.user.status = "on"

-----------------------------------------------------------------------------
\* Two pages of the same rows, and what is revoked is the first row.  Pages
\* overlap while the drive alone is checked and its checker comes and goes; they
\* follow one another while the mail is checked as well.  The two are alike, and
\* the first is p1.
MCRcItems == <<[id |-> "d1", source |-> "drive"], [id |-> "d2", source |-> "mail"]>>
MCRcAsker == "p1" :> "ann" @@ "p2" :> "ann"
RcStart == "drive" \in rcCheckers
RcFewer ==
  /\ rcBegun = 0 => rcPage'["p2"].at = "idle"
  /\ rcRevoked'["ann", "d2"] = None
  /\ "mail" \in rcCheckers' <=> "mail" \in rcCheckers
  /\ "mail" \in rcCheckers =>
       rcChanges' = 0 /\ Cardinality({g \in RcPages : rcPage'[g].at # "idle"}) <= 1

-----------------------------------------------------------------------------
\* One document, and two people who may read it at first.  The first request
\* is a search; a shape is asked for beside another shape.  The clock runs
\* beside a shape, and a sweep comes while a write is being told.  A document is
\* edited before the second request or not at all.
MCIxNewDoc == [ver |-> 1, readers |-> {"ann", "bob"}]
others(r, ops) == \A q \in IxReaders \ {r} : ixReq[q].at # "idle" => ixReq[q].op \in ops
IxFewer ==
  /\ ixNow' > ixNow => \E r \in IxReaders : ixReq[r].at # "idle" /\ ixReq[r].op = "filters"
  /\ ixCache # ixCache' /\ (\A l \in Layers : ixCache'[l] = <<>>) /\ ixReq' = ixReq /\ ixUntold' = ixUntold => ixUntold # None /\ ixBegun = 1
  /\ ixBegun = 0 => ixReq'["r2"].at = "idle"
  /\ ixReq["r1"].at # "idle" /\ ixReq["r1"].p = "bob" /\ ixReq'["r2"].at # "idle" => ixReq'["r2"].p = "bob"
  /\ \A r \in IxReaders : ixReq[r].at = "run" /\ ixReq'[r].at = "idle" => ixWrites = 0
  /\ ixBlind => \A r \in IxReaders : ixReq'[r].at # "idle" => ixReq'[r].op = "search" /\ ixReq'[r].p = "ann"
  /\ ixWrites' > ixWrites /\ ixDocs'["d1"] # None => "ann" \in ixDocs'["d1"].readers
  /\ ixWrites' > ixWrites /\ versionOf(ixDocs', "d1") > 1 /\ ~ ixBlind => ixReq["r2"].at = "idle"
  /\ \A r \in IxReaders : ixReq[r].at = "idle" /\ ixReq'[r].at # "idle" =>
       CASE ixReq'[r].op = "filters" -> others(r, {"filters"})
         [] ixReq'[r].op = "recent" -> r = "r2" /\ others(r, {"search"})
         [] OTHER -> others(r, {"search", "recent"})

-----------------------------------------------------------------------------
\* Handlers write in order.  Faults are checked without restarts and restarts
\* without faults; the log is closed on its first day.
AuFewer ==
  /\ auStarts' > 1 => auFaults' = 0 /\ auSync'.did = "idle" /\ ~auQuit'
  /\ auFaults' > 0 => ~auQuit'
  /\ auSync'.did \in {"asked", "ok", "error"} => ~auQuit'
  /\ auQuit' => auNow' = 0
  /\ auSync.did = "ok" => UNCHANGED auFaults
  /\ \A h \in AuHandlers : h + 1 \in AuHandlers /\ auHandler[h].did = "idle" => auHandler'[h + 1].did = "idle"

-----------------------------------------------------------------------------
\* A report is made while a claim is, owners are changed by two at once, and two
\* pictures are drawn; every other request is alone.  Ann reads, bob owns, and
\* only one document has a history, which matters to those who ask about it.
ApStart ==
  /\ \A id \in ApIds : apDocs[id].said = "bob" /\ apDocs[id].author = "bob"
  /\ apCorrected["d2"] = None /\ apReports["d2"] = NoReports
  /\ part # "api" => apCorrected["d1"] = None /\ apReports["d1"] = NoReports /\ apCard = None
together(op1, op2) ==
  \/ op1 = "verify" /\ op2 = "report"
  \/ op1 \in {"clearOwner", "setOwner"} /\ op2 = "clearOwner"
  \/ op1 = "thumbnail" /\ op2 = "thumbnail"
apFits(req) ==
  /\ req.op \notin Claims \cup {"reported"} => apCorrected["d1"] = None /\ apReports["d1"] = NoReports
  /\ req.op = "search" \/ apCard = None
  /\ req.op \in {"setOwner", "clearOwner"} => apReports["d1"] = NoReports
  /\ req.op \in Claims \ {"setOwner", "clearOwner"} => apCorrected["d1"] = None
  /\ req.op \in (Pages \cup Panels) \ {"reported"} => req.p = "ann"
  /\ req.op = "reported" => req.p = "bob"
  /\ req.op # "documents" => req.id = "d1"
apStarts(q) == apReq[q].at = "idle" /\ apReq'[q].at = "begun"
ApFewer ==
  /\ \A q \in ApRequests : apStarts(q) => apFits(apReq'[q])
  /\ apReq["q2"].at = "idle" /\ apReq'["q2"].at # "idle" =>
       apStarts("q2") /\ together(apReq["q1"].op, apReq'["q2"].op) /\ apChanges <= 1
  /\ apReq["q2"].at # "idle" => apChanges' <= 1 /\ apHeard' = apHeard
  /\ apDocs'["d2"] = apDocs["d2"]
  /\ \A id \in ApIds : <<"bob", id>> \in apMay' \/ apReq'["q1"].op = "verify"
  /\ apDocs'["d1"] # None /\ apDocs'["d1"].said = "ann" => apDocs["d1"] = apDocs'["d1"] \/ apReq["q1"].op = "clearOwner"

-----------------------------------------------------------------------------
Init ==
  /\ part \in Parts /\ DirInit /\ DirStart /\ RcInit /\ RcStart /\ IxInit /\ AuInit /\ TkInit /\ PvInit /\ PvStart /\ ApInit /\ ApStart
  /\ part # "recheck" => rcCheckers = {"drive"}
  /\ part # "providers" => pvKind = "okta" /\ ~ pvSite.repeats /\ ~ pvSite.etags
  /\ part # "search" => ixDocs["d1"] = None /\ ~ixBlind
Next ==
  /\ UNCHANGED part
  /\ \/ part = "walks" /\ DirNext /\ DirWalksOnly /\ UNCHANGED <<rcVars, ixVars, auVars, tkVars, pvVars, apVars>>
     \/ part = "lifetimes" /\ DirNext /\ DirTimesOnly /\ UNCHANGED <<rcVars, ixVars, auVars, tkVars, pvVars, apVars>>
     \/ part = "recheck" /\ RcNext /\ RcFewer /\ UNCHANGED <<dirVars, ixVars, auVars, tkVars, pvVars, apVars>>
     \/ part = "search" /\ IxNext /\ IxFewer /\ UNCHANGED <<dirVars, rcVars, auVars, tkVars, pvVars, apVars>>
     \/ part = "audit" /\ AuNext /\ AuFewer /\ UNCHANGED <<dirVars, rcVars, ixVars, tkVars, pvVars, apVars>>
     \/ part = "tokens" /\ TkNext /\ UNCHANGED <<dirVars, rcVars, ixVars, auVars, pvVars, apVars>>
     \/ part = "providers" /\ PvNext /\ PvFewer /\ UNCHANGED <<dirVars, rcVars, ixVars, auVars, tkVars, apVars>>
     \/ part = "api" /\ ApNext /\ ApFewer /\ UNCHANGED <<dirVars, rcVars, ixVars, auVars, tkVars, pvVars>>
vars == <<part, dirVars, rcVars, ixVars, auVars, tkVars, pvVars, apVars>>
SafetySpec == Init /\ [][Next]_vars
Spec == SafetySpec /\ DirFairness /\ RcFairness /\ AuFairness

\* The groups a request is given are those its directories put the person in: the
\* whole closure, one set to a version, out of a walk that ended within the
\* lifetime and after the last Forget (it may have read before it), and a refusal
\* names its cause (expand.go, multi.go, cached.go).  What a hosted
\* directory is said to have answered, it did: no group is left out for a page that
\* could not be read, nobody is missing for another refusal, no lookup goes out
\* with a dead token, and a server starts with a description and a credential its
\* provider takes (directory/google, entra, okta, provider).
GroupsAreTrue ==
  /\ part \in {"walks", "lifetimes"} =>
       /\ DirTypeOK
       /\ ExpandsToClosure
       /\ FilesHaveNoUnknown
       /\ SameVersionSameGroups
       /\ StalenessBounded
       /\ ForgottenNotServed
       /\ RefusalNamesTheCause
       /\ OneWalkPerSubject
  /\ part = "tokens" => ArrivesAlive /\ SignsInOnce
  /\ part = "providers" =>
       /\ NoFieldIgnored
       /\ StartsAccepted
       /\ SubjectAnswersTrue
       /\ ListingWhole
       /\ ExpansionWhole

\* Nobody waits for ever: not for a walk somebody else led, not for a checker that
\* never answers, not for room in the queue of the log (Cached, Check, Write).
RequestsEnd == CallersAreAnswered /\ PagesReturn /\ HandlersGoOn
=============================================================================
