---------------------------- MODULE MCConnectors ----------------------------
(* Small instances of the connectors and of what they share, for TLC.  One  *)
(* behaviour is about one part: each connector runs on its own, and shares  *)
(* code with the others and no state.                                       *)
EXTENDS Connectors, Thread, Slack, Limit

CONSTANTS Parts
VARIABLE part

-----------------------------------------------------------------------------
\* Two containers with a conversation each, the second with a rule of its own.
MCTsHome == <<1, 2>>
TsFewer == tsSpent'.rewrites > 0 => tsSpent'.edits <= 1 /\ tsSpent'.fails <= 1

\* First lines whose spaces lie in either half of the room, or nowhere.
MCThWords == {<<>>, <<2, 2>>, <<1, 9>>, <<4, 9>>, <<9>>}
ThFewer == thWords = <<2, 2>>

-----------------------------------------------------------------------------
\* What the channel says of itself comes first and stays as it is.
SlFewer ==
  /\ \A p \in DOMAIN slChan' : slChan'[p].noise => p = 1 /\ slChan'[p].replies = {} /\ slChan'[p].edited = 0
  /\ \A p \in DOMAIN slChan : slChan[p].noise => p \in DOMAIN slChan'

\* Levels and schemes that name people, roles and everybody.  A scheme is
\* read without a crawl, a level with few changes, pages without a level.
person(w) == [type |-> "user", who |-> w]
member(w) == [type |-> "role", who |-> w]
MCJrLevels == {{}, {person("ann"), person("bob")}, {person("ann"), member("dev")}}
granted(t, w, p) == [type |-> t, who |-> w, permit |-> p]
MCJrSchemes ==
  {{}, {granted("user", "ann", "browse"), granted("projectRole", "dev", "browse")}, {granted("group", "eng", "edit")},
   {granted("anyone", "", "browse"), granted("user", "bob", "browse")}}
JrStart == jrScheme # {} => jrLevel = {}
secured(f) == \E k \in DOMAIN f : f[k].secured
JrFewer ==
  /\ jrRule # jrRule' \/ jrScheme' # jrScheme => jrNow = 0 /\ jrWalk.n = 0 /\ jrLevel = {}
  /\ jrRule # <<>> \/ jrScheme # {} => jrNow' = jrNow /\ jrWalk' = jrWalk /\ jrLevel' = jrLevel
  /\ jrLevel # jrLevel' \/ jrLevel # {} => jrNow' <= 2 /\ (jrNow' > jrNow => secured(jrIssue'))
  /\ jrLevel = {} /\ jrFiled' > 1 => ~ secured(jrIssue')
  /\ secured(jrIssue) /\ jrWalk.at = "none" /\ jrWalk'.at = "pages" => jrWalk'.end = "total" /\ jrWalk'.cap = 1
  /\ jrWalk.at = "none" /\ jrWalk'.at = "pages" => jrWalk'.since \in {0, 3} /\ (jrWalk'.cap > 1 => jrWalk'.end = "short" /\ jrWalk'.since = 0)
  /\ jrWalk.at = "done" => jrNow' = jrNow

\* A page and one below it.
MCCfParent == <<0, 1>>
grantedOn(o, t, w) == [op |-> o, target |-> t, who |-> w]
MCCfGrants ==
  {{}, {grantedOn("read", "space", "ann"), grantedOn("read", "page", "bob"), grantedOn("edit", "space", "cat")},
   {grantedOn("read", "", "anonymous")}}
CfFewer ==
  /\ cfSpace = {}
  /\ cfSpent'.restricts > 0 => cfNow' <= 2
  /\ cfSpent'.crawls > 1 => cfSpent'.restricts > 0 /\ cfSpent'.faults = 0
  /\ cfSpent'.faults > 0 => cfNow' <= 3
  /\ cfCrawl.at = "listed" /\ cfCrawl'.at = "search" => cfCrawl'.since \in {0, 2, 3}

-----------------------------------------------------------------------------
\* The second key is not one the connector was asked for, and only written
\* first.  The list is rewritten while little else is, and a second time beside
\* a fault only while no object is written.
OsStart == \A k \in OsKeys \ OsWanted : osObj[k].tag = 0
OsFewer ==
  /\ osAcl' > 0 => osSpent'.writes <= 2
  /\ osIdx' # osIdx /\ ~osRun.on => osSpent.writes > 1
  /\ osSpent'.faults > 0 => osSpent'.writes <= 2
  /\ osSpent'.faults > 0 /\ osAcl' > 1 => osSpent'.writes <= 1
  /\ \A k \in OsKeys \ OsWanted : osObj'[k] # osObj[k] => osSpent.writes = 1 /\ osCk.since = 0
  /\ \A k \in OsKeys \ OsWanted : osObj[k].tag # 0 => osAcl' = 0 /\ osSpent'.writes <= 2 /\ osSpent'.faults = 0

-----------------------------------------------------------------------------
\* Three readers, and every kind of statement a source makes about them.
reader(s, g) == [tenant |-> "t", subject |-> s, identities |-> <<[source |-> "corp", value |-> s]>>,
                 groups |-> g, version |-> 1, roles |-> {}]
MCAmReaders == {reader("ann", {}), reader("bob", {<<"corp", "eng">>}), reader("eve", {})}
says(s, i, e, r, l, o) == [subject |-> s, id |-> i, effect |-> e, role |-> r, link |-> l, owner |-> o]
MCAmGrants ==
  {says("user", "ann", "allow", "reader", FALSE, TRUE), says("user", "bob", "allow", "reader", FALSE, TRUE),
   says("user", "bob", "deny", "", FALSE, FALSE), says("group", "eng", "allow", "reader", FALSE, FALSE),
   says("group", "eng", "deny", "reader", FALSE, FALSE), says("user", "eve", "allow", "labeller", FALSE, FALSE),
   says("domain", "acme", "allow", "", FALSE, FALSE), says("domain", "other", "allow", "reader", FALSE, FALSE),
   says("domain", "acme", "deny", "reader", FALSE, FALSE), says("anyone", "", "allow", "reader", TRUE, FALSE),
   says("anyone", "", "allow", "reader", FALSE, FALSE), says("anyone", "", "deny", "reader", FALSE, FALSE),
   says("user", "", "allow", "labeller", FALSE, FALSE)}
MCLower == [x \in {"corp", "eng", ""} |-> x]

\* A name with a character a file name may not have, one with the character it is
\* replaced by, and no name at all.
MCCkSources == {<< <<"t">>, n >> : n \in {<<>>, <<"a", "/">>, <<"a", "-">>}}

-----------------------------------------------------------------------------
Init ==
  /\ part \in Parts
  /\ TsInit /\ (part # "threads" => \A x \in TsConvs : tsConv[x] = 0)
  /\ ThInit /\ (part # "assembly" => thWords = <<>> /\ thRoot = [id |-> 0, at |-> 0, edited |-> 0, who |-> 0, size |-> 0])
  /\ SlInit
  /\ JrInit /\ JrStart /\ (part # "jira" => jrScheme = {} /\ jrLevel = {})
  /\ CfInit /\ (part # "confluence" => cfSpace = {})
  /\ OsInit /\ OsStart /\ (part # "objects" => \A k \in OsKeys : osObj[k].tag = 0)
  /\ AmInit /\ CkInit /\ LmInit
Next ==
  /\ UNCHANGED part
  /\ \/ /\ part = "threads" /\ TsNext /\ TsFewer
        /\ UNCHANGED <<thVars, slVars, jrVars, cfVars, osVars, amVars, ckVars, lmVars>>
     \/ /\ part = "assembly" /\ ThNext /\ ThFewer
        /\ UNCHANGED <<tsVars, slVars, jrVars, cfVars, osVars, amVars, ckVars, lmVars>>
     \/ /\ part = "slack" /\ SlNext /\ SlFewer
        /\ UNCHANGED <<tsVars, thVars, jrVars, cfVars, osVars, amVars, ckVars, lmVars>>
     \/ /\ part = "jira" /\ JrNext /\ JrFewer
        /\ UNCHANGED <<tsVars, thVars, slVars, cfVars, osVars, amVars, ckVars, lmVars>>
     \/ /\ part = "confluence" /\ CfNext /\ CfFewer
        /\ UNCHANGED <<tsVars, thVars, slVars, jrVars, osVars, amVars, ckVars, lmVars>>
     \/ /\ part = "objects" /\ OsNext /\ OsFewer
        /\ UNCHANGED <<tsVars, thVars, slVars, jrVars, cfVars, amVars, ckVars, lmVars>>
     \/ /\ part = "permissions" /\ AmNext
        /\ UNCHANGED <<tsVars, thVars, slVars, jrVars, cfVars, osVars, ckVars, lmVars>>
     \/ /\ part = "checkpoints" /\ CkNext
        /\ UNCHANGED <<tsVars, thVars, slVars, jrVars, cfVars, osVars, amVars, lmVars>>
     \/ /\ part = "limits" /\ LmNext
        /\ UNCHANGED <<tsVars, thVars, slVars, jrVars, cfVars, osVars, amVars, ckVars>>
vars == <<part, tsVars, thVars, slVars, jrVars, cfVars, osVars, amVars, ckVars, lmVars>>
SafetySpec == Init /\ [][Next]_vars
Spec == SafetySpec /\ LmFairness

\* What a product is asked for comes whole although it changes between two pages,
\* and is made into the same document however the pages were cut (thread, Slack,
\* Jira and Confluence adapters).
ConversationsAreWhole ==
  /\ part = "assembly" => BodyIsRootAndEnd /\ PagesDoNotMatter /\ TitleIsBounded
  /\ part = "slack" => WindowCovers /\ VersionsAgree /\ SameRevisionSameThread
  /\ part = "jira" => PagesWhole /\ CommentsWhole
  /\ part = "confluence" => CommentMovesPage

\* Every change of a conversation moves its version, and only an object that is
\* gone takes its document along (thread.go, apiError.gone).
ChangesAreSeen == EveryChangeMovesRevision /\ DropsOnlyGone

\* Once the circuit is open the source is left alone, and every request is
\* answered or given up (RoundTrip, closed).
CallsEnd == LeftAlone /\ CallsReturn
=============================================================================
