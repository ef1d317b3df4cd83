----------------------------- MODULE Providers ------------------------------
(***************************************************************************)
(* The hosted directories: how one is opened from its description and      *)
(* probed before the server starts (directory/provider), and what its two  *)
(* lookups ask of the service (directory/okta, directory/entra,            *)
(* directory/google), one request to a step, while people and groups move. *)
(*                                                                         *)
(* Key 0 is the person, the others are groups.  Okta's groups hold people  *)
(* only, Entra lists every group somebody is in, Google the ones a key is  *)
(* directly in.  The walk over the groups is that of directory/expand.go   *)
(* (module Directory), one lookup at a time.                               *)
(***************************************************************************)
EXTENDS Integers, FiniteSets, FiniteSetsExt

CONSTANTS
  PvGroups, PvPage,
  PvMaxPages,                        \* maxPages
  PvMaxChanges, PvMaxFaults, PvMaxWalks
ASSUME PvAssumption == PvGroups \subseteq Nat \ {0} /\ {PvPage, PvMaxPages} \subseteq Nat \ {0}

VARIABLES
  pvKind,    \* which provider this is
  pvServer,  \* the server: its description, then whether it started
  pvSite,    \* what the service holds
  pvWalk,    \* the expansion under way
  pvHeld,    \* held: the groups whose objects are buffered
  pvAnswer,  \* what the last expansion answered
  pvLast,    \* the last answer about each key: its version and what the version stands for
  pvSeen,    \* everything that was so while the expansion ran
  pvSpent

pvVars == <<pvKind, pvServer, pvSite, pvWalk, pvHeld, pvAnswer, pvLast, pvSeen, pvSpent>>

PvKeys == {0} \cup PvGroups
PvNothing == [version |-> <<>>, says |-> {}]
pvIdle == [at |-> "none", key |-> 0, todo |-> {}, seen |-> {}, link |-> 0, pages |-> 0, out |-> {}]
pvClosed == [at |-> "closed", fields |-> {}, used |-> {}, credential |-> ""]
pvRefused == [pvClosed EXCEPT !.at = "refused"]

\* The groups above a key along a set of memberships.
above(edges, key) ==
  LET closed(S) == \A e \in edges : e[1] \in S => e[2] \in S
  IN {g \in PvGroups : \A S \in SUBSET PvKeys : key \in S /\ closed(S) => g \in S} \ {key}
directly(edges, key) == {g \in PvGroups : <<key, g>> \in edges}

PvInit ==
  /\ pvKind \in {"okta", "entra", "google"} /\ pvServer = pvClosed
  /\ \E repeats, etags \in BOOLEAN :
       pvSite = [edges |-> IF pvKind = "okta" THEN {0} \X PvGroups ELSE {<<0, Min(PvGroups)>>, <<Min(PvGroups), Max(PvGroups)>>},
                 user |-> [status |-> "on", mail |-> "m1", login |-> "guest", stamp |-> 1],
                 gone |-> {}, repeats |-> repeats, etags |-> etags]
  /\ pvWalk = pvIdle /\ pvHeld = {} /\ pvAnswer = [is |-> "none", groups |-> {}]
  /\ pvLast = [k \in PvKeys |-> PvNothing]
  /\ pvSeen = [always |-> {}, ever |-> {}, states |-> {}]
  /\ pvSpent = [changes |-> 0, faults |-> 0, walks |-> 0]

-----------------------------------------------------------------------------
\* The descriptions.  A field is set or it is not.

Fields == {"name", "endpoint", "tenant", "client_id", "authority", "subject", "credential", "credential_file", "credential_env", "typo"}

\* credential: what the file or the variable holds, when exactly one is named.
credential(fields, holds) ==
  /\ "credential" \notin fields
  /\ Cardinality(fields \cap {"credential_file", "credential_env"}) = 1
  /\ holds # "blank"

\* okta, entra and google: what each needs, refuses and passes on; nothing when refused.
unused(fields, named) == fields \cap named = {}
okta(fields) ==
  IF "endpoint" \in fields /\ unused(fields, {"tenant", "client_id", "authority", "subject"}) THEN {"endpoint"} ELSE {}
entra(fields) ==
  IF {"tenant", "client_id"} \subseteq fields /\ unused(fields, {"subject"})
  THEN {"tenant", "client_id"} \cup (fields \cap {"authority", "endpoint"}) ELSE {}
\* CredentialsFromJSON and NewServiceAccount: the credential is a key file, read here.
keyFile(holds) == holds \in {"accepted", "revoked"}
google(fields, holds) ==
  IF "subject" \in fields /\ unused(fields, {"tenant", "client_id"}) /\ keyFile(holds)
  THEN {"subject"} \cup (fields \cap {"authority", "endpoint"}) ELSE {}

\* Open and New.  A description that names no provider is a directory written
\* out in full (Describes), and one that names another is refused.
Open(fields, holds) ==
  IF "typo" \in fields \/ "name" \notin fields \/ ~ credential(fields, holds) THEN {}
  ELSE CASE pvKind = "okta" -> okta(fields)
         [] pvKind = "entra" -> entra(fields)
         [] pvKind = "google" -> google(fields, holds)
PvOpen(fields, holds) ==
  /\ LET used == Open(fields, holds)
     IN pvServer' = IF used = {} THEN pvRefused
                    ELSE [at |-> "probing", fields |-> fields, credential |-> holds,
                          used |-> used \cup {"name"} \cup (fields \cap {"credential_file", "credential_env"})]
  /\ UNCHANGED <<pvKind, pvSite, pvWalk, pvHeld, pvAnswer, pvLast, pvSeen, pvSpent>>

-----------------------------------------------------------------------------
\* The service.

faulty == {"badRequest", "forbidden", "unavailable", "undecodable"}
exists(key) == IF key = 0 THEN pvSite.user.status # "absent" ELSE key \notin pvSite.gone
\* What a request about a key may be answered with.
answers(key) ==
  (IF pvServer.credential # "accepted" THEN {"unauthorized"}
   ELSE IF exists(key) THEN {"ok"} ELSE {"notFound"} \cup (IF key = 0 /\ pvKind # "okta" THEN {"malformed"} ELSE {}))
  \cup (IF pvSpent.faults < PvMaxFaults THEN faulty ELSE {})
spends(code) == pvSpent' = [pvSpent EXCEPT !.faults = IF code \in faulty THEN @ + 1 ELSE @]

\* What memberships asks for: Okta and Google list what a key is directly in, Entra
\* everything above it.
oktaListing(key) == directly(pvSite.edges, key)
entraListing(key) == above(pvSite.edges, key)
googleListing(key) == directly(pvSite.edges, key)
listing(key) ==
  CASE pvKind = "okta" -> oktaListing(key) [] pvKind = "entra" -> entraListing(key) [] pvKind = "google" -> googleListing(key)
\* A page of it: what comes after the link, and the link to the rest.
rest == {g \in listing(pvWalk.key) : g > pvWalk.link}
pageOf == {g \in rest : Cardinality({h \in rest : h <= g}) <= PvPage}
nextLink == IF rest = pageOf THEN -1 ELSE IF pvSite.repeats THEN pvWalk.link ELSE Max(pageOf)

\* Everything the site does is part of what was so while an expansion ran.
pvMoves(site) ==
  /\ pvServer.at = "up" /\ pvSpent.changes < PvMaxChanges /\ site # pvSite
  /\ pvSite' = site
  /\ pvSeen' = [always |-> pvSeen.always \cap site.edges, ever |-> pvSeen.ever \cup site.edges,
                states |-> pvSeen.states \cup {site.user.status}]
  /\ pvSpent' = [pvSpent EXCEPT !.changes = @ + 1]
  /\ UNCHANGED <<pvKind, pvServer, pvWalk, pvHeld, pvAnswer, pvLast>>
\* A key joins or leaves a group.
PvJoin(e) ==
  /\ exists(e[1]) /\ exists(e[2]) /\ e[1] # e[2] /\ (pvKind = "okta" => e[1] = 0)
  /\ pvMoves([pvSite EXCEPT !.edges = IF e \in @ THEN @ \ {e} ELSE @ \cup {e}])
\* The account is renamed, switched off or deleted.
PvAccount(status, mail) ==
  /\ exists(0)
  /\ pvMoves([pvSite EXCEPT !.user = [@ EXCEPT !.status = status, !.mail = mail, !.stamp = @ + 1],
                            !.edges = IF status = "absent" THEN {e \in @ : e[1] # 0} ELSE @])
PvDeleteGroup(g) ==
  /\ g \notin pvSite.gone
  /\ pvMoves([pvSite EXCEPT !.gone = @ \cup {g}, !.edges = {e \in @ : g \notin {e[1], e[2]}}])

-----------------------------------------------------------------------------
\* refusal: the answers that mean that nobody is there.
oktaRefusal(code) == code = "notFound"
entraRefusal(code) == code \in {"notFound", "malformed"}
googleRefusal(code) == code \in {"notFound", "malformed"}
nobody(code) ==
  CASE pvKind = "okta" -> oktaRefusal(code) [] pvKind = "entra" -> entraRefusal(code) [] pvKind = "google" -> googleRefusal(code)

\* deactivated, Enabled, Suspended and Archived: the accounts that are switched
\* off.  An account in trouble, or one that does not say, is not.
deactivated(status) == status = "off"

\* identities: the person in the systems being indexed.  A login counts when it
\* is an address, and the principal name of a guest is nobody's.
address(login) == login # "login"
oktaIdentities(u) == {"id", u.mail} \cup {x \in {u.login} : address(x)}
guest(upn) == upn = "guest"
entraIdentities(u) == {"id", u.mail} \cup {x \in {u.login} : address(x) /\ ~ guest(x)}
googleIdentities(u) == {"id", u.mail}
\* version: the revision of the service, or a fingerprint of what is reported.
oktaVersion(u) == <<u.stamp>>
entraVersion(u) == <<u.mail, u.login, deactivated(u.status)>>
\* Mutant of googleVersion: the revision of the service alone.
googleVersionEtag(u) == <<IF pvSite.etags THEN u.stamp ELSE 0>>
googleVersion(u) == <<IF pvSite.etags THEN u.stamp ELSE 0, u.mail, u.status>>
\* version of a group: Google's is a fingerprint of where it sits as well.
groupVersion(g, parents) == <<g, parents>>
subjectOf(u) ==
  CASE pvKind = "okta" -> [version |-> oktaVersion(u), says |-> oktaIdentities(u)]
    [] pvKind = "entra" -> [version |-> entraVersion(u), says |-> entraIdentities(u)]
    [] pvKind = "google" -> [version |-> googleVersion(u), says |-> googleIdentities(u)]

pvEnds(is, groups) == pvAnswer' = [is |-> is, groups |-> groups] /\ pvWalk' = pvIdle
pvLists(key) == [pvWalk EXCEPT !.at = "list", !.key = key, !.link = 0, !.pages = 0, !.out = {}]
pvBack == [pvWalk EXCEPT !.at = "groups", !.key = 0, !.link = 0, !.pages = 0, !.out = {}]

\* Reachable: one lookup of somebody who is not there, before the server starts.
PvProbe(code) ==
  /\ pvServer.at = "probing"
  /\ code \in (IF pvServer.credential # "accepted" THEN {"unauthorized"} ELSE IF pvKind = "okta" THEN {"notFound"} ELSE {"notFound", "malformed"})
              \cup (IF pvSpent.faults < PvMaxFaults THEN faulty ELSE {})
  /\ pvServer' = IF nobody(code) THEN [pvServer EXCEPT !.at = "up", !.fields = {}, !.used = {}] ELSE pvRefused
  /\ spends(code)
  /\ UNCHANGED <<pvKind, pvSite, pvWalk, pvHeld, pvAnswer, pvLast, pvSeen>>

PvExpand ==
  /\ pvServer.at = "up" /\ pvWalk.at = "none" /\ pvSpent.walks < PvMaxWalks
  /\ pvWalk' = [pvIdle EXCEPT !.at = "user"]
  /\ pvAnswer' = [is |-> "none", groups |-> {}]
  /\ pvSeen' = [always |-> pvSite.edges, ever |-> pvSite.edges, states |-> {pvSite.user.status}]
  /\ pvSpent' = [pvSpent EXCEPT !.walks = @ + 1]
  /\ UNCHANGED <<pvKind, pvServer, pvSite, pvHeld, pvLast>>

\* Subject, the account: nobody, switched off, or somebody whose groups are
\* asked for next.
PvSubject(code) ==
  /\ pvWalk.at = "user" /\ code \in answers(0)
  /\ IF code # "ok" THEN pvEnds(IF nobody(code) THEN "nobody" ELSE "error", {}) /\ UNCHANGED pvLast
     ELSE /\ pvLast' = [pvLast EXCEPT ![0] = subjectOf(pvSite.user)]
          /\ IF deactivated(pvSite.user.status) THEN pvEnds("off", {}) ELSE pvWalk' = pvLists(0) /\ UNCHANGED pvAnswer
  /\ spends(code)
  /\ UNCHANGED <<pvKind, pvServer, pvSite, pvHeld, pvSeen>>

\* What follows a whole listing: the groups are buffered, and Expand goes on to
\* those it has not met.
wholeListing(out) ==
  /\ pvHeld' = pvHeld \cup out
  /\ pvWalk' = [pvBack EXCEPT !.seen = @ \cup out, !.todo = (@ \cup (out \ pvWalk.seen)) \ {pvWalk.key}]
  /\ pvLast' = IF pvWalk.key = 0 THEN pvLast
               ELSE [pvLast EXCEPT ![pvWalk.key] = [version |-> groupVersion(pvWalk.key, out), says |-> out]]

\* Subject, when the person's listing is refused: that nobody is there any more is
\* an answer at Google and an error at the others.
oktaUnlisted(code) == "error"
entraUnlisted(code) == "error"
googleUnlisted(code) == IF googleRefusal(code) THEN "nobody" ELSE "error"
unlisted(code) ==
  CASE pvKind = "okta" -> oktaUnlisted(code) [] pvKind = "entra" -> entraUnlisted(code) [] pvKind = "google" -> googleUnlisted(code)

\* memberships, one page.
runaway(out) == pvEnds("error", {}) /\ UNCHANGED <<pvHeld, pvLast>>
PvMemberships(code) ==
  /\ pvWalk.at = "list" /\ code \in answers(pvWalk.key)
  /\ IF code # "ok"
     THEN /\ IF pvWalk.key # 0 /\ unlisted(code) = "nobody"
             THEN pvWalk' = [pvBack EXCEPT !.todo = @ \ {pvWalk.key}] /\ UNCHANGED pvAnswer
             ELSE pvEnds(unlisted(code), {})
          /\ UNCHANGED <<pvHeld, pvLast>>
     ELSE LET out == pvWalk.out \cup pageOf
          IN IF nextLink = -1 THEN wholeListing(out) /\ UNCHANGED pvAnswer
             ELSE IF pvWalk.pages + 1 = PvMaxPages THEN runaway(out)
             ELSE /\ pvWalk' = [pvWalk EXCEPT !.out = out, !.pages = @ + 1, !.link = nextLink]
                  /\ UNCHANGED <<pvHeld, pvAnswer, pvLast>>
  /\ spends(code)
  /\ UNCHANGED <<pvKind, pvServer, pvSite, pvSeen>>

\* Group, once the object is there.  Okta and Entra answer that it is in nothing;
\* Google asks what it is in.
flat(g) == pvWalk' = [pvWalk EXCEPT !.todo = @ \ {g}]
oktaGroup(g) == flat(g)
entraGroup(g) == flat(g)
\* Mutant of googleGroup: a group that was listed is answered from the buffer.
googleGroupHeld(g) == IF g \in pvHeld THEN flat(g) ELSE pvWalk' = pvLists(g)
googleGroup(g) == pvWalk' = pvLists(g)
groupFound(g) ==
  CASE pvKind = "okta" -> oktaGroup(g) [] pvKind = "entra" -> entraGroup(g) [] pvKind = "google" -> googleGroup(g)
PvBuffered(g) ==
  /\ pvWalk.at = "groups" /\ g \in pvWalk.todo \cap pvHeld
  /\ groupFound(g)
  /\ UNCHANGED <<pvKind, pvServer, pvSite, pvHeld, pvAnswer, pvLast, pvSeen, pvSpent>>
PvGroup(g, code) ==
  /\ pvWalk.at = "groups" /\ g \in pvWalk.todo \ pvHeld /\ code \in answers(g)
  /\ \/ code = "ok" /\ pvHeld' = pvHeld \cup {g} /\ groupFound(g) /\ UNCHANGED pvAnswer
     \/ code # "ok" /\ nobody(code) /\ flat(g) /\ UNCHANGED <<pvHeld, pvAnswer>>
     \/ code # "ok" /\ ~ nobody(code) /\ pvEnds("error", {}) /\ UNCHANGED pvHeld
  /\ spends(code)
  /\ UNCHANGED <<pvKind, pvServer, pvSite, pvLast, pvSeen>>
PvExpanded ==
  /\ pvWalk.at = "groups" /\ pvWalk.todo = {}
  /\ pvEnds("found", pvWalk.seen)
  /\ UNCHANGED <<pvKind, pvServer, pvSite, pvHeld, pvLast, pvSeen, pvSpent>>
\* DefaultBufferTTL passes.
PvExpire ==
  /\ pvHeld # {} /\ pvHeld' = {}
  /\ UNCHANGED <<pvKind, pvServer, pvSite, pvWalk, pvAnswer, pvLast, pvSeen, pvSpent>>

PvNext ==
  \/ pvServer.at = "closed" /\ \E f \in SUBSET Fields, h \in {"accepted", "revoked", "garbage", "blank"} : PvOpen(f, h)
  \/ \E c \in {"ok", "notFound", "malformed", "unauthorized"} \cup faulty :
       PvProbe(c) \/ PvSubject(c) \/ PvMemberships(c) \/ \E g \in PvGroups : PvGroup(g, c)
  \/ \E g \in PvGroups : PvBuffered(g) \/ PvDeleteGroup(g)
  \/ PvExpand \/ PvExpanded \/ PvExpire
  \/ \E e \in PvKeys \X PvGroups : PvJoin(e)
  \/ \E s \in {"on", "off", "absent"}, m \in {"m1", "m2"} : PvAccount(s, m)

-----------------------------------------------------------------------------
\* A description that is accepted sets no field its provider does not read
\* (Open, unused).
NoFieldIgnored == pvServer.at = "probing" => pvServer.fields = pvServer.used

\* The server starts only with a credential the provider accepts (Reachable).
StartsAccepted == pvServer.at = "up" => pvServer.credential = "accepted"

\* Somebody is answered as missing, switched off or present only when they were
\* at some time while it was being found out, whatever else went wrong (Subject,
\* refusal).
SubjectAnswersTrue ==
  /\ pvAnswer.is = "nobody" => "absent" \in pvSeen.states
  /\ pvAnswer.is = "off" => "off" \in pvSeen.states
  /\ pvAnswer.is = "found" => "on" \in pvSeen.states

\* A listing that is answered leaves out no group its key was in all along: what
\* a page could not be read for, or what a runaway listing did not reach, is never
\* answered as if it were not there (memberships).
ListingWhole ==
  pvWalk.at = "groups" =>
    (IF pvKind = "entra" THEN above(pvSeen.always, 0) ELSE directly(pvSeen.always, 0)) \subseteq pvWalk.seen

\* An expansion holds every group the person was in all along, through whatever
\* groups, and none they reach by no membership there was while it ran: the buffer
\* changes what it costs and not what it returns (Subject, Group).
ExpansionWhole ==
  pvAnswer.is = "found" => /\ above(pvSeen.always, 0) \subseteq pvAnswer.groups
                           /\ pvAnswer.groups \subseteq above(pvSeen.ever, 0)

\* Two answers about a key that differ in who the person is elsewhere, or in what
\* the group is in, carry different versions (version).
VersionMoves == [][\A k \in PvKeys : PvNothing \notin {pvLast[k], pvLast'[k]} /\ pvLast'[k].says # pvLast[k].says
                     => pvLast'[k].version # pvLast[k].version]_pvVars
=============================================================================
