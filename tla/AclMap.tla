------------------------------- MODULE AclMap -------------------------------
(***************************************************************************)
(* What a source said about who may read a document, turned into a         *)
(* descriptor (connector/aclmap).  A statement is a record [subject, id,   *)
(* effect, role, link, owner]; names are abstract, a role either confers   *)
(* read in the source's vocabulary or does not.                            *)
(***************************************************************************)
EXTENDS Acl

CONSTANTS
  AmGrants,      \* the statements a source may make
  AmMaxGrants,   \* how many of them one document carries at most
  AmReadRoles,   \* the roles that confer read; empty when the shares carry none
  AmDomains,     \* the email domains that are this tenant
  AmLink,        \* whether a link share grants the tenant
  AmReaders      \* the principals the answers are compared for

\* A statement is of one of the kinds the source knows; a None is no descriptor
\* and no principal.
ASSUME AmAssumption ==
  /\ AmMaxGrants \in Nat /\ None \notin AmReaders
  /\ \A g \in AmGrants : /\ g.subject \in {"user", "group", "domain", "anyone"}
                         /\ g.effect \in {"allow", "deny"} /\ g.link \in BOOLEAN /\ g.owner \in BOOLEAN

VARIABLES
  amPerm,     \* the descriptor being built
  amGiven,    \* the statements folded into it, in order
  amOwners,   \* how many of them named an owner
  amDone,     \* "no", "mapped" or "quarantined"
  amIgnored   \* how many conferred nothing

Refs == {Nobody} \union [source: {"corp"}, value: {g.id : g \in AmGrants}]
AmPerms == [mode: Modes, owner: Refs, allowUsers: SUBSET Refs, allowGroups: SUBSET Refs,
            denyUsers: SUBSET Refs, denyGroups: SUBSET Refs]
ASSUME AmNone == None \notin AmPerms

amVars == <<amPerm, amGiven, amOwners, amDone, amIgnored>>

amNothing == [mode |-> "acl", owner |-> Nobody, allowUsers |-> {}, allowGroups |-> {}, denyUsers |-> {}, denyGroups |-> {}]
ref(g) == [source |-> "corp", value |-> g.id]

\* confers: no role at all is a statement about reading.
confers(role) == role = "" \/ AmReadRoles = {} \/ role \in AmReadRoles

\* deny: a refusal with no deny list to go in cannot be mapped.
deny(p, g) ==
  CASE g.subject = "user" -> [p EXCEPT !.denyUsers = @ \union {ref(g)}]
    [] g.subject = "group" -> [p EXCEPT !.denyGroups = @ \union {ref(g)}]
    [] OTHER -> None

widen(p) == [p EXCEPT !.mode = "public"]

\* anyone: a link share is recorded and grants what the deployment says it does.
anyone(p, g) == IF g.link /\ ~AmLink THEN p ELSE widen(p)

\* allow: the first owner is the owner, the others are ordinary readers.
allow(p, g) ==
  CASE g.subject = "user" -> IF g.owner /\ p.owner = Nobody THEN [p EXCEPT !.owner = ref(g)]
                             ELSE [p EXCEPT !.allowUsers = @ \union {ref(g)}]
    [] g.subject = "group" -> [p EXCEPT !.allowGroups = @ \union {ref(g)}]
    [] g.subject = "domain" -> IF g.id \in AmDomains THEN widen(p) ELSE None
    [] OTHER -> anyone(p, g)

\* apply: a statement that names nobody cannot be mapped, whatever its role.
malformed(g) == g.subject # "anyone" /\ g.id = ""
apply(p, g) ==
  CASE malformed(g) -> None
    [] ~malformed(g) /\ ~confers(g.role) -> p
    [] ~malformed(g) /\ confers(g.role) /\ g.effect = "deny" -> deny(p, g)
    [] OTHER -> allow(p, g)

AmInit == amPerm = amNothing /\ amGiven = <<>> /\ amOwners = 0 /\ amDone = "no" /\ amIgnored = 0

\* Normalize, one statement.  A statement that cannot be mapped quarantines
\* the document at once.
AmApply(g) ==
  /\ amDone = "no" /\ Len(amGiven) < AmMaxGrants
  /\ amGiven' = Append(amGiven, g)
  /\ amIgnored' = amIgnored + (IF ~malformed(g) /\ ~confers(g.role) THEN 1 ELSE 0)
  /\ LET p == apply(amPerm, g)
     IN IF p = None THEN /\ amPerm' = [amNothing EXCEPT !.mode = "unknown"]
                         /\ amDone' = "quarantined"
                         /\ amOwners' = amOwners
        ELSE /\ amPerm' = p
             /\ amDone' = "no"
             /\ amOwners' = amOwners + (IF g.subject = "user" /\ g.owner /\ g.effect = "allow" /\ confers(g.role) THEN 1 ELSE 0)

\* Normalize, the end: a document whose only statement is its owner is the
\* owner's only.
AmNormalize ==
  /\ amDone = "no"
  /\ amDone' = "mapped"
  /\ amPerm' = IF amOwners = 1 /\ amPerm.allowUsers = {} /\ amPerm.allowGroups = {} /\ amPerm.mode = "acl"
               THEN [amPerm EXCEPT !.mode = "owner"] ELSE amPerm
  /\ UNCHANGED <<amGiven, amOwners, amIgnored>>

AmNext == (\E g \in AmGrants : AmApply(g)) \/ AmNormalize

AmSpec == AmInit /\ [][AmNext]_amVars

-----------------------------------------------------------------------------
\* What the statements mean, in any order: a refusal beats a grant, and a grant
\* counts when its role confers read.
amSaid == {amGiven[i] : i \in DOMAIN amGiven}
amReading == {g \in amSaid : g.role = "" \/ AmReadRoles = {} \/ g.role \in AmReadRoles}
amAbout(g, p) ==
  CASE g.subject = "user" -> matchesUser(p, {ref(g)})
    [] g.subject = "group" -> matchesGroup(p, {ref(g)})
    [] g.subject = "domain" -> g.id \in AmDomains
    [] OTHER -> ~g.link \/ AmLink
amMayRead(p) ==
  /\ \E g \in amReading : g.effect = "allow" /\ amAbout(g, p)
  /\ ~\E g \in amReading : g.effect = "deny" /\ amAbout(g, p)

\* A document that was mapped is readable by exactly the people the source's
\* statements let read it, whatever order they came in and however they overlap
\* (Normalize, widen).
MapsFaithfully ==
  amDone = "mapped" => \A p \in AmReaders : Allows(amPerm, p) <=> amMayRead(p)

\* A statement about reading that the model has no place for is never passed
\* over: the document is held back, and nobody reads it (apply, unresolved).
QuarantinesUnmappable ==
  /\ amDone = "mapped" =>
       \A g \in amSaid : /\ ~malformed(g)
                         /\ g \in amReading /\ g.subject = "domain" => g.effect = "allow" /\ g.id \in AmDomains
                         /\ g \in amReading /\ g.subject = "anyone" => g.effect = "allow"
  /\ amDone = "quarantined" => \A p \in AmReaders : ~Allows(amPerm, p)

=============================================================================
