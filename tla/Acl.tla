-------------------------------- MODULE Acl --------------------------------
(***************************************************************************)
(* The permission rule (acl).                                              *)
(*                                                                         *)
(* A principal is a record [tenant, subject, identities, groups, version,  *)
(* roles], with identities a sequence of references; a reference is        *)
(* [source, value]; a permission descriptor is [mode, owner, allowUsers,   *)
(* allowGroups, denyUsers, denyGroups] with sets of references.  Strings   *)
(* are abstract: a key is the pair the code joins with a colon, and Lower  *)
(* is the folding of case.                                                 *)
(***************************************************************************)
EXTENDS Integers, Sequences, FiniteSets

CONSTANTS
  Lower,      \* the function that folds the case of a name
  None        \* nothing: the nil principal, no document, no row

Nobody == [source |-> "", value |-> ""]    \* the zero reference

Modes == {"unknown", "acl", "public", "owner"}

---------------------------------------------------------------------------
(* The keys both sides of the rule are compared in (acl/ref.go).           *)

UserKey(r) == IF r.source = "" THEN <<r.value>> ELSE <<Lower[r.source], r.value>>

GroupKey(r) == IF r.source = "" THEN <<r.value>> ELSE <<r.source, r.value>>

UserKeys(p) ==
  {<<s>> : s \in {p.subject} \ {""}}
    \cup ({UserKey(p.identities[i]) : i \in DOMAIN p.identities} \ {<<"">>})

GroupKeys(p) == p.groups

matchesUser(p, refs) == \E r \in refs : UserKey(r) \in UserKeys(p)

matchesGroup(p, refs) == \E r \in refs : GroupKey(r) \in GroupKeys(p)

isOwner(perm, p) == perm.owner.value # "" /\ matchesUser(p, {perm.owner})

(* Permissions.Decide: the clauses in their fixed order.                   *)
Decide(perm, p) ==
  IF p = None THEN "no-principal"
  ELSE IF perm.mode = "unknown" THEN "unresolved"
  ELSE IF matchesUser(p, perm.denyUsers) \/ matchesGroup(p, perm.denyGroups) THEN "denied"
  ELSE IF isOwner(perm, p) THEN "owner"
  ELSE IF perm.mode = "owner" THEN "owner-only"
  ELSE IF perm.mode = "public" THEN "tenant"
  ELSE IF /\ perm.mode = "acl"
          /\ matchesUser(p, perm.allowUsers) \/ matchesGroup(p, perm.allowGroups) THEN "listed"
  ELSE "not-listed"

Allows(perm, p) == Decide(perm, p) \in {"owner", "tenant", "listed"}

============================================================================
