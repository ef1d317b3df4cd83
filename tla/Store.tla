------------------------------- MODULE Store -------------------------------
(***************************************************************************)
(* The storage contract (store): what the drivers are given, and the small *)
(* rules of it that are read off a document or a principal                 *)
(* (store/verify.go, store/report.go, store/retrieve.go, doc/doc.go).      *)
(***************************************************************************)
EXTENDS Acl

CONSTANTS
  Ids,            \* document ids
  Principals,     \* who may read
  Callers,        \* those of them who say something about a document
  Batches,        \* what one Put carries: sequences of [id, doc]
  Descriptors,    \* permission descriptors SetPermissions may be given
  People,         \* owners a correction may name
  Times,          \* instants a call may carry
  Curations,      \* answers: records [id, keys], keys the phrasings in order
  OpenHistory,    \* how many opens are kept for one person
  MaxPending      \* bound: calls between releasing the lock and reporting

(* What the callers of Put hand in, and a document as a table holds it: its *)
(* bytes kept apart, its owner perhaps corrected, its descriptor perhaps    *)
(* replaced.                                                                *)
Handed == UNION {{b[i].doc : i \in DOMAIN b} : b \in Batches}
given(field) == {d[field] : d \in Handed}
Owners == given("owner") \cup People
Documents ==
  [tenant: given("tenant"), source: given("source"), kind: given("kind"),
   perms: given("perms") \cup Descriptors, author: given("author"), owner: Owners,
   modified: given("modified"), terms: given("terms"), version: given("version"),
   content: given("content") \cup {None}]

---------------------------------------------------------------------------
(* Documents: [tenant, source, kind, perms, author, owner, modified,       *)
(* terms, version, content]; a person is the record [subject, email].      *)

Queryable(d) == d.tenant # "" /\ d.perms.mode # "unknown"

(* The keys a document's person can be found under, and the keys a         *)
(* principal is known by, its subject first (store.PersonKeys,             *)
(* store.PrincipalKeys, store.ReportKey).                                  *)
PersonKeys(who) == {Lower[k] : k \in {who.subject, who.email} \ {""}}

PrincipalKeys(p) ==
  LET all == <<p.subject>> \o [i \in DOMAIN p.identities |-> p.identities[i].value]
      named == SelectSeq(all, LAMBDA s : s # "")
  IN  [i \in DOMAIN named |-> Lower[named[i]]]

ReportKey(p) == LET keys == PrincipalKeys(p)
                IN  IF keys = <<>> THEN "" ELSE keys[1]

(* store.Request.Filters and MatchesTerms.  An empty set or a date of 0    *)
(* means the caller did not constrain that field.                          *)
matchesPerson(values, who) == {Lower[v] : v \in values \ {""}} \cap PersonKeys(who) # {}

Filters(r, d) ==
  /\ r.kinds # {} => d.kind \in r.kinds
  /\ r.owners # {} => matchesPerson(r.owners, d.owner)
  /\ r.since # 0 => d.modified >= r.since
  /\ r.until # 0 => d.modified <= r.until

MatchesTerms(r, d) == r.terms # {} => r.terms \cap d.terms # {}

Matches(r, d) == Filters(r, d) /\ MatchesTerms(r, d)

(* store.Request.Without: the request with one facet lifted.               *)
Without(r, field) == IF field = "kind" THEN [r EXCEPT !.kinds = {}] ELSE r

---------------------------------------------------------------------------
Tenants == {p.tenant : p \in Principals}
ReportKeys == {ReportKey(p) : p \in Principals}
AnswerIds == {c.id : c \in Curations}
Phrasings == UNION {{c.keys[i] : i \in DOMAIN c.keys} : c \in Curations}
Terms == UNION {UNION {b[i].doc.terms : i \in DOMAIN b} : b \in Batches}

(* The documents a batch names, and the last entry for one of them, which  *)
(* is the one that stays.                                                  *)
Written(batch) == {batch[i].id : i \in DOMAIN batch}

LastOf(batch, id) ==
  LET at == {i \in DOMAIN batch : batch[i].id = id}
  IN  batch[CHOOSE i \in at : \A j \in at : j <= i].doc

(* A Put of nothing returns before it begins; a None is no document, no     *)
(* correction and no answer; a group has a name.                            *)
ASSUME StoreAssumption ==
  /\ IsFiniteSet(Ids) /\ MaxPending \in Nat \ {0} /\ Callers \subseteq Principals
  /\ \A b \in Batches : b \in Seq([id: Ids, doc: Documents]) /\ b # <<>>
  /\ \A c \in Curations : c.keys \in Seq(Phrasings)
  /\ None \notin Documents \cup [owner: Owners, was: Owners] \cup AnswerIds \cup Principals
  /\ \A p \in Principals : <<"">> \notin p.groups
============================================================================
