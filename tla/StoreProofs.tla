---------------------------- MODULE StoreProofs ----------------------------
(***************************************************************************)
(* The reference store keeps what people say and tells whoever listens,    *)
(* for any documents, people and answers (Stores); and the process that    *)
(* holds it comes down in the order of its defers, the store after what    *)
(* writes to it, for every set of listeners and of feeds (Genbad).         *)
(***************************************************************************)
EXTENDS Stores, Genbad, FiniteSetTheorems, WellFoundedInduction, TLAPS

Corrections == [owner: Owners, was: Owners]

-----------------------------------------------------------------------------
(* Documents.                                                              *)

LEMMA NoneIsNothing ==
  /\ None \notin Documents /\ None \notin Corrections /\ None \notin AnswerIds /\ None \notin Principals
BY StoreAssumption DEF StoreAssumption, Corrections

LEMMA DocumentFields ==
  ASSUME NEW d \in Documents
  PROVE  /\ d = [tenant |-> d.tenant, source |-> d.source, kind |-> d.kind, perms |-> d.perms,
                 author |-> d.author, owner |-> d.owner, modified |-> d.modified, terms |-> d.terms,
                 version |-> d.version, content |-> d.content]
         /\ d.owner \in Owners
BY DEF Documents

\* A document with another owner, another descriptor or no bytes is a document.
LEMMA OwnerEdit ==
  ASSUME NEW d \in Documents, NEW w \in Owners
  PROVE  /\ [d EXCEPT !.owner = w] \in Documents
         /\ [d EXCEPT !.owner = w] =
              [tenant |-> d.tenant, source |-> d.source, kind |-> d.kind, perms |-> d.perms,
               author |-> d.author, owner |-> w, modified |-> d.modified, terms |-> d.terms,
               version |-> d.version, content |-> d.content]
BY DEF Documents

LEMMA PermsEdit ==
  ASSUME NEW d \in Documents, NEW q \in Descriptors
  PROVE  /\ [d EXCEPT !.perms = q] \in Documents
         /\ [d EXCEPT !.perms = q] =
              [tenant |-> d.tenant, source |-> d.source, kind |-> d.kind, perms |-> q,
               author |-> d.author, owner |-> d.owner, modified |-> d.modified, terms |-> d.terms,
               version |-> d.version, content |-> d.content]
BY DEF Documents

LEMMA ContentEdit ==
  ASSUME NEW d \in Documents
  PROVE  /\ [d EXCEPT !.content = None] \in Documents
         /\ [d EXCEPT !.content = None] =
              [tenant |-> d.tenant, source |-> d.source, kind |-> d.kind, perms |-> d.perms,
               author |-> d.author, owner |-> d.owner, modified |-> d.modified, terms |-> d.terms,
               version |-> d.version, content |-> None]
BY DEF Documents

\* Two documents are the same to a search when they differ in their owner at most.
LEMMA SameFields ==
  ASSUME NEW a \in Documents, NEW b \in Documents
  PROVE  SameToASearch(a, b) <=>
           /\ a.tenant = b.tenant /\ a.source = b.source /\ a.kind = b.kind /\ a.perms = b.perms
           /\ a.author = b.author /\ a.modified = b.modified /\ a.terms = b.terms
           /\ a.version = b.version /\ a.content = b.content
<1>1. a # None /\ b # None
  BY NoneIsNothing
<1>2. b.owner \in Owners
  BY DocumentFields
<1>3. [a EXCEPT !.owner = b.owner] =
        [tenant |-> a.tenant, source |-> a.source, kind |-> a.kind, perms |-> a.perms,
         author |-> a.author, owner |-> b.owner, modified |-> a.modified, terms |-> a.terms,
         version |-> a.version, content |-> a.content]
  BY <1>2, OwnerEdit
<1>4. b = [tenant |-> b.tenant, source |-> b.source, kind |-> b.kind, perms |-> b.perms,
           author |-> b.author, owner |-> b.owner, modified |-> b.modified, terms |-> b.terms,
           version |-> b.version, content |-> b.content]
  BY DocumentFields
<1>. QED BY <1>1, <1>3, <1>4 DEF SameToASearch

\* A set of positions has a least and a greatest one.
LEMMA LeastPosition ==
  ASSUME NEW S \in SUBSET Nat, S # {}
  PROVE  \E n \in S : \A m \in S : n <= m
<1>1. PICK x : x \in S
  OBVIOUS
<1>2. PICK n \in S : \A m \in S : ~ (<<m, n>> \in OpToRel(<, Nat))
  BY <1>1, WFMin, NatLessThanWellFounded, Zenon
<1>3. \A m \in S : ~ (m < n)
  BY <1>2, Zenon DEF OpToRel
<1>4. n \in Nat /\ \A m \in S : m \in Nat
  OBVIOUS
<1>. QED BY <1>3, <1>4

LEMMA LastPosition ==
  ASSUME NEW n \in Nat, NEW S \in SUBSET (1 .. n), S # {}
  PROVE  \E k \in S : \A m \in S : m <= k
<1>. DEFINE rest == {n - m : m \in S}
<1>1. rest \in SUBSET Nat /\ rest # {}
  <2>1. \A m \in S : n - m \in Nat
    OBVIOUS
  <2>2. PICK x : x \in S
    OBVIOUS
  <2>3. n - x \in rest
    BY <2>2
  <2>. QED BY <2>1, <2>3
<1>2. PICK r \in rest : \A q \in rest : r <= q
  BY <1>1, LeastPosition
<1>3. PICK k \in S : r = n - k
  BY <1>2
<1>4. \A m \in S : m <= k
  <2>. SUFFICES ASSUME NEW m \in S PROVE m <= k
    OBVIOUS
  <2>1. n - k <= n - m
    BY <1>2, <1>3
  <2>. QED BY <2>1
<1>. QED BY <1>4

\* The positions of the first k entries of a batch that name a document, and the
\* last of them.
naming(b, k, id) == {i \in 1 .. k : b[i].id = id}
lastNaming(b, k, id) == CHOOSE i \in naming(b, k, id) : \A j \in naming(b, k, id) : j <= i

LEMMA LastNamed ==
  ASSUME NEW b, NEW k \in Nat, NEW id, naming(b, k, id) # {}
  PROVE  /\ lastNaming(b, k, id) \in naming(b, k, id)
         /\ \A j \in naming(b, k, id) : j <= lastNaming(b, k, id)
<1>. DEFINE S == naming(b, k, id)
<1>1. S \in SUBSET (1 .. k) /\ S # {}
  BY DEF naming
<1>2. \E i \in S : \A j \in S : j <= i
  BY <1>1, LastPosition
<1>. QED BY <1>2, Zenon DEF lastNaming

LEMMA BatchFields ==
  ASSUME NEW b \in Batches
  PROVE  /\ DOMAIN b = 1 .. Len(b) /\ Len(b) \in Nat \ {0} /\ b \in Seq([id: Ids, doc: Documents])
         /\ \A i \in DOMAIN b : b[i].id \in Ids /\ b[i].doc \in Documents /\ b[i].doc # None
<1>. DEFINE Entries == [id: Ids, doc: Documents]
<1>1. b \in Seq(Entries) /\ b # <<>>
  BY StoreAssumption DEF StoreAssumption
<1>2. \A e \in Entries : e.id \in Ids /\ e.doc \in Documents
  OBVIOUS
<1>. HIDE DEF Entries
<1>3. DOMAIN b = 1 .. Len(b) /\ Len(b) \in Nat \ {0} /\ \A i \in DOMAIN b : b[i] \in Entries
  BY <1>1
<1>4. \A i \in DOMAIN b : b[i].id \in Ids /\ b[i].doc \in Documents /\ b[i].doc # None
  BY <1>2, <1>3, NoneIsNothing
<1>. QED BY <1>1, <1>3, <1>4 DEF Entries

\* The entry of a batch that stays.
LEMMA LastIsHanded ==
  ASSUME NEW b \in Batches, NEW id \in Written(b)
  PROVE  /\ LastOf(b, id) = b[lastNaming(b, Len(b), id)].doc
         /\ LastOf(b, id) \in Documents /\ LastOf(b, id) # None /\ id \in Ids
<1>1. DOMAIN b = 1 .. Len(b) /\ Len(b) \in Nat
  BY BatchFields
<1>2. naming(b, Len(b), id) # {} /\ naming(b, Len(b), id) = {i \in DOMAIN b : b[i].id = id}
  BY <1>1 DEF Written, naming
<1>3. LastOf(b, id) = b[lastNaming(b, Len(b), id)].doc
  BY <1>2 DEF LastOf, lastNaming
<1>4. lastNaming(b, Len(b), id) \in DOMAIN b /\ b[lastNaming(b, Len(b), id)].id = id
  BY <1>1, <1>2, LastNamed
<1>. QED BY <1>3, <1>4, BatchFields

-----------------------------------------------------------------------------
(* The reference store.                                                    *)

MemTyped ==
  /\ memDocs \in [Ids -> Documents \cup {None}]
  /\ memSeen \in [Ids -> Documents \cup {None}]
  /\ DOMAIN memContent = Ids
  /\ DOMAIN memVerified = Ids
  /\ memOwners \in [Ids -> Corrections \cup {None}]
  /\ DOMAIN memSaid = Ids
  /\ memReports \in [Ids -> [ReportKeys -> Times \cup {0}]]
  /\ memAnswers \in [Tenants \X AnswerIds -> Seq(Phrasings)]
  /\ memPhrasings \in [Tenants \X Phrasings -> AnswerIds \cup {None}]
  /\ memPending \subseteq SUBSET Ids

\* A change a search depends on is known to the subscriber or on its way there.
ToldOrPending ==
  ~memClosed => \A id \in Ids : \/ SameToASearch(memSeen[id], memDocs[id])
                                \/ \E ids \in memPending : id \in ids

MemInv == MemTyped /\ SaidStands /\ ToldOrPending

LEMMA MemStarts == MemInit => MemInv
<1>. SUFFICES ASSUME MemInit PROVE MemInv
  OBVIOUS
<1>1. MemTyped
  <2>1. \A x \in Tenants \X AnswerIds : <<>> \in Seq(Phrasings)
    OBVIOUS
  <2>. QED BY <2>1 DEF MemInit, MemTyped
<1>2. SaidStands
  BY DEF MemInit, SaidStands, CorrectionStands, NothingAboutTheGone, PhrasingsAnswer
<1>3. ToldOrPending
  BY DEF MemInit, ToldOrPending, SameToASearch
<1>. QED BY <1>1, <1>2, <1>3 DEF MemInv

\* What the three calls that write documents keep when they report what they touched.
LEMMA PutKeeps ==
  ASSUME MemInv, NEW b \in Batches, MemPut(b)
  PROVE  MemInv'
<1>1. ASSUME NEW id \in Ids, id \in Written(b)
      PROVE  LET d == LastOf(b, id) IN
             /\ d \in Documents /\ d.owner \in Owners
             /\ memOwners[id] = None => memDocs'[id] = [d EXCEPT !.content = None]
             /\ memOwners[id] # None => memDocs'[id] = [d EXCEPT !.content = None,
                                                                 !.owner = memOwners[id].owner]
             /\ memOwners'[id] = IF memOwners[id] = None THEN None
                                 ELSE [memOwners[id] EXCEPT !.was = d.owner]
             /\ memSaid'[id] = d.owner
  <2>1. LastOf(b, id) \in Documents /\ LastOf(b, id).owner \in Owners
    BY <1>1, LastIsHanded, DocumentFields
  <2>. DEFINE d == LastOf(b, id)
  <2>. HIDE DEF d
  <2>2. d \in Documents /\ d.owner \in Owners
    BY <2>1 DEF d
  <2>3. /\ memDocs'[id] = memCorrect(id, d) /\ memSaid'[id] = d.owner
        /\ memOwners'[id] = IF memOwners[id] # None THEN [memOwners[id] EXCEPT !.was = d.owner] ELSE memOwners[id]
    BY <1>1 DEF MemPut, memPutAll, d
  <2>4. memOwners[id] = None => memDocs'[id] = [d EXCEPT !.content = None]
    <3>. SUFFICES ASSUME memOwners[id] = None PROVE memDocs'[id] = [d EXCEPT !.content = None]
      OBVIOUS
    <3>1. memDocs'[id] = [d EXCEPT !.content = None, !.owner = d.owner]
      BY <2>3 DEF memCorrect
    <3>. QED BY <3>1, <2>2 DEF Documents
  <2>5. memOwners[id] # None => memDocs'[id] = [d EXCEPT !.content = None, !.owner = memOwners[id].owner]
    BY <2>3 DEF memCorrect
  <2>. QED BY <2>2, <2>3, <2>4, <2>5 DEF d
<1>2. \A id \in Ids : id \notin Written(b) =>
        memDocs'[id] = memDocs[id] /\ memOwners'[id] = memOwners[id] /\ memSaid'[id] = memSaid[id]
        /\ memContent'[id] = memContent[id]
  BY DEF MemPut, memPutAll
<1>3. /\ ~memClosed /\ memClosed' = memClosed /\ memVerified' = memVerified /\ memReports' = memReports
      /\ memAnswers' = memAnswers /\ memPhrasings' = memPhrasings /\ memSeen' = memSeen
      /\ memPending' = memPending \cup {Written(b)} /\ Written(b) \subseteq Ids
  <2>1. Written(b) \subseteq Ids
    BY LastIsHanded
  <2>2. Written(b) # {}
    <3>1. 1 \in DOMAIN b
      BY BatchFields
    <3>. QED BY <3>1 DEF Written
  <2>. QED BY <2>1, <2>2 DEF MemPut, memPutAll, memTell, memDeskVars
<1>4. ASSUME NEW id \in Ids, id \in Written(b)
      PROVE  /\ memDocs'[id] \in Documents /\ memDocs'[id] # None
             /\ memOwners'[id] \in Corrections \cup {None}
             /\ memOwners'[id] = None => memDocs'[id].owner = memSaid'[id]
             /\ memOwners'[id] # None => /\ memDocs'[id].owner = memOwners'[id].owner
                                         /\ memOwners'[id].was = memSaid'[id]
  <2>. DEFINE d == LastOf(b, id)  e == [d EXCEPT !.content = None]
  <2>1. d \in Documents /\ d.owner \in Owners
    BY <1>1, <1>4
  <2>. HIDE DEF d
  <2>2. e \in Documents /\ e.owner = d.owner
    <3>1. e \in Documents
      BY <2>1, ContentEdit
    <3>2. e.owner = d.owner
      BY <2>1 DEF Documents
    <3>. QED BY <3>1, <3>2
  <2>3. CASE memOwners[id] = None
    <3>1. memDocs'[id] = e /\ memOwners'[id] = None /\ memSaid'[id] = d.owner
      BY <1>1, <1>4, <2>3 DEF d
    <3>. QED BY <3>1, <2>2, NoneIsNothing
  <2>4. CASE memOwners[id] # None
    <3>1. memOwners[id] \in Corrections /\ memOwners[id].owner \in Owners
      BY <2>4 DEF MemInv, MemTyped, Corrections
    <3>. DEFINE w == memOwners[id].owner
    <3>2. memDocs'[id] = [e EXCEPT !.owner = w]
      BY <1>1, <1>4, <2>4 DEF d
    <3>. HIDE DEF e, w
    <3>3. [e EXCEPT !.owner = w] \in Documents /\ [e EXCEPT !.owner = w].owner = w
      <4>1. w \in Owners
        BY <3>1 DEF w
      <4>2. [e EXCEPT !.owner = w] \in Documents
        BY <2>2, <4>1, OwnerEdit
      <4>3. [e EXCEPT !.owner = w].owner = w
        BY <2>2 DEF Documents
      <4>. QED BY <4>2, <4>3
    <3>4. memOwners'[id] = [memOwners[id] EXCEPT !.was = d.owner] /\ memSaid'[id] = d.owner
      BY <1>1, <1>4, <2>4 DEF d
    <3>5. memOwners'[id] \in Corrections /\ memOwners'[id].owner = w /\ memOwners'[id].was = d.owner
      BY <3>1, <3>4, <2>1 DEF Corrections, w
    <3>. QED BY <3>2, <3>3, <3>4, <3>5, NoneIsNothing
  <2>. QED BY <2>3, <2>4
<1>5. MemTyped'
  <2>1. DOMAIN memDocs' = Ids /\ DOMAIN memOwners' = Ids /\ DOMAIN memSaid' = Ids /\ DOMAIN memContent' = Ids
        /\ memDocs' = [id \in Ids |-> memDocs'[id]] /\ memOwners' = [id \in Ids |-> memOwners'[id]]
    BY DEF MemPut, memPutAll
  <2>2. \A id \in Ids : memDocs'[id] \in Documents \cup {None} /\ memOwners'[id] \in Corrections \cup {None}
    BY <1>2, <1>4 DEF MemInv, MemTyped
  <2>. QED BY <1>3, <2>1, <2>2 DEF MemInv, MemTyped
<1>6. SaidStands'
  <2>1. CorrectionStands'
    BY <1>2, <1>3, <1>4 DEF MemInv, SaidStands, CorrectionStands
  <2>2. NothingAboutTheGone'
    BY <1>2, <1>3, <1>4 DEF MemInv, SaidStands, NothingAboutTheGone
  <2>3. PhrasingsAnswer'
    BY <1>3 DEF MemInv, SaidStands, PhrasingsAnswer
  <2>. QED BY <2>1, <2>2, <2>3 DEF SaidStands
<1>7. ToldOrPending'
  BY <1>2, <1>3 DEF MemInv, ToldOrPending
<1>. QED BY <1>5, <1>6, <1>7 DEF MemInv
LEMMA DeleteKeeps ==
  ASSUME MemInv, NEW S \in SUBSET Ids, MemDelete(S)
  PROVE  MemInv'
<1>1. /\ ~memClosed /\ memClosed' = memClosed /\ memSeen' = memSeen
      /\ memAnswers' = memAnswers /\ memPhrasings' = memPhrasings
      /\ memPending \subseteq memPending' /\ memPending' \subseteq SUBSET Ids
  BY DEF MemDelete, memRemove, memTell, memDeskVars, MemInv, MemTyped
<1>2. \A id \in S : /\ memDocs'[id] = None /\ memContent'[id] = None /\ memVerified'[id] = None
                    /\ memOwners'[id] = None /\ memReports'[id] = [k \in ReportKeys |-> 0]
  BY DEF MemDelete, memRemove
<1>3. \A id \in Ids \ S : /\ memDocs'[id] = memDocs[id] /\ memContent'[id] = memContent[id]
                          /\ memVerified'[id] = memVerified[id] /\ memOwners'[id] = memOwners[id]
                          /\ memReports'[id] = memReports[id] /\ memSaid'[id] = memSaid[id]
  BY DEF MemDelete, memRemove
<1>4. MemTyped'
  <2>1. [k \in ReportKeys |-> 0] \in [ReportKeys -> Times \cup {0}]
    OBVIOUS
  <2>2. /\ memDocs' \in [Ids -> Documents \cup {None}] /\ memOwners' \in [Ids -> Corrections \cup {None}]
        /\ DOMAIN memSaid' = Ids /\ DOMAIN memContent' = Ids /\ DOMAIN memVerified' = Ids
    BY DEF MemDelete, memRemove, MemInv, MemTyped
  <2>3. memReports' \in [Ids -> [ReportKeys -> Times \cup {0}]]
    BY <2>1 DEF MemDelete, memRemove, MemInv, MemTyped
  <2>. QED BY <1>1, <2>2, <2>3 DEF MemInv, MemTyped
<1>5. SaidStands'
  <2>1. CorrectionStands'
    BY <1>1, <1>2, <1>3 DEF MemInv, SaidStands, CorrectionStands
  <2>2. NothingAboutTheGone'
    BY <1>1, <1>2, <1>3 DEF MemInv, SaidStands, NothingAboutTheGone
  <2>. QED BY <1>1, <2>1, <2>2 DEF MemInv, SaidStands, PhrasingsAnswer
<1>6. ToldOrPending'
  <2>. SUFFICES ASSUME NEW id \in Ids, ~ \E ids \in memPending' : id \in ids
                PROVE  SameToASearch(memSeen'[id], memDocs'[id])
    BY DEF ToldOrPending
  <2>1. memDocs'[id] = memDocs[id]
    <3>1. CASE id \in S /\ memDocs[id] # None
      BY <3>1 DEF MemDelete, memTell
    <3>. QED BY <1>2, <1>3, <3>1
  <2>2. ~ \E ids \in memPending : id \in ids
    BY <1>1
  <2>. QED BY <1>1, <2>1, <2>2 DEF MemInv, ToldOrPending
<1>. QED BY <1>4, <1>5, <1>6 DEF MemInv

LEMMA SetPermissionsKeeps ==
  ASSUME MemInv, NEW t, NEW S \in SUBSET Ids, NEW q \in Descriptors,
         MemSetPermissions(t, [id \in S |-> q])
  PROVE  MemInv'
<1>. DEFINE hit == memAffected(t, [id \in S |-> q])
<1>1. /\ ~memClosed /\ memClosed' = memClosed /\ memSeen' = memSeen
      /\ memAnswers' = memAnswers /\ memPhrasings' = memPhrasings
      /\ memContent' = memContent /\ memVerified' = memVerified /\ memOwners' = memOwners
      /\ memReports' = memReports /\ memSaid' = memSaid
      /\ memPending \subseteq memPending' /\ memPending' \subseteq SUBSET Ids
  BY DEF MemSetPermissions, memSetAll, memTell, memDeskVars, MemInv, MemTyped, memAffected
<1>2. ASSUME NEW id \in Ids, id \in hit
      PROVE  /\ memDocs[id] # None /\ memDocs'[id] \in Documents
             /\ memDocs'[id].owner = memDocs[id].owner
  <2>1. memDocs[id] \in Documents /\ memDocs[id] # None /\ id \in S
    BY <1>2 DEF memAffected, MemInv, MemTyped
  <2>2. memDocs'[id] = [memDocs[id] EXCEPT !.perms = q]
    BY <1>2, <2>1 DEF MemSetPermissions, memSetAll
  <2>3. [memDocs[id] EXCEPT !.perms = q] \in Documents
    BY <2>1, PermsEdit
  <2>4. [memDocs[id] EXCEPT !.perms = q].owner = memDocs[id].owner
    BY <2>1 DEF Documents
  <2>. QED BY <2>1, <2>2, <2>3, <2>4
<1>3. \A id \in Ids : id \notin hit => memDocs'[id] = memDocs[id]
  BY DEF MemSetPermissions, memSetAll
<1>4. \A id \in Ids : (memDocs'[id] = None) = (memDocs[id] = None)
                      /\ (memDocs[id] # None => memDocs'[id].owner = memDocs[id].owner)
  BY <1>2, <1>3, NoneIsNothing
<1>5. MemTyped'
  <2>1. DOMAIN memDocs' = Ids /\ memDocs' = [id \in Ids |-> memDocs'[id]]
    BY DEF MemSetPermissions, memSetAll
  <2>2. \A id \in Ids : memDocs'[id] \in Documents \cup {None}
    BY <1>2, <1>3 DEF MemInv, MemTyped
  <2>. QED BY <1>1, <2>1, <2>2 DEF MemInv, MemTyped
<1>6. SaidStands'
  <2>1. CorrectionStands'
    BY <1>1, <1>4 DEF MemInv, SaidStands, CorrectionStands
  <2>2. NothingAboutTheGone'
    BY <1>1, <1>4 DEF MemInv, SaidStands, NothingAboutTheGone
  <2>. QED BY <1>1, <2>1, <2>2 DEF MemInv, SaidStands, PhrasingsAnswer
<1>7. ToldOrPending'
  <2>. SUFFICES ASSUME NEW id \in Ids, ~ \E ids \in memPending' : id \in ids
                PROVE  SameToASearch(memSeen'[id], memDocs'[id])
    BY DEF ToldOrPending
  <2>1. memDocs'[id] = memDocs[id]
    <3>1. id \notin hit
      BY DEF MemSetPermissions, memTell
    <3>. QED BY <1>3, <3>1
  <2>2. ~ \E ids \in memPending : id \in ids
    BY <1>1
  <2>. QED BY <1>1, <2>1, <2>2 DEF MemInv, ToldOrPending
<1>. QED BY <1>5, <1>6, <1>7 DEF MemInv

\* A subscriber that is told reads the document again.
LEMMA ChangedKeeps ==
  ASSUME MemInv, MemChanged
  PROVE  MemInv'
<1>1. PICK S \in memPending :
        /\ memPending' = memPending \ {S}
        /\ memSeen' = [id \in Ids |-> IF id \in S THEN memDocs[id] ELSE memSeen[id]]
        /\ UNCHANGED <<memDocVars, memDeskVars, memClosed>>
  BY DEF MemChanged
<1>2. /\ memDocs' = memDocs /\ memContent' = memContent /\ memVerified' = memVerified
      /\ memOwners' = memOwners /\ memReports' = memReports /\ memSaid' = memSaid
      /\ memAnswers' = memAnswers /\ memPhrasings' = memPhrasings /\ memClosed' = memClosed
  BY <1>1 DEF memDocVars, memDeskVars
<1>3. MemTyped'
  BY <1>1, <1>2 DEF MemInv, MemTyped
<1>4. SaidStands'
  BY <1>2 DEF MemInv, SaidStands, CorrectionStands, NothingAboutTheGone, PhrasingsAnswer
<1>5. ToldOrPending'
  BY <1>1, <1>2 DEF MemInv, ToldOrPending, SameToASearch
<1>. QED BY <1>3, <1>4, <1>5 DEF MemInv

LEMMA CloseKeeps ==
  ASSUME MemInv, MemClose
  PROVE  MemInv'
<1>1. MemTyped'
  BY DEF MemClose, MemInv, MemTyped, memDeskVars, memTellVars
<1>2. SaidStands'
  BY DEF MemClose, MemInv, SaidStands, CorrectionStands, NothingAboutTheGone, PhrasingsAnswer, memDeskVars
<1>3. ToldOrPending'
  BY DEF MemClose, ToldOrPending
<1>. QED BY <1>1, <1>2, <1>3 DEF MemInv

\* Marks and reports go to documents that are there.
LEMMA MarksKeep ==
  ASSUME MemInv, NEW p, NEW id \in Ids, memVisible(p, id),
         \/ \E t : MemVerify(p, id, t)
         \/ MemUnverify(p, id)
  PROVE  MemInv'
<1>1. /\ memDocs' = memDocs /\ memContent' = memContent
      /\ memOwners' = memOwners /\ memReports' = memReports /\ memSaid' = memSaid
      /\ memAnswers' = memAnswers /\ memPhrasings' = memPhrasings /\ memClosed' = memClosed
      /\ memPending' = memPending /\ memSeen' = memSeen /\ DOMAIN memVerified' = Ids
      /\ memDocs[id] # None
      /\ \A x \in Ids : x # id => memVerified'[x] = memVerified[x]
  BY DEF MemVerify, MemUnverify, memDeskVars, memTellVars, memVisible, MemInv, MemTyped
<1>2. MemTyped'
  BY <1>1 DEF MemInv, MemTyped
<1>3. SaidStands'
  BY <1>1 DEF MemInv, SaidStands, CorrectionStands, NothingAboutTheGone, PhrasingsAnswer
<1>4. ToldOrPending'
  BY <1>1 DEF MemInv, ToldOrPending
<1>. QED BY <1>2, <1>3, <1>4 DEF MemInv

LEMMA ReportsKeep ==
  ASSUME MemInv, NEW p \in Principals, NEW id \in Ids, memVisible(p, id),
         \/ \E t \in Times : MemReport(p, id, t)
         \/ MemWithdraw(p, id)
         \/ MemResolve(p, id)
  PROVE  MemInv'
<1>1. /\ memDocs' = memDocs /\ memContent' = memContent /\ memVerified' = memVerified
      /\ memOwners' = memOwners /\ memSaid' = memSaid
      /\ memAnswers' = memAnswers /\ memPhrasings' = memPhrasings /\ memClosed' = memClosed
      /\ memPending' = memPending /\ memSeen' = memSeen
      /\ memDocs[id] # None
  BY DEF MemReport, MemWithdraw, MemResolve, memDeskVars, memTellVars, memVisible
<1>2. /\ memReports' \in [Ids -> [ReportKeys -> Times \cup {0}]]
      /\ \A x \in Ids : x # id => memReports'[x] = memReports[x]
  <2>1. memReports \in [Ids -> [ReportKeys -> Times \cup {0}]]
    BY DEF MemInv, MemTyped
  <2>2. ReportKey(p) \in ReportKeys
    BY DEF ReportKeys
  <2>3. CASE \E t \in Times : MemReport(p, id, t)
    <3>1. PICK t \in Times : memReports' = [memReports EXCEPT ![id][ReportKey(p)] = t]
      BY <2>3 DEF MemReport
    <3>. QED BY <2>1, <2>2, <3>1
  <2>4. CASE MemWithdraw(p, id)
    <3>1. memReports' = [memReports EXCEPT ![id][ReportKey(p)] = 0]
      BY <2>4 DEF MemWithdraw
    <3>. QED BY <2>1, <2>2, <3>1
  <2>5. CASE MemResolve(p, id)
    <3>1. memReports' = [memReports EXCEPT ![id] = [k \in ReportKeys |-> 0]]
      BY <2>5 DEF MemResolve
    <3>2. [k \in ReportKeys |-> 0] \in [ReportKeys -> Times \cup {0}]
      OBVIOUS
    <3>. QED BY <2>1, <3>1, <3>2
  <2>. QED BY <2>3, <2>4, <2>5
<1>3. MemTyped'
  BY <1>1, <1>2 DEF MemInv, MemTyped
<1>4. SaidStands'
  BY <1>1, <1>2 DEF MemInv, SaidStands, CorrectionStands, NothingAboutTheGone, PhrasingsAnswer
<1>5. ToldOrPending'
  BY <1>1 DEF MemInv, ToldOrPending
<1>. QED BY <1>3, <1>4, <1>5 DEF MemInv
\* A corrected document differs from what it was in its owner alone, and what the
\* correction remembers is what the source said.
LEMMA OwnersKeep ==
  ASSUME MemInv, NEW p, NEW id \in Ids, ~memClosed, memVisible(p, id),
         \/ \E who \in People : MemSetOwner(p, id, who)
         \/ MemClearOwner(p, id)
  PROVE  MemInv'
<1>. DEFINE d == memDocs[id]  c == memOwners[id]
<1>1. d \in Documents /\ d # None /\ c \in Corrections \cup {None} /\ DOMAIN memOwners = Ids
      /\ DOMAIN memDocs = Ids
  BY DEF memVisible, MemInv, MemTyped
<1>2. d.owner \in Owners /\ (c # None => c.owner \in Owners /\ c.was \in Owners)
  BY <1>1, DocumentFields DEF Corrections
<1>3. (c = None => d.owner = memSaid[id]) /\ (c # None => d.owner = c.owner /\ c.was = memSaid[id])
  BY <1>1 DEF MemInv, SaidStands, CorrectionStands
<1>4. /\ memContent' = memContent /\ memVerified' = memVerified
      /\ memReports' = memReports /\ memSaid' = memSaid
      /\ memAnswers' = memAnswers /\ memPhrasings' = memPhrasings /\ memClosed' = memClosed
      /\ memPending' = memPending /\ memSeen' = memSeen
  BY DEF MemSetOwner, MemClearOwner, memDeskVars, memTellVars
<1>5. \E w \in Owners, e \in Corrections \cup {None} :
        /\ memDocs' = [memDocs EXCEPT ![id].owner = w] /\ memOwners' = [memOwners EXCEPT ![id] = e]
        /\ e = None => w = memSaid[id]
        /\ e # None => w = e.owner /\ e.was = memSaid[id]
  <2>1. CASE \E who \in People : MemSetOwner(p, id, who)
    <3>1. PICK who \in People : MemSetOwner(p, id, who)
      BY <2>1
    <3>. DEFINE e == [owner |-> who, was |-> IF c # None THEN c.was ELSE d.owner]
    <3>2. who \in Owners /\ e \in Corrections /\ e.was = memSaid[id] /\ e.owner = who
      BY <1>2, <1>3 DEF Owners, Corrections
    <3>3. memDocs' = [memDocs EXCEPT ![id].owner = who] /\ memOwners' = [memOwners EXCEPT ![id] = e]
      BY <3>1 DEF MemSetOwner
    <3>. QED BY <3>2, <3>3, NoneIsNothing
  <2>2. CASE MemClearOwner(p, id)
    <3>1. c # None /\ memDocs' = [memDocs EXCEPT ![id].owner = c.was]
          /\ memOwners' = [memOwners EXCEPT ![id] = None]
      BY <2>2 DEF MemClearOwner
    <3>. QED BY <1>2, <1>3, <3>1
  <2>. QED BY <2>1, <2>2
<1>6. PICK w \in Owners, e \in Corrections \cup {None} :
        /\ memDocs' = [memDocs EXCEPT ![id].owner = w] /\ memOwners' = [memOwners EXCEPT ![id] = e]
        /\ e = None => w = memSaid[id]
        /\ e # None => w = e.owner /\ e.was = memSaid[id]
  BY <1>5
<1>. DEFINE f == [d EXCEPT !.owner = w]
<1>7. /\ memDocs'[id] = f /\ memOwners'[id] = e
      /\ \A x \in Ids : x # id => memDocs'[x] = memDocs[x] /\ memOwners'[x] = memOwners[x]
  BY <1>1, <1>6
<1>8. f \in Documents /\ f # None /\ f.owner = w
  <2>1. f \in Documents
    BY <1>1, OwnerEdit
  <2>2. f.owner = w
    BY <1>1 DEF Documents
  <2>. QED BY <2>1, <2>2, NoneIsNothing
<1>9. MemTyped'
  <2>1. memDocs' \in [Ids -> Documents \cup {None}] /\ memOwners' \in [Ids -> Corrections \cup {None}]
    <3>1. DOMAIN memDocs' = Ids /\ DOMAIN memOwners' = Ids
          /\ memDocs' = [x \in Ids |-> memDocs'[x]] /\ memOwners' = [x \in Ids |-> memOwners'[x]]
      BY <1>1, <1>6
    <3>2. \A x \in Ids : memDocs'[x] \in Documents \cup {None} /\ memOwners'[x] \in Corrections \cup {None}
      BY <1>7, <1>8 DEF MemInv, MemTyped
    <3>. QED BY <3>1, <3>2
  <2>. QED BY <1>4, <2>1 DEF MemInv, MemTyped
<1>10. SaidStands'
  <2>1. CorrectionStands'
    <3>. HIDE DEF f, d
    <3>1. IF memOwners'[id] = None THEN memDocs'[id].owner = memSaid'[id]
          ELSE memDocs'[id].owner = memOwners'[id].owner /\ memOwners'[id].was = memSaid'[id]
      BY <1>4, <1>6, <1>7, <1>8
    <3>2. \A x \in Ids : x # id =>
            memDocs'[x] = memDocs[x] /\ memOwners'[x] = memOwners[x] /\ memSaid'[x] = memSaid[x]
      BY <1>4, <1>7
    <3>. QED BY <1>4, <3>1, <3>2 DEF MemInv, SaidStands, CorrectionStands
  <2>2. NothingAboutTheGone'
    BY <1>4, <1>7, <1>8 DEF MemInv, SaidStands, NothingAboutTheGone
  <2>. QED BY <1>4, <2>1, <2>2 DEF MemInv, SaidStands, PhrasingsAnswer
<1>11. ToldOrPending'
  <2>. SUFFICES ASSUME NEW x \in Ids, ~ \E ids \in memPending : x \in ids
                PROVE  SameToASearch(memSeen[x], memDocs'[x])
    BY <1>4 DEF ToldOrPending
  <2>1. SameToASearch(memSeen[x], memDocs[x])
    BY DEF MemInv, ToldOrPending
  <2>2. CASE x = id
    <3>1. memSeen[id] \in Documents /\ SameToASearch(memSeen[id], d)
      BY <1>1, <2>1, <2>2, NoneIsNothing DEF SameToASearch, MemInv, MemTyped
    <3>2. SameToASearch(memSeen[id], f)
      <4>1. f.tenant = d.tenant /\ f.source = d.source /\ f.kind = d.kind /\ f.perms = d.perms
            /\ f.author = d.author /\ f.modified = d.modified /\ f.terms = d.terms
            /\ f.version = d.version /\ f.content = d.content
        BY <1>1 DEF Documents
      <4>. HIDE DEF f, d
      <4>. QED BY <1>1, <1>8, <3>1, <4>1, SameFields
    <3>. QED BY <1>7, <2>2, <3>2
  <2>. QED BY <1>7, <2>1, <2>2
<1>. QED BY <1>9, <1>10, <1>11 DEF MemInv

\* The phrasings an answer holds are given up before it claims others, and the
\* answer that loses one to another is not asked for it any more.
LEMMA AnswersKeep ==
  ASSUME MemInv, NEW p \in Callers,
         \/ \E a \in Curations : MemCurate(p, a)
         \/ \E id \in AnswerIds : MemRetract(p, id)
  PROVE  MemInv'
<1>. DEFINE t == p.tenant
<1>1. t \in Tenants
  BY StoreAssumption DEF StoreAssumption, Tenants
<1>2. /\ memDocs' = memDocs /\ memContent' = memContent /\ memVerified' = memVerified
      /\ memOwners' = memOwners /\ memReports' = memReports /\ memSaid' = memSaid
      /\ memPending' = memPending /\ memSeen' = memSeen /\ memClosed' = memClosed
  BY DEF MemCurate, MemRetract, memDocVars, memTellVars
<1>3. PICK id \in AnswerIds, keys \in Seq(Phrasings) :
        /\ memAnswers' = [memAnswers EXCEPT ![<<t, id>>] = keys]
        /\ memPhrasings' = [x \in DOMAIN memPhrasings |->
             IF x \in {<<t, keys[i]>> : i \in DOMAIN keys} THEN id ELSE memForget(t, id)[x]]
  <2>1. CASE \E a \in Curations : MemCurate(p, a)
    <3>1. PICK a \in Curations : MemCurate(p, a)
      BY <2>1
    <3>2. a.id \in AnswerIds /\ a.keys \in Seq(Phrasings)
      BY StoreAssumption DEF StoreAssumption, AnswerIds
    <3>. QED BY <3>1, <3>2 DEF MemCurate
  <2>2. CASE \E id \in AnswerIds : MemRetract(p, id)
    <3>1. PICK id \in AnswerIds : MemRetract(p, id)
      BY <2>2
    <3>2. <<>> \in Seq(Phrasings) /\ {<<t, (<<>>)[i]>> : i \in DOMAIN <<>>} = {}
      OBVIOUS
    <3>3. memForget(t, id) = [x \in DOMAIN memPhrasings |-> memForget(t, id)[x]]
      BY DEF memForget
    <3>4. memPhrasings' = memForget(t, id) /\ memAnswers' = [memAnswers EXCEPT ![<<t, id>>] = <<>>]
      BY <3>1 DEF MemRetract
    <3>. QED BY <3>2, <3>3, <3>4
  <2>. QED BY <2>1, <2>2
<1>. DEFINE claims == {<<t, keys[i]>> : i \in DOMAIN keys}
<1>4. \A u \in Tenants, k \in Phrasings :
        memPhrasings'[<<u, k>>] = IF <<u, k>> \in claims THEN id
                                  ELSE IF u = t /\ memPhrasings[<<u, k>>] = id THEN None
                                  ELSE memPhrasings[<<u, k>>]
  <2>1. DOMAIN memPhrasings = Tenants \X Phrasings
    BY DEF MemInv, MemTyped
  <2>. SUFFICES ASSUME NEW u \in Tenants, NEW k \in Phrasings
                PROVE  memPhrasings'[<<u, k>>] = IF <<u, k>> \in claims THEN id
                                  ELSE IF u = t /\ memPhrasings[<<u, k>>] = id THEN None
                                  ELSE memPhrasings[<<u, k>>]
    OBVIOUS
  <2>. DEFINE x == <<u, k>>
  <2>2. x \in DOMAIN memPhrasings /\ x[1] = u
    BY <2>1
  <2>3. memForget(t, id)[x] = IF u = t /\ memPhrasings[x] = id THEN None ELSE memPhrasings[x]
    BY <2>2 DEF memForget
  <2>. HIDE DEF x, claims
  <2>4. memPhrasings'[x] = IF x \in claims THEN id ELSE memForget(t, id)[x]
    BY <1>3, <2>2 DEF claims
  <2>. QED BY <2>3, <2>4 DEF x
<1>5. \A u \in Tenants, j \in AnswerIds :
        memAnswers'[<<u, j>>] = IF u = t /\ j = id THEN keys ELSE memAnswers[<<u, j>>]
  BY <1>1, <1>3 DEF MemInv, MemTyped
<1>6. MemTyped'
  <2>1. memAnswers' \in [Tenants \X AnswerIds -> Seq(Phrasings)]
    BY <1>1, <1>3 DEF MemInv, MemTyped
  <2>2. memPhrasings' \in [Tenants \X Phrasings -> AnswerIds \cup {None}]
    <3>1. \A x \in Tenants \X Phrasings : memPhrasings[x] \in AnswerIds \cup {None}
          /\ memForget(t, id)[x] \in AnswerIds \cup {None}
      BY DEF MemInv, MemTyped, memForget
    <3>2. DOMAIN memPhrasings = Tenants \X Phrasings
      BY DEF MemInv, MemTyped
    <3>. QED BY <1>3, <3>1, <3>2
  <2>. QED BY <1>2, <2>1, <2>2 DEF MemInv, MemTyped
<1>7. PhrasingsAnswer'
  <2>. SUFFICES ASSUME NEW u \in Tenants, NEW k \in Phrasings, memPhrasings'[<<u, k>>] # None
                PROVE  \E i \in DOMAIN memAnswers'[<<u, memPhrasings'[<<u, k>>]>>] :
                         memAnswers'[<<u, memPhrasings'[<<u, k>>]>>][i] = k
    BY DEF PhrasingsAnswer
  <2>1. CASE <<u, k>> \in claims
    <3>1. PICK i \in DOMAIN keys : <<u, k>> = <<t, keys[i]>>
      BY <2>1
    <3>2. u = t /\ k = keys[i] /\ memPhrasings'[<<u, k>>] = id
      BY <1>4, <2>1, <3>1
    <3>3. memAnswers'[<<u, id>>] = keys
      BY <1>5, <3>2
    <3>. QED BY <3>2, <3>3
  <2>2. CASE <<u, k>> \notin claims
    <3>. DEFINE j == memPhrasings[<<u, k>>]
    <3>1. memPhrasings'[<<u, k>>] = j /\ j # None /\ ~(u = t /\ j = id)
      BY <1>4, <2>2
    <3>2. j \in AnswerIds
      BY <3>1 DEF MemInv, MemTyped
    <3>3. memAnswers'[<<u, j>>] = memAnswers[<<u, j>>]
      BY <1>5, <3>1, <3>2
    <3>4. \E i \in DOMAIN memAnswers[<<u, j>>] : memAnswers[<<u, j>>][i] = k
      BY <3>1 DEF MemInv, SaidStands, PhrasingsAnswer
    <3>. QED BY <3>1, <3>3, <3>4
  <2>. QED BY <2>1, <2>2
<1>8. SaidStands'
  BY <1>2, <1>7 DEF MemInv, SaidStands, CorrectionStands, NothingAboutTheGone
<1>9. ToldOrPending'
  BY <1>2 DEF MemInv, ToldOrPending
<1>. QED BY <1>6, <1>8, <1>9 DEF MemInv

LEMMA MemKeeps ==
  ASSUME MemInv, [MemNext]_memVars
  PROVE  MemInv'
<1>. DEFINE same == /\ memDocs' = memDocs /\ memContent' = memContent /\ memVerified' = memVerified
                    /\ memOwners' = memOwners /\ memReports' = memReports /\ memSaid' = memSaid
                    /\ memAnswers' = memAnswers /\ memPhrasings' = memPhrasings
                    /\ memPending' = memPending /\ memSeen' = memSeen /\ memClosed' = memClosed
<1>0. ASSUME same PROVE MemInv'
  BY <1>0 DEF MemInv, MemTyped, SaidStands, CorrectionStands, NothingAboutTheGone,
     PhrasingsAnswer, ToldOrPending
<1>1. CASE MemDocNext
  <2>1. CASE \E b \in Batches : MemPut(b)
    BY <2>1, PutKeeps
  <2>2. CASE \E ids \in (SUBSET Ids) \ {{}} : MemDelete(ids)
    BY <2>2, DeleteKeeps
  <2>3. CASE \E t \in Tenants, ids \in (SUBSET Ids) \ {{}}, d \in Descriptors :
               MemSetPermissions(t, [id \in ids |-> d])
    <3>1. PICK t \in Tenants, ids \in (SUBSET Ids) \ {{}}, d \in Descriptors :
            MemSetPermissions(t, [id \in ids |-> d])
      BY <2>3
    <3>2. ids \in SUBSET Ids
      OBVIOUS
    <3>. QED BY <3>1, <3>2, SetPermissionsKeeps
  <2>4. CASE MemChanged
    BY <2>4, ChangedKeeps
  <2>. QED BY <1>1, <2>1, <2>2, <2>3, <2>4 DEF MemDocNext
<1>2. CASE MemVerifyNext
  <2>1. PICK p \in Callers, id \in Ids : (\E t \in Times : MemVerify(p, id, t)) \/ MemUnverify(p, id)
    BY <1>2 DEF MemVerifyNext
  <2>2. memVisible(p, id)
    BY <2>1 DEF MemVerify, MemUnverify
  <2>. QED BY <2>1, <2>2, MarksKeep
<1>3. CASE MemOwnNext
  <2>1. PICK p \in Callers, id \in Ids : (\E who \in People : MemSetOwner(p, id, who)) \/ MemClearOwner(p, id)
    BY <1>3 DEF MemOwnNext
  <2>2. memVisible(p, id) /\ ~memClosed
    BY <2>1 DEF MemSetOwner, MemClearOwner
  <2>. QED BY <2>1, <2>2, OwnersKeep
<1>4. CASE MemReportNext
  <2>1. PICK p \in Callers, id \in Ids :
          (\E t \in Times : MemReport(p, id, t)) \/ MemWithdraw(p, id) \/ MemResolve(p, id)
    BY <1>4 DEF MemReportNext
  <2>2. memVisible(p, id) /\ p \in Principals
    BY <2>1, StoreAssumption DEF MemReport, MemWithdraw, MemResolve, StoreAssumption
  <2>. QED BY <2>1, <2>2, ReportsKeep
<1>5. CASE MemAnswerNext
  BY <1>5, AnswersKeep DEF MemAnswerNext
<1>6. CASE MemFeedNext
  BY <1>0, <1>6 DEF MemFeedNext, MemSaveFeed, MemDropFeed, memDocVars, memTellVars
<1>7. CASE MemClose
  BY <1>7, CloseKeeps
<1>8. CASE MemHistoryNext
  BY <1>0, <1>8 DEF MemHistoryNext, memDocVars, memDeskVars, memTellVars
<1>9. CASE UNCHANGED memVars
  BY <1>0, <1>9 DEF memVars, memDocVars, memDeskVars, memTellVars
<1>. QED BY <1>1, <1>2, <1>3, <1>4, <1>5, <1>6, <1>7, <1>8, <1>9 DEF MemNext, MemSharedNext

\* What people said about a document in the reference store stands exactly as long as
\* the document, through crawls, deletions, corrections and rewritten answers
\* (own.go, verify.go, report.go, curate.go).
THEOREM SaidIsKept == MemSpec => []SaidStands
<1>1. MemInv => SaidStands
  BY DEF MemInv
<1>. QED BY <1>1, MemStarts, MemKeeps, PTL DEF MemSpec
-----------------------------------------------------------------------------
(* The PostgreSQL store.                                                   *)

\* What a call has to report whatever it finds: the documents it writes.
Must(call) == IF call.op = "put" THEN Written(call.batch) ELSE {}

\* A writing call of a server: nothing is owed between calls; before it is told,
\* what is owed is among what the call reports in every attempt.
CallHolds(s) ==
  LET c == pgCall[s] IN
  /\ c = [call |-> c.call, at |-> c.at, tries |-> c.tries, priors |-> c.priors, ids |-> c.ids]
  /\ c.at \in {"idle", "begin", "work", "tell"}
  /\ c.at = "idle" => pgOwed[s] = {}
  /\ c.at \in {"begin", "work"} => pgOwed[s] \subseteq Must(c.call)
  /\ c.at = "work" => /\ Must(c.call) \subseteq c.ids
                      /\ c.call.op \notin {"delete", "perms"} => c.ids = Must(c.call)
  /\ c.at = "tell" => pgOwed[s] \subseteq c.ids

CallsHold ==
  /\ DOMAIN pgCall = Servers /\ DOMAIN pgOwed = Servers
  /\ \A s \in Servers : CallHolds(s)

\* The stream has handed over the first rows of a sequence that names nobody twice.
StreamHolds ==
  pgStream # None =>
    /\ pgStream = [p |-> pgStream.p, r |-> pgStream.r, rows |-> pgStream.rows,
                   got |-> pgStream.got, sent |-> pgStream.sent, tries |-> pgStream.tries,
                   end |-> pgStream.end]
    /\ pgStream.rows \in Seq(Ids) /\ pgStream.got \in Seq(Ids)
    /\ \A i, j \in 1 .. Len(pgStream.rows) : pgStream.rows[i] = pgStream.rows[j] => i = j
    /\ pgStream.sent = Len(pgStream.got) /\ Len(pgStream.got) <= Len(pgStream.rows)
    /\ \A i \in 1 .. Len(pgStream.got) : pgStream.got[i] = pgStream.rows[i]

LEMMA NobodyTwice ==
  ASSUME NEW S \in SUBSET Ids
  PROVE  /\ SetToSeq(S) \in Seq(Ids)
         /\ \A i, j \in 1 .. Len(SetToSeq(S)) : SetToSeq(S)[i] = SetToSeq(S)[j] => i = j
<1>1. IsFiniteSet(S)
  BY FS_Subset, StoreAssumption DEF StoreAssumption
<1>2. Cardinality(S) \in Nat /\ ExistsBijection(1 .. Cardinality(S), S)
  BY <1>1, FS_CardinalityType
<1>3. PICK g : g \in Bijection(1 .. Cardinality(S), S)
  BY <1>2 DEF ExistsBijection
<1>4. g \in [1 .. Cardinality(S) -> S] /\ IsInjective(g)
  BY <1>3 DEF Bijection, Injection, IsInjective
<1>5. SetToSeq(S) \in [1 .. Cardinality(S) -> S] /\ IsInjective(SetToSeq(S))
  BY <1>4, Zenon DEF SetToSeq
<1>6. SetToSeq(S) \in Seq(S) /\ Len(SetToSeq(S)) = Cardinality(S)
  BY <1>2, <1>5
<1>. QED BY <1>5, <1>6 DEF IsInjective

LEMMA CallsStart == PgInit => CallsHold /\ StreamHolds
<1>. SUFFICES ASSUME PgInit PROVE CallsHold /\ StreamHolds
  OBVIOUS
<1>1. ASSUME NEW s \in Servers PROVE CallHolds(s)
  <2>1. pgCall[s] = pgIdle /\ pgOwed[s] = {}
    BY DEF PgInit
  <2>. QED BY <2>1 DEF CallHolds, pgIdle
<1>2. StreamHolds
  BY DEF PgInit, StreamHolds
<1>. QED BY <1>1, <1>2 DEF PgInit, CallsHold

\* What has to be shown of a call and of a stream after a step that rewrote them.
LEMMA CallRewritten ==
  ASSUME NEW s, NEW call, NEW at \in {"idle", "begin", "work", "tell"}, NEW tries, NEW priors, NEW ids,
         pgCall'[s] = [call |-> call, at |-> at, tries |-> tries, priors |-> priors, ids |-> ids],
         at = "idle" => pgOwed'[s] = {},
         at \in {"begin", "work"} => pgOwed'[s] \subseteq Must(call),
         at = "work" => Must(call) \subseteq ids,
         at = "work" /\ call.op \notin {"delete", "perms"} => ids = Must(call),
         at = "tell" => pgOwed'[s] \subseteq ids
  PROVE  CallHolds(s)'
<1>1. /\ pgCall'[s].call = call /\ pgCall'[s].at = at /\ pgCall'[s].tries = tries
      /\ pgCall'[s].priors = priors /\ pgCall'[s].ids = ids
  OBVIOUS
<1>. QED BY <1>1 DEF CallHolds

LEMMA StreamRewritten ==
  ASSUME NEW p, NEW r, NEW rows \in Seq(Ids), NEW got \in Seq(Ids), NEW sent, NEW tries, NEW end,
         pgStream' = [p |-> p, r |-> r, rows |-> rows, got |-> got, sent |-> sent,
                      tries |-> tries, end |-> end],
         \A i, j \in 1 .. Len(rows) : rows[i] = rows[j] => i = j,
         sent = Len(got), Len(got) <= Len(rows), \A i \in 1 .. Len(got) : got[i] = rows[i]
  PROVE  StreamHolds'
<1>1. /\ pgStream'.p = p /\ pgStream'.r = r /\ pgStream'.rows = rows /\ pgStream'.got = got
      /\ pgStream'.sent = sent /\ pgStream'.tries = tries /\ pgStream'.end = end
  OBVIOUS
<1>. QED BY <1>1 DEF StreamHolds

\* One server's step.
LEMMA CallStep ==
  ASSUME CallsHold, NEW s \in Servers, LostAckOps \cap {"delete", "perms"} = {},
         \/ \E call : PgBegin(s, call)
         \/ PgLockWrites(s) \/ PgCommit(s) \/ PgChanges(s) \/ PgFail(s) \/ PgLostAck(s)
  PROVE  CallsHold'
<1>. DEFINE c == pgCall[s]
<1>1. /\ DOMAIN pgCall = Servers /\ DOMAIN pgOwed = Servers
      /\ c = [call |-> c.call, at |-> c.at, tries |-> c.tries, priors |-> c.priors, ids |-> c.ids]
  BY DEF CallsHold, CallHolds
<1>2. SUFFICES /\ DOMAIN pgCall' = Servers /\ DOMAIN pgOwed' = Servers
               /\ \A x \in Servers : x # s => pgCall'[x] = pgCall[x] /\ pgOwed'[x] = pgOwed[x]
               /\ CallHolds(s)'
  BY DEF CallsHold, CallHolds
<1>3. CASE \E call : PgBegin(s, call)
  <2>1. PICK call : PgBegin(s, call)
    BY <1>3
  <2>2. /\ pgCall' = [pgCall EXCEPT ![s] = [call |-> call, at |-> "begin", tries |-> 1,
                                            priors |-> None, ids |-> {}]]
        /\ pgOwed' = pgOwed /\ pgOwed[s] = {}
    BY <2>1 DEF PgBegin, CallsHold, CallHolds
  <2>. QED BY <1>1, <2>2 DEF CallHolds
<1>4. CASE PgLockWrites(s)
  <2>. DEFINE r == pgReports(c.call, pgRead(pgDb))  q == pgRead(pgDb)
  <2>1. /\ c.at = "begin" /\ pgOwed' = pgOwed
        /\ pgCall' = [pgCall EXCEPT ![s].at = "work", ![s].priors = q, ![s].ids = r]
    BY <1>4 DEF PgLockWrites
  <2>2. Must(c.call) \subseteq r /\ (c.call.op \notin {"delete", "perms"} => r = Must(c.call))
    BY DEF pgReports, Must
  <2>. HIDE DEF r, q
  <2>3. pgCall'[s] = [call |-> c.call, at |-> "work", tries |-> c.tries, priors |-> q, ids |-> r]
    BY <1>1, <2>1
  <2>4. pgOwed[s] \subseteq Must(c.call)
    BY <2>1 DEF CallsHold, CallHolds
  <2>. HIDE DEF c
  <2>5. CallHolds(s)'
    BY <2>1, <2>2, <2>3, <2>4, CallRewritten
  <2>. QED BY <1>1, <2>1, <2>5
<1>5. CASE PgCommit(s)
  <2>1. /\ c.at = "work" /\ pgOwed' = [pgOwed EXCEPT ![s] = @ \cup c.ids]
        /\ pgCall' = [pgCall EXCEPT ![s].at = "tell", ![s].priors = None]
    BY <1>5 DEF PgCommit, pgCommitted
  <2>2. pgCall'[s] = [call |-> c.call, at |-> "tell", tries |-> c.tries, priors |-> None, ids |-> c.ids]
    BY <1>1, <2>1
  <2>3. pgOwed'[s] \subseteq c.ids
    BY <1>1, <2>1 DEF CallsHold, CallHolds
  <2>. HIDE DEF c
  <2>4. CallHolds(s)'
    BY <2>2, <2>3, CallRewritten
  <2>. QED BY <1>1, <2>1, <2>4
<1>6. CASE PgChanges(s)
  <2>1. /\ c.at = "tell" /\ pgOwed' = [pgOwed EXCEPT ![s] = @ \ c.ids]
        /\ pgCall' = [pgCall EXCEPT ![s] = pgIdle]
    BY <1>6 DEF PgChanges
  <2>2. pgOwed'[s] = {}
    BY <1>1, <2>1 DEF CallsHold, CallHolds
  <2>. QED BY <1>1, <2>1, <2>2 DEF CallHolds, pgIdle
<1>7. ASSUME pgAgain(s), c.tries < Attempts, pgOwed'[s] \subseteq Must(c.call)
      PROVE  CallHolds(s)'
  <2>1. pgCall'[s] = [call |-> c.call, at |-> "begin", tries |-> c.tries + 1, priors |-> None, ids |-> {}]
    <3>1. pgCall'[s] = IF c.tries < Attempts
                       THEN [call |-> c.call, at |-> "begin", tries |-> c.tries + 1, priors |-> None, ids |-> {}]
                       ELSE pgIdle
      BY <1>1, <1>7 DEF pgAgain
    <3>. QED BY <1>7, <3>1
  <2>. HIDE DEF c
  <2>. QED BY <1>7, <2>1, CallRewritten
<1>8. CASE PgFail(s)
  <2>1. /\ c.at \in {"begin", "work"} /\ pgAgain(s)
        /\ pgOwed' = IF c.tries < Attempts THEN pgOwed ELSE [pgOwed EXCEPT ![s] = {}]
    BY <1>8 DEF PgFail
  <2>2. DOMAIN pgCall' = Servers /\ \A x \in Servers : x # s => pgCall'[x] = pgCall[x]
    BY <1>1, <2>1 DEF pgAgain
  <2>3. DOMAIN pgOwed' = Servers /\ \A x \in Servers : x # s => pgOwed'[x] = pgOwed[x]
    BY <1>1, <2>1
  <2>4. CASE c.tries < Attempts
    <3>1. pgOwed'[s] \subseteq Must(c.call)
      BY <2>1, <2>4 DEF CallsHold, CallHolds
    <3>. QED BY <1>7, <2>1, <2>2, <2>3, <2>4, <3>1
  <2>5. CASE ~(c.tries < Attempts)
    <3>1. pgCall'[s] = pgIdle /\ pgOwed'[s] = {}
      BY <1>1, <2>1, <2>5 DEF pgAgain
    <3>. QED BY <2>2, <2>3, <3>1 DEF CallHolds, pgIdle
  <2>. QED BY <2>4, <2>5
<1>9. CASE PgLostAck(s)
  <2>1. /\ c.at = "work" /\ c.call.op \in LostAckOps /\ c.tries < Attempts /\ pgAgain(s)
        /\ pgOwed' = [pgOwed EXCEPT ![s] = @ \cup c.ids]
    BY <1>9 DEF PgLostAck, pgCommitted
  <2>2. c.call.op \notin {"delete", "perms"}
    BY <2>1
  <2>3. c.ids = Must(c.call) /\ pgOwed[s] \subseteq Must(c.call)
    BY <2>1, <2>2 DEF CallsHold, CallHolds
  <2>4. pgOwed'[s] \subseteq Must(c.call)
    BY <1>1, <2>1, <2>3
  <2>5. DOMAIN pgCall' = Servers /\ \A x \in Servers : x # s => pgCall'[x] = pgCall[x]
    BY <1>1, <2>1 DEF pgAgain
  <2>6. DOMAIN pgOwed' = Servers /\ \A x \in Servers : x # s => pgOwed'[x] = pgOwed[x]
    BY <1>1, <2>1
  <2>. QED BY <1>7, <2>1, <2>4, <2>5, <2>6
<1>. QED BY <1>3, <1>4, <1>5, <1>6, <1>8, <1>9

\* A row more, and a stream that breaks.
LEMMA StreamStep ==
  ASSUME StreamHolds, PgStreamNext
  PROVE  StreamHolds'
<1>. DEFINE st == pgStream
<1>1. CASE \E p \in Callers, r \in Searches : PgRetrieve(p, r)
  <2>1. PICK p \in Callers, r \in Searches : PgRetrieve(p, r)
    BY <1>1
  <2>. DEFINE rows == SetToSeq(pgQuery(pgDb, p, r))
  <2>2. rows \in Seq(Ids) /\ \A i, j \in 1 .. Len(rows) : rows[i] = rows[j] => i = j
    <3>1. pgQuery(pgDb, p, r) \in SUBSET Ids
      BY DEF pgQuery
    <3>. QED BY <3>1, NobodyTwice
  <2>3. pgStream' = [p |-> p, r |-> r, rows |-> rows, got |-> <<>>, sent |-> 0, tries |-> 1, end |-> ""]
    BY <2>1 DEF PgRetrieve, pgOnStream
  <2>. HIDE DEF rows
  <2>. DEFINE got == <<>>
  <2>4. got \in Seq(Ids) /\ Len(got) = 0 /\ 0 <= Len(rows)
    BY <2>2
  <2>5. \A i \in 1 .. Len(got) : got[i] = rows[i]
    BY <2>4
  <2>. HIDE DEF got
  <2>6. pgStream' = [p |-> p, r |-> r, rows |-> rows, got |-> got, sent |-> 0, tries |-> 1, end |-> ""]
    BY <2>3 DEF got
  <2>. QED BY <2>2, <2>4, <2>5, <2>6, StreamRewritten
<1>3. CASE PgStreamRow
  <2>1. /\ st # None /\ st.sent < Len(st.rows)
        /\ pgStream' = [st EXCEPT !.sent = @ + 1, !.got = Append(@, st.rows[st.sent + 1])]
    BY <1>3 DEF PgStreamRow, pgOnStream
  <2>2. st = [p |-> st.p, r |-> st.r, rows |-> st.rows, got |-> st.got, sent |-> st.sent,
              tries |-> st.tries, end |-> st.end]
    BY <2>1 DEF StreamHolds
  <2>. DEFINE n == Len(st.got)  row == st.rows[n + 1]  got == Append(st.got, row)
  <2>3. /\ st.rows \in Seq(Ids) /\ st.got \in Seq(Ids) /\ st.sent = n
        /\ \A i, j \in 1 .. Len(st.rows) : st.rows[i] = st.rows[j] => i = j
        /\ \A i \in 1 .. n : st.got[i] = st.rows[i]
    BY <2>1 DEF StreamHolds
  <2>4. n \in Nat /\ n < Len(st.rows) /\ row \in Ids
    BY <2>1, <2>3
  <2>5. got \in Seq(Ids) /\ Len(got) = n + 1 /\ \A i \in 1 .. n + 1 : got[i] = st.rows[i]
    BY <2>3, <2>4
  <2>6. pgStream' = [p |-> st.p, r |-> st.r, rows |-> st.rows, got |-> got, sent |-> n + 1,
                     tries |-> st.tries, end |-> st.end]
    BY <2>1, <2>2, <2>3
  <2>. DEFINE rows == st.rows  sent == n + 1
  <2>. HIDE DEF n, row, got, st
  <2>7. /\ rows \in Seq(Ids) /\ got \in Seq(Ids) /\ sent = Len(got) /\ Len(got) <= Len(rows)
        /\ \A i, j \in 1 .. Len(rows) : rows[i] = rows[j] => i = j
        /\ \A i \in 1 .. Len(got) : got[i] = rows[i]
    BY <2>3, <2>4, <2>5
  <2>8. pgStream' = [p |-> st.p, r |-> st.r, rows |-> rows, got |-> got, sent |-> sent,
                     tries |-> st.tries, end |-> st.end]
    BY <2>6
  <2>. HIDE DEF rows, sent
  <2>. QED BY <2>7, <2>8, StreamRewritten
<1>4. CASE PgStreamEnd
  <2>1. st # None /\ pgStream' = [st EXCEPT !.end = "nil"]
    BY <1>4 DEF PgStreamEnd, pgOnStream
  <2>. QED BY <2>1 DEF StreamHolds
<1>5. CASE PgStreamBreaks
  <2>1. st # None /\ st.end = ""
    BY <1>5 DEF PgStreamBreaks
  <2>2. CASE \E end : pgStream' = [st EXCEPT !.end = end]
    BY <2>1, <2>2 DEF StreamHolds
  <2>3. CASE st.got = <<>> /\ pgStream' = [st EXCEPT !.tries = @ + 1, !.sent = 0,
                                             !.rows = SetToSeq(pgQuery(pgDb, st.p, st.r))]
    <3>. DEFINE rows == SetToSeq(pgQuery(pgDb, st.p, st.r))
    <3>1. rows \in Seq(Ids) /\ \A i, j \in 1 .. Len(rows) : rows[i] = rows[j] => i = j
      <4>1. pgQuery(pgDb, st.p, st.r) \in SUBSET Ids
        BY DEF pgQuery
      <4>. QED BY <4>1, NobodyTwice
    <3>. HIDE DEF rows
    <3>2. st = [p |-> st.p, r |-> st.r, rows |-> st.rows, got |-> st.got, sent |-> st.sent,
                tries |-> st.tries, end |-> st.end]
      BY <2>1 DEF StreamHolds
    <3>3. pgStream' = [p |-> st.p, r |-> st.r, rows |-> rows, got |-> st.got, sent |-> 0,
                       tries |-> st.tries + 1, end |-> st.end]
      BY <2>3, <3>2 DEF rows
    <3>4. st.got \in Seq(Ids) /\ Len(st.got) = 0
      BY <2>1, <2>3 DEF StreamHolds
    <3>5. 0 <= Len(rows)
      BY <3>1
    <3>. HIDE DEF st
    <3>. QED BY <3>1, <3>3, <3>4, <3>5, StreamRewritten
  <2>. QED BY <1>5, <2>2, <2>3 DEF PgStreamBreaks, pgOnStream
<1>6. CASE PgStreamDone
  BY <1>6 DEF PgStreamDone, pgOnStream, StreamHolds
<1>. QED BY <1>1, <1>3, <1>4, <1>5, <1>6 DEF PgStreamNext
LEMMA PgKeeps ==
  ASSUME CallsHold, StreamHolds, LostAckOps \cap {"delete", "perms"} = {}, [PgNext]_pgVars
  PROVE  CallsHold' /\ StreamHolds'
<1>1. ASSUME UNCHANGED pgCallVars PROVE CallsHold'
  BY <1>1 DEF pgCallVars, CallsHold, CallHolds
<1>2. ASSUME pgStream' = pgStream PROVE StreamHolds'
  BY <1>2 DEF StreamHolds
<1>3. ASSUME NEW s \in Servers,
             \/ \E call : PgBegin(s, call)
             \/ PgLockWrites(s) \/ PgCommit(s) \/ PgChanges(s) \/ PgFail(s) \/ PgLostAck(s)
      PROVE  CallsHold' /\ StreamHolds'
  <2>1. CallsHold'
    BY <1>3, CallStep
  <2>2. pgStream' = pgStream
    BY <1>3 DEF PgBegin, PgLockWrites, PgCommit, PgChanges, PgFail, PgLostAck
  <2>. QED BY <1>2, <2>1, <2>2
<1>4. CASE PgDocNext
  BY <1>3, <1>4, Zenon DEF PgDocNext, PgWorkNext
<1>5. CASE PgOwnNext
  BY <1>3, <1>5, Zenon DEF PgOwnNext
<1>6. CASE PgAnswerNext
  BY <1>3, <1>6, Zenon DEF PgAnswerNext
<1>7. CASE PgVerifyNext \/ PgReportNext \/ PgFeedNext \/ PgHistoryNext
  BY <1>1, <1>2, <1>7 DEF PgVerifyNext, PgReportNext, PgFeedNext, PgHistoryNext, PgVerify, PgUnverify,
     PgReport, PgWithdraw, PgResolve, PgSaveFeed, PgDropFeed, PgRecordOpen, PgTrimOpens, PgTrimFails,
     pgStatement
<1>8. CASE PgStreamNext
  <2>1. UNCHANGED pgCallVars
    BY <1>8 DEF PgStreamNext, PgRetrieve, PgStreamRow, PgStreamEnd, PgStreamBreaks, PgStreamDone,
       pgOnStream
  <2>. QED BY <1>1, <1>8, <2>1, StreamStep
<1>9. CASE PgSchemaNext
  BY <1>1, <1>2, <1>9 DEF PgSchemaNext, PgMigrateBegin, PgMigrate, PgRollback, pgOnSchema
<1>10. CASE \E s \in Servers : PgClose(s)
  BY <1>1, <1>2, <1>10 DEF PgClose
<1>11. CASE UNCHANGED pgVars
  BY <1>1, <1>2, <1>11 DEF pgVars, pgCallVars
<1>. QED BY <1>4, <1>5, <1>6, <1>7, <1>8, <1>9, <1>10, <1>11 DEF PgNext

\* Whoever listens to the reference store or to a server of the PostgreSQL store hears
\* of every change that was committed, and a streamed read hands nobody over twice
\* (notify.go, transact, stream).  Delete and SetPermissions report what they find, so
\* the commit of one of them whose acknowledgement is lost is left out.
THEOREM ChangesAreHeard ==
  ASSUME LostAckOps \cap {"delete", "perms"} = {}
  PROVE  MemSpec /\ PgSpec => []ChangesReach
<1>1. MemInv => SubscribersCatchUp
  BY DEF MemInv, ToldOrPending, SubscribersCatchUp
<1>2. CallsHold => ChangesAreTold
  BY DEF CallsHold, CallHolds, ChangesAreTold
<1>3. StreamHolds => RowsOnce
  <2>. SUFFICES ASSUME StreamHolds, pgStream # None PROVE IsInjective(pgStream.got)
    BY DEF RowsOnce
  <2>1. DOMAIN pgStream.got = 1 .. Len(pgStream.got) /\ Len(pgStream.got) \in Nat
        /\ Len(pgStream.rows) \in Nat
    BY DEF StreamHolds
  <2>. QED BY <2>1 DEF StreamHolds, IsInjective
<1>4. ASSUME CallsHold, StreamHolds, [PgNext]_pgVars PROVE CallsHold' /\ StreamHolds'
  BY <1>4, PgKeeps
<1>5. MemSpec => []SubscribersCatchUp
  BY <1>1, MemStarts, MemKeeps, PTL DEF MemSpec
<1>6. PgSpec => [](ChangesAreTold /\ RowsOnce)
  BY <1>2, <1>3, <1>4, CallsStart, PTL DEF PgSpec
<1>7. SubscribersCatchUp /\ ChangesAreTold /\ RowsOnce => ChangesReach
  BY DEF ChangesReach
<1>. QED BY <1>5, <1>6, <1>7, PTL
-----------------------------------------------------------------------------
(* The permission rule in SQL.                                             *)

LEMMA KeysAreNamed ==
  ASSUME NEW p \in Principals
  PROVE  <<"">> \notin UserKeys(p) /\ <<"">> \notin GroupKeys(p)
<1>1. \A s \in {p.subject} \ {""} : <<s>> # <<"">>
  OBVIOUS
<1>. QED BY <1>1, StoreAssumption DEF StoreAssumption, UserKeys, GroupKeys

LEMMA OwnersKey ==
  ASSUME NEW perms, NEW p
  PROVE  LET key == IF perms.owner.value = "" THEN <<>> ELSE UserKey(perms.owner)
         IN  (key # <<>> /\ key \in UserKeys(p)) <=> isOwner(perms, p)
<1>1. UserKey(perms.owner) # <<>>
  BY DEF UserKey
<1>. QED BY <1>1 DEF isOwner, matchesUser

\* Naming somebody in the rows of references is naming him in the descriptor.
LEMMA PgRefsName ==
  ASSUME NEW perms, NEW p \in Principals, NEW e \in {"allow", "deny"}
  PROVE  LET keys == [user |-> UserKeys(p), group |-> GroupKeys(p)]
             users == IF e = "allow" THEN perms.allowUsers ELSE perms.denyUsers
             groups == IF e = "allow" THEN perms.allowGroups ELSE perms.denyGroups
         IN  (\E r \in pgRefsOf(perms) : r.effect = e /\ r.key \in keys[r.scope])
               <=> matchesUser(p, users) \/ matchesGroup(p, groups)
<1>. DEFINE keys == [user |-> UserKeys(p), group |-> GroupKeys(p)]
            users == IF e = "allow" THEN perms.allowUsers ELSE perms.denyUsers
            groups == IF e = "allow" THEN perms.allowGroups ELSE perms.denyGroups
            part(f) ==
              {[effect |-> f, scope |-> "user", key |-> UserKey(r)] :
                 r \in {x \in (IF f = "allow" THEN perms.allowUsers ELSE perms.denyUsers) :
                          UserKey(x) # <<"">>}}
                \cup
              {[effect |-> f, scope |-> "group", key |-> GroupKey(r)] :
                 r \in {x \in (IF f = "allow" THEN perms.allowGroups ELSE perms.denyGroups) :
                          GroupKey(x) # <<"">>}}
<1>0. \A f \in {"allow", "deny"} : \A r \in part(f) : r \in pgRefsOf(perms)
  <2>1. pgRefsOf(perms) = UNION {part(f) : f \in {"allow", "deny"}}
    BY DEF pgRefsOf
  <2>. HIDE DEF part
  <2>. QED BY <2>1
<1>1. ASSUME NEW r \in pgRefsOf(perms), r.effect = e, r.key \in keys[r.scope]
      PROVE  matchesUser(p, users) \/ matchesGroup(p, groups)
  <2>1. PICK f \in {"allow", "deny"} :
          \/ \E x \in (IF f = "allow" THEN perms.allowUsers ELSE perms.denyUsers) :
               r = [effect |-> f, scope |-> "user", key |-> UserKey(x)]
          \/ \E x \in (IF f = "allow" THEN perms.allowGroups ELSE perms.denyGroups) :
               r = [effect |-> f, scope |-> "group", key |-> GroupKey(x)]
    BY <1>1, ZenonT(40) DEF pgRefsOf
  <2>2. CASE \E x \in (IF f = "allow" THEN perms.allowUsers ELSE perms.denyUsers) :
               r = [effect |-> f, scope |-> "user", key |-> UserKey(x)]
    <3>1. PICK x \in (IF f = "allow" THEN perms.allowUsers ELSE perms.denyUsers) :
            r = [effect |-> f, scope |-> "user", key |-> UserKey(x)]
      BY <2>2
    <3>2. f = e /\ UserKey(x) \in UserKeys(p)
      BY <1>1, <3>1
    <3>. QED BY <3>1, <3>2 DEF matchesUser
  <2>3. CASE \E x \in (IF f = "allow" THEN perms.allowGroups ELSE perms.denyGroups) :
               r = [effect |-> f, scope |-> "group", key |-> GroupKey(x)]
    <3>1. PICK x \in (IF f = "allow" THEN perms.allowGroups ELSE perms.denyGroups) :
            r = [effect |-> f, scope |-> "group", key |-> GroupKey(x)]
      BY <2>3
    <3>2. f = e /\ GroupKey(x) \in GroupKeys(p)
      BY <1>1, <3>1
    <3>. QED BY <3>1, <3>2 DEF matchesGroup
  <2>. QED BY <2>1, <2>2, <2>3
<1>2. ASSUME matchesUser(p, users)
      PROVE  \E r \in pgRefsOf(perms) : r.effect = e /\ r.key \in keys[r.scope]
  <2>1. PICK x \in users : UserKey(x) \in UserKeys(p)
    BY <1>2 DEF matchesUser
  <2>2. UserKey(x) # <<"">>
    BY <2>1, KeysAreNamed
  <2>. DEFINE r == [effect |-> e, scope |-> "user", key |-> UserKey(x)]
  <2>3. r \in pgRefsOf(perms)
    <3>1. r \in {[effect |-> e, scope |-> "user", key |-> UserKey(y)] : y \in {z \in users : UserKey(z) # <<"">>}}
      BY <2>1, <2>2
    <3>2. r \in part(e)
      BY <3>1
    <3>. QED BY <3>2, <1>0
  <2>4. r.effect = e /\ r.key \in keys[r.scope]
    BY <2>1
  <2>. QED BY <2>3, <2>4
<1>3. ASSUME matchesGroup(p, groups)
      PROVE  \E r \in pgRefsOf(perms) : r.effect = e /\ r.key \in keys[r.scope]
  <2>1. PICK x \in groups : GroupKey(x) \in GroupKeys(p)
    BY <1>3 DEF matchesGroup
  <2>2. GroupKey(x) # <<"">>
    BY <2>1, KeysAreNamed
  <2>. DEFINE r == [effect |-> e, scope |-> "group", key |-> GroupKey(x)]
  <2>3. r \in pgRefsOf(perms)
    <3>1. r \in {[effect |-> e, scope |-> "group", key |-> GroupKey(y)] : y \in {z \in groups : GroupKey(z) # <<"">>}}
      BY <2>1, <2>2
    <3>2. r \in part(e)
      BY <3>1
    <3>. QED BY <3>2, <1>0
  <2>4. r.effect = e /\ r.key \in keys[r.scope]
    BY <2>1
  <2>. QED BY <2>3, <2>4
<1>. QED BY <1>1, <1>2, <1>3

\* A document as the reference store shows it to somebody.
Shown(d, p) == d # None /\ Queryable(d) /\ d.tenant = p.tenant /\ Allows(d.perms, p)

LEMMA PgRowFields ==
  ASSUME NEW d
  PROVE  /\ pgRow(d).queryable = Queryable(d)
         /\ pgRow(d).tenant = d.tenant /\ pgRow(d).mode = d.perms.mode
         /\ pgRow(d).ownerKey = IF d.perms.owner.value = "" THEN <<>> ELSE UserKey(d.perms.owner)
<1>1. pgRow(d).queryable = Queryable(d)
  BY DEF pgRow
<1>2. pgRow(d).tenant = d.tenant
  BY DEF pgRow
<1>3. pgRow(d).mode = d.perms.mode
  BY DEF pgRow
<1>4. pgRow(d).ownerKey = IF d.perms.owner.value = "" THEN <<>> ELSE UserKey(d.perms.owner)
  BY DEF pgRow
<1>. QED BY <1>1, <1>2, <1>3, <1>4

\* The predicate every read of the PostgreSQL store joins with is the permission rule.
LEMMA PgSees ==
  ASSUME NEW p \in Principals, NEW db, NEW id, NEW d \in Documents \cup {None},
         db.document[id] = IF d = None THEN None ELSE pgRow(d),
         d # None => db.ref[id] = pgRefsOf(d.perms)
  PROVE  pgVisible(db, p, id) <=> Shown(d, p)
<1>1. CASE d = None
  BY <1>1 DEF pgVisible, Shown
<1>2. CASE d # None
  <2>. DEFINE row == db.document[id]
              keys == [user |-> UserKeys(p), group |-> GroupKeys(p)]
              named(e) == \E r \in db.ref[id] : r.effect = e /\ r.key \in keys[r.scope]
  <2>1. row = pgRow(d) /\ row # None /\ p # None
    BY <1>2, PgAssumption, NoneIsNothing DEF PgAssumption
  <2>2. /\ row.queryable <=> Queryable(d)
        /\ row.tenant = d.tenant /\ row.mode = d.perms.mode
        /\ row.ownerKey = IF d.perms.owner.value = "" THEN <<>> ELSE UserKey(d.perms.owner)
    BY <2>1, PgRowFields
  <2>3. named("deny") <=> matchesUser(p, d.perms.denyUsers) \/ matchesGroup(p, d.perms.denyGroups)
    BY <1>2, PgRefsName
  <2>4. named("allow") <=> matchesUser(p, d.perms.allowUsers) \/ matchesGroup(p, d.perms.allowGroups)
    BY <1>2, PgRefsName
  <2>5. (row.ownerKey # <<>> /\ row.ownerKey \in UserKeys(p)) <=> isOwner(d.perms, p)
    BY <2>2, OwnersKey
  <2>6. pgVisible(db, p, id) <=>
          /\ row.queryable /\ row.tenant = p.tenant
          /\ ~named("deny")
          /\ \/ row.ownerKey # <<>> /\ row.ownerKey \in UserKeys(p)
             \/ row.mode = "public"
             \/ row.mode = "acl" /\ named("allow")
    BY <2>1 DEF pgVisible
  <2>. HIDE DEF row, named
  <2>7. Queryable(d) => d.perms.mode # "unknown"
    BY DEF Queryable
  <2>8. Queryable(d) => (Allows(d.perms, p) <=>
          /\ ~(matchesUser(p, d.perms.denyUsers) \/ matchesGroup(p, d.perms.denyGroups))
          /\ \/ isOwner(d.perms, p)
             \/ d.perms.mode = "public"
             \/ d.perms.mode = "acl" /\ (matchesUser(p, d.perms.allowUsers) \/ matchesGroup(p, d.perms.allowGroups)))
    BY <2>1, <2>7 DEF Allows, Decide
  <2>. QED BY <1>2, <2>2, <2>3, <2>4, <2>5, <2>6, <2>8 DEF Shown
<1>. QED BY <1>1, <1>2
-----------------------------------------------------------------------------
(* What the bulk statements leave in the tables a reader decodes.          *)

PgTables == {"document", "data", "ref", "content", "posting", "corpus", "termStat",
             "open", "feed", "verify", "own", "report", "answer", "phrasing"}

\* The tables the statistics are kept in.
PgCounts3 == {"posting", "corpus", "termStat"}

LEMMA PgRetireLeaves ==
  ASSUME NEW db, DOMAIN db = PgTables, NEW priors, NEW ids
  PROVE  /\ DOMAIN pgRetire(db, priors, ids) = PgTables
         /\ \A f \in PgTables \ PgCounts3 : pgRetire(db, priors, ids)[f] = db[f]
<1>1. PICK a, b, c : pgRetire(db, priors, ids) = [db EXCEPT !.termStat = a, !.corpus = b, !.posting = c]
  BY DEF pgRetire
<1>. QED BY <1>1 DEF PgTables, PgCounts3

LEMMA PgIndexLeaves ==
  ASSUME NEW db, DOMAIN db = PgTables, NEW docs
  PROVE  /\ DOMAIN pgIndex(db, docs) = PgTables
         /\ \A f \in PgTables \ PgCounts3 : pgIndex(db, docs)[f] = db[f]
<1>1. PICK a, b, c : pgIndex(db, docs) = [db EXCEPT !.posting = a, !.termStat = b, !.corpus = c]
  BY DEF pgIndex
<1>. QED BY <1>1 DEF PgTables, PgCounts3

\* The tables new, after a batch was written over the tables db.
PgWritten(db, docs, kept, new) ==
  /\ DOMAIN new = PgTables
  /\ \A f \in {"verify", "report", "answer", "phrasing", "feed", "open"} : new[f] = db[f]
  /\ new.own = [id \in Ids |-> IF id \in DOMAIN docs /\ db.own[id] # None
                               THEN [db.own[id] EXCEPT !.was = docs[id].owner] ELSE db.own[id]]
  /\ new.document = [id \in Ids |-> IF id \in DOMAIN docs THEN pgRow(kept[id]) ELSE db.document[id]]
  /\ new.data = [id \in Ids |-> IF id \in DOMAIN docs THEN [kept[id] EXCEPT !.content = None]
                                ELSE db.data[id]]
  /\ new.ref = [id \in Ids |-> IF id \in DOMAIN docs THEN pgRefsOf(docs[id].perms) ELSE db.ref[id]]
  /\ new.content = [id \in Ids |-> IF id \in DOMAIN docs THEN docs[id].content ELSE db.content[id]]

LEMMA PgWriteDoes ==
  ASSUME NEW db, DOMAIN db = PgTables, NEW docs
  PROVE  PgWritten(db, docs, pgKept(pgRead(db), docs), pgWrite(db, pgRead(db), docs))
<1>. DEFINE ids == DOMAIN docs
            kept == pgKept(pgRead(db), docs)
            out == pgRetire(db, db.document, ids)
            in == pgReplace(out, pgRead(db), docs)
            new == pgWrite(db, pgRead(db), docs)
<1>1. DOMAIN out = PgTables /\ \A f \in PgTables \ PgCounts3 : out[f] = db[f]
  BY PgRetireLeaves
<1>2. pgRead(db).own = db.own /\ pgRead(db).document = db.document
  BY DEF pgRead
<1>3. new = pgIndex(in, kept)
  BY <1>2 DEF pgWrite
<1>. HIDE DEF out, kept
<1>4. /\ DOMAIN in = PgTables
      /\ \A f \in {"verify", "report", "answer", "phrasing", "feed", "open"} : in[f] = out[f]
  BY <1>1 DEF pgReplace, PgTables
<1>5. in.own = [id \in Ids |-> IF id \in ids /\ db.own[id] # None
                               THEN [db.own[id] EXCEPT !.was = docs[id].owner] ELSE db.own[id]]
  BY <1>1, <1>2 DEF pgReplace, PgTables, PgCounts3
<1>6. in.document = [id \in Ids |-> IF id \in ids THEN pgRow(kept[id]) ELSE db.document[id]]
  BY <1>1, <1>2 DEF pgReplace, PgTables, PgCounts3, kept
<1>7. in.data = [id \in Ids |-> IF id \in ids THEN [kept[id] EXCEPT !.content = None] ELSE db.data[id]]
  BY <1>1, <1>2 DEF pgReplace, PgTables, PgCounts3, kept
<1>8. in.ref = [id \in Ids |-> IF id \in ids THEN pgRefsOf(docs[id].perms) ELSE db.ref[id]]
  BY <1>1, <1>2 DEF pgReplace, PgTables, PgCounts3
<1>9. in.content = [id \in Ids |-> IF id \in ids THEN docs[id].content ELSE db.content[id]]
  BY <1>1, <1>2 DEF pgReplace, PgTables, PgCounts3
<1>. HIDE DEF in
<1>10. DOMAIN new = PgTables /\ \A f \in PgTables \ PgCounts3 : new[f] = in[f]
  BY <1>3, <1>4, PgIndexLeaves
<1>. HIDE DEF new
<1>11. \A f \in {"verify", "report", "answer", "phrasing", "feed", "open"} : new[f] = db[f]
  BY <1>1, <1>4, <1>10 DEF PgTables, PgCounts3
<1>12. new.own = in.own /\ new.document = in.document /\ new.data = in.data /\ new.ref = in.ref
       /\ new.content = in.content
  BY <1>10 DEF PgTables, PgCounts3
<1>13. PgWritten(db, docs, kept, new)
  BY <1>5, <1>6, <1>7, <1>8, <1>9, <1>10, <1>11, <1>12 DEF PgWritten
<1>. QED BY <1>13 DEF kept, new

\* The tables new, after documents were removed from the tables db.
PgRemoved(db, found, new) ==
  /\ DOMAIN new = PgTables
  /\ \A f \in {"answer", "phrasing", "feed"} : new[f] = db[f]
  /\ new.document = [id \in Ids |-> IF id \in found THEN None ELSE db.document[id]]
  /\ new.data = [id \in Ids |-> IF id \in found THEN None ELSE db.data[id]]
  /\ new.ref = [id \in Ids |-> IF id \in found THEN {} ELSE db.ref[id]]
  /\ new.content = [id \in Ids |-> IF id \in found THEN None ELSE db.content[id]]
  /\ new.verify = [id \in Ids |-> IF id \in found THEN None ELSE db.verify[id]]
  /\ new.own = [id \in Ids |-> IF id \in found THEN None ELSE db.own[id]]
  /\ new.report = [id \in Ids |-> IF id \in found THEN [k \in ReportKeys |-> 0] ELSE db.report[id]]

LEMMA PgRemoveDoes ==
  ASSUME NEW db, DOMAIN db = PgTables, NEW asked
  PROVE  PgRemoved(db, {id \in asked : db.document[id] # None}, pgRemove(db, pgRead(db), asked))
<1>. DEFINE found == {id \in asked : db.document[id] # None}
            out == pgRetire(db, db.document, found)
            new == pgRemove(db, pgRead(db), asked)
<1>1. DOMAIN out = PgTables /\ \A f \in PgTables \ PgCounts3 : out[f] = db[f]
  BY PgRetireLeaves
<1>2. pgFound(pgRead(db), asked) = found /\ pgRead(db).document = db.document
  BY DEF pgRead, pgFound
<1>3. new = pgDrop(out, found)
  BY <1>2 DEF pgRemove
<1>. HIDE DEF out, found, new
<1>4. DOMAIN new = PgTables /\ \A f \in {"answer", "phrasing", "feed"} : new[f] = out[f]
  BY <1>1, <1>3 DEF pgDrop, PgTables
<1>5. new.document = [id \in Ids |-> IF id \in found THEN None ELSE out.document[id]]
  BY <1>1, <1>3 DEF pgDrop, PgTables
<1>6. new.data = [id \in Ids |-> IF id \in found THEN None ELSE out.data[id]]
  BY <1>1, <1>3 DEF pgDrop, PgTables
<1>7. new.ref = [id \in Ids |-> IF id \in found THEN {} ELSE out.ref[id]]
  BY <1>1, <1>3 DEF pgDrop, PgTables
<1>8. new.content = [id \in Ids |-> IF id \in found THEN None ELSE out.content[id]]
  BY <1>1, <1>3 DEF pgDrop, PgTables
<1>9. new.verify = [id \in Ids |-> IF id \in found THEN None ELSE out.verify[id]]
  BY <1>1, <1>3 DEF pgDrop, PgTables
<1>10. new.own = [id \in Ids |-> IF id \in found THEN None ELSE out.own[id]]
  BY <1>1, <1>3 DEF pgDrop, PgTables
<1>11. new.report = [id \in Ids |-> IF id \in found THEN [k \in ReportKeys |-> 0] ELSE out.report[id]]
  BY <1>1, <1>3 DEF pgDrop, PgTables
<1>12. /\ out.document = db.document /\ out.data = db.data /\ out.ref = db.ref /\ out.content = db.content
       /\ out.verify = db.verify /\ out.own = db.own /\ out.report = db.report
       /\ \A f \in {"answer", "phrasing", "feed"} : out[f] = db[f]
  BY <1>1 DEF PgTables, PgCounts3
<1>13. PgRemoved(db, found, new)
  BY <1>4, <1>5, <1>6, <1>7, <1>8, <1>9, <1>10, <1>11, <1>12 DEF PgRemoved
<1>. QED BY <1>13 DEF found, new

\* The tables new, after the documents hit of the tables db became stored.
PgRedescribed(db, hit, stored, new) ==
  /\ DOMAIN new = PgTables
  /\ \A f \in {"verify", "report", "answer", "phrasing", "feed", "open", "own", "content"} :
       new[f] = db[f]
  /\ new.document = [id \in Ids |->
       IF id \in hit
       THEN pgDescribed(db.document[id], stored[id], id \in pgFlipped(pgRead(db), stored))
       ELSE db.document[id]]
  /\ new.data = [id \in Ids |-> IF id \in hit THEN stored[id] ELSE db.data[id]]
  /\ new.ref = [id \in Ids |-> IF id \in hit THEN pgRefsOf(stored[id].perms) ELSE db.ref[id]]

LEMMA PgDescribeDoes ==
  ASSUME NEW db, DOMAIN db = PgTables, NEW t, NEW asked, NEW q
  PROVE  LET hit == pgSettable(pgRead(db), t, asked)
             stored == [id \in hit |-> [db.data[id] EXCEPT !.perms = q]]
         IN  PgRedescribed(db, hit, stored, pgSetPermissions(db, pgRead(db), t, asked, q))
<1>. DEFINE hit == pgSettable(pgRead(db), t, asked)
            stored == [id \in hit |-> [db.data[id] EXCEPT !.perms = q]]
            flipped == pgFlipped(pgRead(db), stored)
            out == pgRetire(db, db.document, flipped)
            in == pgDescribe(out, pgRead(db), stored)
            new == pgSetPermissions(db, pgRead(db), t, asked, q)
<1>1. DOMAIN out = PgTables /\ \A f \in PgTables \ PgCounts3 : out[f] = db[f]
  BY PgRetireLeaves
<1>2. pgRead(db).document = db.document /\ pgRead(db).data = db.data
  BY DEF pgRead
<1>3. new = pgIndex(in, [id \in flipped |-> stored[id]])
  BY <1>2 DEF pgSetPermissions
<1>4. DOMAIN stored = hit /\ \A id \in hit : stored[id] = [db.data[id] EXCEPT !.perms = q]
  OBVIOUS
<1>. HIDE DEF out, flipped, hit, stored
<1>6. /\ DOMAIN in = PgTables
      /\ \A f \in {"verify", "report", "answer", "phrasing", "feed", "open", "own", "content"} : in[f] = out[f]
  BY <1>1 DEF pgDescribe, PgTables
<1>7. in.document = [id \in Ids |->
                  IF id \in hit THEN pgDescribed(out.document[id], stored[id], id \in flipped)
                  ELSE out.document[id]]
  BY <1>1, <1>4 DEF pgDescribe, PgTables, flipped
<1>8. in.data = [id \in Ids |-> IF id \in hit THEN stored[id] ELSE out.data[id]]
  BY <1>1, <1>4 DEF pgDescribe, PgTables
<1>9. in.ref = [id \in Ids |-> IF id \in hit THEN pgRefsOf(stored[id].perms) ELSE out.ref[id]]
  BY <1>1, <1>4 DEF pgDescribe, PgTables
<1>. HIDE DEF in
<1>10. DOMAIN new = PgTables /\ \A f \in PgTables \ PgCounts3 : new[f] = in[f]
  BY <1>3, <1>6, PgIndexLeaves
<1>. HIDE DEF new
<1>11. \A f \in {"verify", "report", "answer", "phrasing", "feed", "open", "own", "content"} : new[f] = db[f]
  BY <1>1, <1>6, <1>10 DEF PgTables, PgCounts3
<1>12. /\ new.document = in.document /\ new.data = in.data /\ new.ref = in.ref
       /\ out.document = db.document /\ out.data = db.data /\ out.ref = db.ref
  BY <1>1, <1>10 DEF PgTables, PgCounts3
<1>13. /\ new.document = [id \in Ids |->
                  IF id \in hit THEN pgDescribed(db.document[id], stored[id], id \in flipped)
                  ELSE db.document[id]]
       /\ new.data = [id \in Ids |-> IF id \in hit THEN stored[id] ELSE db.data[id]]
       /\ new.ref = [id \in Ids |-> IF id \in hit THEN pgRefsOf(stored[id].perms) ELSE db.ref[id]]
  BY <1>7, <1>8, <1>9, <1>12
<1>14. PgRedescribed(db, hit, stored, new)
  BY <1>10, <1>11, <1>13 DEF PgRedescribed, flipped
<1>. QED BY <1>14 DEF hit, stored, new
-----------------------------------------------------------------------------
(* Every commit of the PostgreSQL store is an operation of the reference   *)
(* store on the data.                                                      *)

\* The tables agree with each other: a document has its row and its references, and
\* nothing is left of one that is gone.
PgAgrees(db) ==
  /\ DOMAIN db = PgTables
  /\ db.data \in [Ids -> Documents \cup {None}]
  /\ db.own \in [Ids -> Corrections \cup {None}]
  /\ db.report \in [Ids -> [ReportKeys -> Times \cup {0}]]
  /\ DOMAIN db.document = Ids /\ DOMAIN db.ref = Ids /\ DOMAIN db.content = Ids /\ DOMAIN db.verify = Ids
  /\ DOMAIN db.answer = Tenants \X AnswerIds /\ DOMAIN db.phrasing = Tenants \X Phrasings
  /\ DOMAIN db.feed = Tenants
  /\ \A id \in Ids :
       /\ db.document[id] = IF db.data[id] = None THEN None ELSE pgRow(db.data[id])
       /\ db.data[id] # None => db.ref[id] = pgRefsOf(db.data[id].perms)
       /\ db.data[id] = None => /\ db.content[id] = None /\ db.verify[id] = None /\ db.own[id] = None
                                /\ db.report[id] = [k \in ReportKeys |-> 0]

\* The owner the source reported last, as the tables hold it.
PgSaidOwner(db, id) ==
  IF db.data[id] = None THEN None ELSE IF db.own[id] = None THEN db.data[id].owner ELSE db.own[id].was

LEMMA PgRowOfContent ==
  ASSUME NEW d \in Documents
  PROVE  pgRow([d EXCEPT !.content = None]) = pgRow(d)
<1>. DEFINE e == [d EXCEPT !.content = None]
<1>1. /\ e.tenant = d.tenant /\ e.source = d.source /\ e.kind = d.kind /\ e.perms = d.perms
      /\ e.author = d.author /\ e.owner = d.owner /\ e.modified = d.modified /\ e.terms = d.terms
      /\ e.version = d.version
  BY DEF Documents
<1>. HIDE DEF e
<1>2. Queryable(e) = Queryable(d)
  BY <1>1 DEF Queryable
<1>3. pgRow(e) = pgRow(d)
  BY <1>1, <1>2 DEF pgRow
<1>. QED BY <1>3 DEF e

LEMMA PgPutIs ==
  ASSUME PgAgrees(pgDb), NEW b \in Batches,
         pgDb' = pgWrite(pgDb, pgRead(pgDb), [id \in Written(b) |-> LastOf(b, id)])
  PROVE  PgAgrees(pgDb') /\ PgRef!memPutAll(b)
<1>. DEFINE docs == [id \in Written(b) |-> LastOf(b, id)]
            W == DOMAIN docs
            kept == pgKept(pgRead(pgDb), docs)
            db == pgDb
            new == pgDb'
<1>1. W \subseteq Ids /\ \A id \in W : docs[id] \in Documents /\ docs[id] = LastOf(b, id)
                                       /\ docs[id].owner \in Owners
  BY LastIsHanded, DocumentFields
<1>2. DOMAIN docs = W /\ W = Written(b)
  OBVIOUS
<1>3. pgRead(db).own = db.own
  BY DEF pgRead
<1>. HIDE DEF docs, kept, W
<1>4. /\ DOMAIN new = PgTables
      /\ \A f \in {"verify", "report", "answer", "phrasing", "feed", "open"} : new[f] = db[f]
      /\ new.own = [id \in Ids |-> IF id \in W /\ db.own[id] # None
                                   THEN [db.own[id] EXCEPT !.was = docs[id].owner] ELSE db.own[id]]
      /\ new.document = [id \in Ids |-> IF id \in W THEN pgRow(kept[id]) ELSE db.document[id]]
      /\ new.data = [id \in Ids |-> IF id \in W THEN [kept[id] EXCEPT !.content = None] ELSE db.data[id]]
      /\ new.ref = [id \in Ids |-> IF id \in W THEN pgRefsOf(docs[id].perms) ELSE db.ref[id]]
      /\ new.content = [id \in Ids |-> IF id \in W THEN docs[id].content ELSE db.content[id]]
  <2>1. DOMAIN db = PgTables /\ new = pgWrite(db, pgRead(db), docs)
    BY DEF PgAgrees, docs
  <2>2. PgWritten(db, docs, kept, new)
    BY <2>1, PgWriteDoes, Zenon DEF kept
  <2>. QED BY <2>2 DEF PgWritten, W
<1>5. ASSUME NEW id \in W
      PROVE  /\ kept[id] \in Documents /\ kept[id].perms = docs[id].perms
             /\ new.data[id] \in Documents /\ new.data[id] # None
             /\ new.data[id] = [docs[id] EXCEPT !.content = None,
                   !.owner = IF db.own[id] = None THEN docs[id].owner ELSE db.own[id].owner]
             /\ new.data[id].perms = docs[id].perms
             /\ pgRow(new.data[id]) = pgRow(kept[id])
             /\ new.own[id] \in Corrections \cup {None}
             /\ PgSaidOwner(new, id) = docs[id].owner
  <2>. DEFINE d == docs[id]  c == db.own[id]  e == [kept[id] EXCEPT !.content = None]
  <2>1. id \in Ids /\ d \in Documents /\ d.owner \in Owners /\ c \in Corrections \cup {None}
    BY <1>1 DEF PgAgrees
  <2>2. kept[id] = IF c # None THEN [d EXCEPT !.owner = c.owner] ELSE d
    BY <1>2, <1>3 DEF kept, pgKept
  <2>3. new.data[id] = e /\ new.own[id] = IF c # None THEN [c EXCEPT !.was = d.owner] ELSE None
    BY <1>4, <2>1
  <2>. HIDE DEF d, c, e
  <2>4. c # None => c \in Corrections /\ c.owner \in Owners
    BY <2>1 DEF Corrections
  <2>5. kept[id] \in Documents /\ kept[id].perms = d.perms
        /\ kept[id].owner = IF c = None THEN d.owner ELSE c.owner
    <3>1. CASE c = None
      BY <2>1, <2>2, <3>1
    <3>2. CASE c # None
      <4>1. [d EXCEPT !.owner = c.owner] \in Documents
        BY <2>1, <2>4, <3>2, OwnerEdit
      <4>2. [d EXCEPT !.owner = c.owner].perms = d.perms /\ [d EXCEPT !.owner = c.owner].owner = c.owner
        BY <2>1 DEF Documents
      <4>. QED BY <2>2, <3>2, <4>1, <4>2
    <3>. QED BY <3>1, <3>2
  <2>6. e \in Documents /\ e # None /\ e.perms = d.perms /\ e.owner = kept[id].owner
    <3>1. e \in Documents
      BY <2>5, ContentEdit DEF e
    <3>2. e.perms = kept[id].perms /\ e.owner = kept[id].owner
      BY <2>5 DEF Documents, e
    <3>. QED BY <2>5, <3>1, <3>2, NoneIsNothing
  <2>7. e = [d EXCEPT !.content = None, !.owner = IF c = None THEN d.owner ELSE c.owner]
    <3>1. CASE c = None
      BY <2>1, <2>2, <3>1 DEF Documents, e
    <3>2. CASE c # None
      BY <2>1, <2>2, <3>2 DEF Documents, e
    <3>. QED BY <3>1, <3>2
  <2>8. pgRow(e) = pgRow(kept[id])
    BY <2>5, PgRowOfContent DEF e
  <2>9. c # None => new.own[id] \in Corrections /\ new.own[id] # None /\ new.own[id].was = d.owner
    <3>. SUFFICES ASSUME c # None PROVE new.own[id] \in Corrections /\ new.own[id] # None /\ new.own[id].was = d.owner
      OBVIOUS
    <3>1. new.own[id] \in Corrections /\ new.own[id].was = d.owner
      BY <2>1, <2>3, <2>4 DEF Corrections
    <3>. QED BY <3>1, NoneIsNothing
  <2>10. PgSaidOwner(new, id) = d.owner
    BY <2>3, <2>5, <2>6, <2>9 DEF PgSaidOwner
  <2>11. new.own[id] \in Corrections \cup {None}
    BY <2>3, <2>9
  <2>. QED BY <2>3, <2>5, <2>6, <2>7, <2>8, <2>10, <2>11 DEF d, c
<1>6. \A id \in Ids : id \notin W => /\ new.data[id] = db.data[id] /\ new.own[id] = db.own[id]
                                     /\ new.document[id] = db.document[id] /\ new.ref[id] = db.ref[id]
                                     /\ new.content[id] = db.content[id]
  BY <1>4
<1>7. PgAgrees(new)
  <2>1. /\ DOMAIN new.data = Ids /\ DOMAIN new.own = Ids /\ DOMAIN new.document = Ids
        /\ DOMAIN new.ref = Ids /\ DOMAIN new.content = Ids
        /\ new.data = [id \in Ids |-> new.data[id]] /\ new.own = [id \in Ids |-> new.own[id]]
    BY <1>4
  <2>2. \A id \in Ids : new.data[id] \in Documents \cup {None} /\ new.own[id] \in Corrections \cup {None}
    BY <1>5, <1>6 DEF PgAgrees
  <2>3. new.data \in [Ids -> Documents \cup {None}] /\ new.own \in [Ids -> Corrections \cup {None}]
    BY <2>1, <2>2
  <2>4. new.verify = db.verify /\ new.report = db.report /\ new.answer = db.answer
        /\ new.phrasing = db.phrasing /\ new.feed = db.feed
    BY <1>4
  <2>5. ASSUME NEW id \in Ids
        PROVE  /\ new.document[id] = IF new.data[id] = None THEN None ELSE pgRow(new.data[id])
               /\ new.data[id] # None => new.ref[id] = pgRefsOf(new.data[id].perms)
               /\ new.data[id] = None => /\ new.content[id] = None /\ new.verify[id] = None
                                         /\ new.own[id] = None
                                         /\ new.report[id] = [k \in ReportKeys |-> 0]
    <3>1. CASE id \in W
      BY <1>4, <1>5, <3>1, ZenonT(40)
    <3>2. CASE id \notin W
      BY <1>6, <2>4, <3>2 DEF PgAgrees
    <3>. QED BY <3>1, <3>2
  <2>. HIDE DEF new
  <2>. QED BY <1>4, <2>1, <2>3, <2>4, <2>5 DEF PgAgrees
<1>8. PgRef!memPutAll(b)
  <2>1. \A id \in Ids : new.data[id] = IF id \in W THEN PgRef!memCorrect(id, LastOf(b, id)) ELSE db.data[id]
    <3>. SUFFICES ASSUME NEW id \in Ids
                  PROVE  new.data[id] = IF id \in W THEN PgRef!memCorrect(id, LastOf(b, id)) ELSE db.data[id]
      OBVIOUS
    <3>1. CASE id \in W
      <4>1. docs[id] = LastOf(b, id)
        BY <1>1, <3>1
      <4>2. new.data[id] = [LastOf(b, id) EXCEPT !.content = None,
                   !.owner = IF db.own[id] = None THEN LastOf(b, id).owner ELSE db.own[id].owner]
        BY <1>5, <3>1, <4>1, ZenonT(40)
      <4>. QED BY <3>1, <4>2, Zenon DEF PgRef!memCorrect
    <3>2. CASE id \notin W
      BY <1>6, <3>2
    <3>. QED BY <3>1, <3>2
  <2>. USE <1>2
  <2>2. new.data = [id \in Ids |-> IF id \in W THEN PgRef!memCorrect(id, LastOf(b, id)) ELSE db.data[id]]
    <3>1. new.data = [id \in Ids |-> new.data[id]]
      BY <1>4
    <3>. QED BY <2>1, <3>1
  <2>3. new.content = [id \in Ids |-> IF id \in W THEN LastOf(b, id).content ELSE db.content[id]]
    BY <1>1, <1>4
  <2>4. new.own = [id \in Ids |-> IF id \in W /\ db.own[id] # None
                                  THEN [db.own[id] EXCEPT !.was = LastOf(b, id).owner] ELSE db.own[id]]
    BY <1>1, <1>4
  <2>5. [id \in Ids |-> PgSaidOwner(new, id)] =
          [id \in Ids |-> IF id \in W THEN LastOf(b, id).owner ELSE PgSaidOwner(db, id)]
    <3>1. \A id \in Ids : PgSaidOwner(new, id) = IF id \in W THEN LastOf(b, id).owner ELSE PgSaidOwner(db, id)
      <4>1. \A id \in W : PgSaidOwner(new, id) = LastOf(b, id).owner
        BY <1>1, <1>5
      <4>2. \A id \in Ids : id \notin W => PgSaidOwner(new, id) = PgSaidOwner(db, id)
        BY <1>6 DEF PgSaidOwner
      <4>. HIDE DEF new, db
      <4>. QED BY <4>1, <4>2
    <3>. QED BY <3>1
  <2>6. new.verify = db.verify /\ new.report = db.report /\ new.answer = db.answer
        /\ new.phrasing = db.phrasing /\ new.feed = db.feed
    BY <1>4
  <2>7. /\ pgDb'.own = [id \in Ids |-> IF id \in W /\ pgDb.own[id] # None
                                  THEN [pgDb.own[id] EXCEPT !.was = LastOf(b, id).owner] ELSE pgDb.own[id]]
        /\ UNCHANGED PgRef!memDeskVars /\ UNCHANGED pgDb.verify /\ UNCHANGED pgDb.report
    BY <2>4, <2>6 DEF PgRef!memDeskVars
  <2>8. [id \in Ids |-> IF pgDb'.data[id] = None THEN None ELSE IF pgDb'.own[id] = None THEN pgDb'.data[id].owner
                        ELSE pgDb'.own[id].was]
         = [id \in Ids |-> IF id \in W THEN LastOf(b, id).owner
                           ELSE IF pgDb.data[id] = None THEN None
                                ELSE IF pgDb.own[id] = None THEN pgDb.data[id].owner ELSE pgDb.own[id].was]
    BY <2>5 DEF PgSaidOwner
  <2>9. UNCHANGED FALSE
    OBVIOUS
  <2>. HIDE DEF db, new
  <2>10. pgDb'.data = [id \in Ids |-> IF id \in Written(b) THEN PgRef!memCorrect(id, LastOf(b, id))
                                      ELSE pgDb.data[id]]
    BY <1>2, <2>2 DEF db, new
  <2>11. pgDb'.content = [id \in Ids |-> IF id \in Written(b) THEN LastOf(b, id).content ELSE pgDb.content[id]]
    BY <1>2, <2>3 DEF db, new
  <2>12. pgDb'.own = [id \in Ids |-> IF id \in Written(b) /\ pgDb.own[id] # None
                                  THEN [pgDb.own[id] EXCEPT !.was = LastOf(b, id).owner] ELSE pgDb.own[id]]
    BY <1>2, <2>7
  <2>. DEFINE said == [id \in Ids |-> IF pgDb.data[id] = None THEN None
                       ELSE IF pgDb.own[id] = None THEN pgDb.data[id].owner ELSE pgDb.own[id].was]
  <2>13. said' = [id \in Ids |-> IF id \in Written(b) THEN LastOf(b, id).owner ELSE said[id]]
    BY <1>2, <2>8
  <2>. QED BY <2>7, <2>9, <2>10, <2>11, <2>12, <2>13, Zenon
              DEF PgRef!memPutAll, PgRef!Written, PgRef!LastOf, Written, LastOf
<1>. QED BY <1>7, <1>8

LEMMA PgDeleteIs ==
  ASSUME PgAgrees(pgDb), NEW ids \in SUBSET Ids,
         pgDb' = pgRemove(pgDb, pgRead(pgDb), ids)
  PROVE  PgAgrees(pgDb') /\ PgRef!memRemove(ids)
<1>. DEFINE db == pgDb
            new == pgDb'
            found == {id \in ids : db.document[id] # None}
            nothing == [k \in ReportKeys |-> 0]
<1>1. PgRemoved(db, found, new)
  <2>1. DOMAIN db = PgTables /\ new = pgRemove(db, pgRead(db), ids)
    BY DEF PgAgrees
  <2>. QED BY <2>1, PgRemoveDoes, Zenon
<1>2. \A id \in Ids : id \in ids /\ id \notin found => db.data[id] = None
  <2>. SUFFICES ASSUME NEW id \in Ids, db.data[id] # None
                PROVE  db.document[id] # None
    OBVIOUS
  <2>1. db.data[id] \in Documents /\ db.document[id] = pgRow(db.data[id])
    BY DEF PgAgrees
  <2>. QED BY <2>1, PgAssumption DEF PgAssumption
<1>3. \A id \in Ids : id \in ids /\ id \notin found =>
        /\ db.data[id] = None /\ db.content[id] = None /\ db.verify[id] = None /\ db.own[id] = None
        /\ db.report[id] = nothing /\ db.document[id] = None
  BY <1>2 DEF PgAgrees
<1>. HIDE DEF db, new, found, nothing
<1>4. \A id \in Ids : id \in found => id \in ids
  BY DEF found
<1>5. new.data = [id \in Ids |-> IF id \in ids THEN None ELSE db.data[id]]
  BY <1>1, <1>3, <1>4 DEF PgRemoved
<1>6. new.content = [id \in Ids |-> IF id \in ids THEN None ELSE db.content[id]]
  BY <1>1, <1>3, <1>4 DEF PgRemoved
<1>7. new.verify = [id \in Ids |-> IF id \in ids THEN None ELSE db.verify[id]]
  BY <1>1, <1>3, <1>4 DEF PgRemoved
<1>8. new.own = [id \in Ids |-> IF id \in ids THEN None ELSE db.own[id]]
  BY <1>1, <1>3, <1>4 DEF PgRemoved
<1>9. new.report = [id \in Ids |-> IF id \in ids THEN nothing ELSE db.report[id]]
  BY <1>1, <1>3, <1>4 DEF PgRemoved, nothing
<1>10. new.document = [id \in Ids |-> IF id \in ids THEN None ELSE db.document[id]]
  BY <1>1, <1>3, <1>4 DEF PgRemoved
<1>11. /\ new.answer = db.answer /\ new.phrasing = db.phrasing /\ new.feed = db.feed
       /\ DOMAIN new = PgTables /\ DOMAIN new.ref = Ids
       /\ \A id \in Ids : id \notin ids => new.ref[id] = db.ref[id]
  BY <1>1, <1>4 DEF PgRemoved
<1>12. PgAgrees(new)
  <2>1. db.data \in [Ids -> Documents \cup {None}] /\ db.own \in [Ids -> Corrections \cup {None}]
        /\ db.report \in [Ids -> [ReportKeys -> Times \cup {0}]]
        /\ DOMAIN db.answer = Tenants \X AnswerIds /\ DOMAIN db.phrasing = Tenants \X Phrasings
        /\ DOMAIN db.feed = Tenants
    BY DEF PgAgrees, db
  <2>2. new.data \in [Ids -> Documents \cup {None}]
    BY <1>5, <2>1
  <2>3. new.own \in [Ids -> Corrections \cup {None}]
    BY <1>8, <2>1
  <2>4. new.report \in [Ids -> [ReportKeys -> Times \cup {0}]]
    <3>1. nothing \in [ReportKeys -> Times \cup {0}]
      BY DEF nothing
    <3>. QED BY <1>9, <2>1, <3>1
  <2>5. ASSUME NEW id \in Ids
        PROVE  /\ new.document[id] = IF new.data[id] = None THEN None ELSE pgRow(new.data[id])
               /\ new.data[id] # None => new.ref[id] = pgRefsOf(new.data[id].perms)
               /\ new.data[id] = None => /\ new.content[id] = None /\ new.verify[id] = None
                                         /\ new.own[id] = None
                                         /\ new.report[id] = nothing
    <3>1. CASE id \in ids
      BY <1>5, <1>6, <1>7, <1>8, <1>9, <1>10, <3>1
    <3>2. CASE id \notin ids
      <4>1. /\ new.data[id] = db.data[id] /\ new.content[id] = db.content[id] /\ new.own[id] = db.own[id]
            /\ new.verify[id] = db.verify[id] /\ new.report[id] = db.report[id]
            /\ new.document[id] = db.document[id] /\ new.ref[id] = db.ref[id]
        BY <1>5, <1>6, <1>7, <1>8, <1>9, <1>10, <1>11, <3>2
      <4>2. /\ db.document[id] = IF db.data[id] = None THEN None ELSE pgRow(db.data[id])
            /\ db.data[id] # None => db.ref[id] = pgRefsOf(db.data[id].perms)
            /\ db.data[id] = None => /\ db.content[id] = None /\ db.verify[id] = None
                                     /\ db.own[id] = None
                                     /\ db.report[id] = nothing
        BY DEF PgAgrees, db, nothing
      <4>. QED BY <4>1, <4>2
    <3>. QED BY <3>1, <3>2
  <2>. QED BY <1>5, <1>6, <1>7, <1>8, <1>9, <1>10, <1>11, <2>1, <2>2, <2>3, <2>4, <2>5 DEF PgAgrees, nothing
<1>13. PgRef!memRemove(ids)
  <2>. DEFINE said == [id \in Ids |-> IF pgDb.data[id] = None THEN None
                       ELSE IF pgDb.own[id] = None THEN pgDb.data[id].owner ELSE pgDb.own[id].was]
  <2>1. said' = [id \in Ids |-> IF id \in ids THEN None ELSE said[id]]
    BY <1>5, <1>8 DEF db, new
  <2>2. UNCHANGED PgRef!memDeskVars /\ UNCHANGED FALSE
    BY <1>11 DEF PgRef!memDeskVars, db, new
  <2>. QED BY <1>5, <1>6, <1>7, <1>8, <1>9, <2>1, <2>2, Zenon
              DEF PgRef!memRemove, db, new, nothing, PgRef!ReportKeys, ReportKeys, PgRef!ReportKey,
                  ReportKey, PgRef!PrincipalKeys, PrincipalKeys
<1>. QED BY <1>12, <1>13 DEF new

\* A row whose descriptor columns are written again is the row of the new document.
LEMMA PgRowOfPerms ==
  ASSUME NEW d \in Documents, NEW q \in Descriptors, NEW flipped \in BOOLEAN,
         flipped = (Queryable(d) # Queryable([d EXCEPT !.perms = q]))
  PROVE  pgDescribed(pgRow(d), [d EXCEPT !.perms = q], flipped) = pgRow([d EXCEPT !.perms = q])
<1>. DEFINE e == [d EXCEPT !.perms = q]
            row == pgRow(d)
<1>1. /\ e.tenant = d.tenant /\ e.source = d.source /\ e.kind = d.kind /\ e.perms = q
      /\ e.author = d.author /\ e.owner = d.owner /\ e.modified = d.modified /\ e.terms = d.terms
      /\ e.version = d.version
  BY DEF Documents
<1>. HIDE DEF e
<1>2. row = [tenant |-> d.tenant, source |-> d.source, kind |-> d.kind,
             authorKeys |-> PersonKeys(d.author), ownerKeys |-> PersonKeys(d.owner),
             modified |-> d.modified, mode |-> d.perms.mode,
             ownerKey |-> row.ownerKey, queryable |-> Queryable(d), version |-> d.version,
             tokens |-> Cardinality(d.terms), terms |-> IF Queryable(d) THEN d.terms ELSE {}]
  BY DEF pgRow
<1>3. pgRow(e) = [tenant |-> d.tenant, source |-> d.source, kind |-> d.kind,
             authorKeys |-> PersonKeys(d.author), ownerKeys |-> PersonKeys(d.owner),
             modified |-> d.modified, mode |-> e.perms.mode,
             ownerKey |-> pgRow(e).ownerKey, queryable |-> Queryable(e), version |-> d.version,
             tokens |-> Cardinality(d.terms), terms |-> IF Queryable(e) THEN d.terms ELSE {}]
  BY <1>1 DEF pgRow
<1>4. pgRow(e).terms = IF Queryable(e) THEN d.terms ELSE {}
  BY <1>3
<1>. DEFINE words == IF flipped THEN pgRow(e).terms ELSE row.terms
<1>5. pgDescribed(row, e, flipped) =
        [row EXCEPT !.mode = e.perms.mode, !.ownerKey = pgRow(e).ownerKey, !.queryable = Queryable(e),
                    !.terms = words]
  BY DEF pgDescribed
<1>6. words = IF Queryable(e) THEN d.terms ELSE {}
  <2>1. Queryable(e) \in BOOLEAN /\ Queryable(d) \in BOOLEAN
    BY DEF Queryable
  <2>2. row.terms = IF Queryable(d) THEN d.terms ELSE {}
    BY <1>2
  <2>3. CASE flipped
    BY <1>4, <2>3
  <2>4. CASE ~flipped
    <3>1. Queryable(d) = Queryable(e)
      BY <2>4 DEF e
    <3>. QED BY <2>2, <2>4, <3>1
  <2>. QED BY <2>3, <2>4
<1>. HIDE DEF words, row
<1>. DEFINE ak == PersonKeys(d.author)  ok == PersonKeys(d.owner)  n == Cardinality(d.terms)
            ow == row.ownerKey  ow2 == pgRow(e).ownerKey  q1 == Queryable(d)  q2 == Queryable(e)
            w == IF Queryable(d) THEN d.terms ELSE {}
<1>7. [row EXCEPT !.mode = e.perms.mode, !.ownerKey = ow2, !.queryable = q2, !.terms = words] =
        [tenant |-> d.tenant, source |-> d.source, kind |-> d.kind, authorKeys |-> ak, ownerKeys |-> ok,
         modified |-> d.modified, mode |-> e.perms.mode, ownerKey |-> ow2, queryable |-> q2,
         version |-> d.version, tokens |-> n, terms |-> words]
  <2>1. row = [tenant |-> d.tenant, source |-> d.source, kind |-> d.kind, authorKeys |-> ak, ownerKeys |-> ok,
               modified |-> d.modified, mode |-> d.perms.mode, ownerKey |-> ow, queryable |-> q1,
               version |-> d.version, tokens |-> n, terms |-> w]
    BY <1>2
  <2>. DEFINE mode == d.perms.mode  mode2 == e.perms.mode
              r1 == [row EXCEPT !.mode = mode2]
              r2 == [r1 EXCEPT !.ownerKey = ow2]
              r3 == [r2 EXCEPT !.queryable = q2]
              r4 == [r3 EXCEPT !.terms = words]
  <2>2. [row EXCEPT !.mode = mode2, !.ownerKey = ow2, !.queryable = q2, !.terms = words] = r4
    OBVIOUS
  <2>. HIDE DEF ak, ok, n, ow, ow2, q1, q2, w, mode, mode2
  <2>3. r1 = [tenant |-> d.tenant, source |-> d.source, kind |-> d.kind, authorKeys |-> ak, ownerKeys |-> ok,
             modified |-> d.modified, mode |-> mode2, ownerKey |-> ow, queryable |-> q1,
             version |-> d.version, tokens |-> n, terms |-> w]
    BY <2>1
  <2>. HIDE DEF r1
  <2>4. r2 = [tenant |-> d.tenant, source |-> d.source, kind |-> d.kind, authorKeys |-> ak, ownerKeys |-> ok,
             modified |-> d.modified, mode |-> mode2, ownerKey |-> ow2, queryable |-> q1,
             version |-> d.version, tokens |-> n, terms |-> w]
    BY <2>3
  <2>. HIDE DEF r2
  <2>5. r3 = [tenant |-> d.tenant, source |-> d.source, kind |-> d.kind, authorKeys |-> ak, ownerKeys |-> ok,
             modified |-> d.modified, mode |-> mode2, ownerKey |-> ow2, queryable |-> q2,
             version |-> d.version, tokens |-> n, terms |-> w]
    BY <2>4
  <2>. HIDE DEF r3
  <2>6. r4 = [tenant |-> d.tenant, source |-> d.source, kind |-> d.kind, authorKeys |-> ak, ownerKeys |-> ok,
             modified |-> d.modified, mode |-> mode2, ownerKey |-> ow2, queryable |-> q2,
             version |-> d.version, tokens |-> n, terms |-> words]
    BY <2>5
  <2>. QED BY <2>2, <2>6, Zenon DEF mode2
<1>8. pgDescribed(row, e, flipped) = pgRow(e)
  BY <1>3, <1>5, <1>6, <1>7, Zenon
<1>. QED BY <1>8 DEF row, e

LEMMA PgPermsIs ==
  ASSUME PgAgrees(pgDb), NEW t, NEW ids \in SUBSET Ids, NEW q \in Descriptors,
         pgDb' = pgSetPermissions(pgDb, pgRead(pgDb), t, ids, q)
  PROVE  PgAgrees(pgDb') /\ PgRef!memSetAll(t, [id \in ids |-> q])
<1>. DEFINE db == pgDb
            new == pgDb'
            hit == pgSettable(pgRead(db), t, ids)
            stored == [id \in hit |-> [db.data[id] EXCEPT !.perms = q]]
            flipped == pgFlipped(pgRead(db), stored)
            affected == {id \in ids : db.data[id] # None /\ db.data[id].tenant = t}
<1>1. PgRedescribed(db, hit, stored, new)
  <2>1. DOMAIN db = PgTables /\ new = pgSetPermissions(db, pgRead(db), t, ids, q)
    BY DEF PgAgrees
  <2>. QED BY <2>1, PgDescribeDoes, Zenon
<1>2. /\ db.data \in [Ids -> Documents \cup {None}]
      /\ \A id \in Ids :
          /\ db.document[id] = IF db.data[id] = None THEN None ELSE pgRow(db.data[id])
          /\ db.data[id] # None => db.ref[id] = pgRefsOf(db.data[id].perms)
  BY DEF PgAgrees
<1>3. hit = affected
  <2>1. pgRead(db).document = db.document
    BY DEF pgRead
  <2>2. \A id \in Ids : db.data[id] # None => db.document[id] # None /\ db.document[id].tenant = db.data[id].tenant
    BY <1>2, PgAssumption, PgRowFields DEF PgAssumption
  <2>3. hit = {id \in {x \in ids : db.document[x] # None} : db.document[id].tenant = t}
    BY <2>1 DEF pgSettable, pgFound
  <2>. QED BY <1>2, <2>2, <2>3
<1>4. ASSUME NEW id \in hit
      PROVE  /\ id \in Ids /\ stored[id] = [db.data[id] EXCEPT !.perms = q]
             /\ stored[id] \in Documents /\ stored[id] # None /\ stored[id].owner = db.data[id].owner
             /\ pgDescribed(db.document[id], stored[id], id \in flipped) = pgRow(stored[id])
             /\ db.data[id] # None
  <2>1. id \in Ids /\ db.data[id] \in Documents /\ db.data[id] # None
        /\ db.document[id] = pgRow(db.data[id])
    BY <1>2, <1>3
  <2>2. stored[id] = [db.data[id] EXCEPT !.perms = q]
    OBVIOUS
  <2>3. stored[id] \in Documents
    BY <2>1, <2>2, PermsEdit
  <2>4. stored[id].owner = db.data[id].owner
    BY <2>1, <2>2 DEF Documents
  <2>5. (id \in flipped) = (Queryable(db.data[id]) # Queryable(stored[id]))
    <3>1. pgRead(db).document[id] = pgRow(db.data[id]) /\ DOMAIN stored = hit
      BY <2>1 DEF pgRead
    <3>2. pgRow(db.data[id]).queryable = Queryable(db.data[id])
      BY PgRowFields
    <3>. HIDE DEF hit, stored
    <3>3. id \in flipped <=> pgRead(db).document[id].queryable # Queryable(stored[id])
      BY <3>1 DEF pgFlipped
    <3>. QED BY <3>1, <3>2, <3>3
  <2>. HIDE DEF flipped, stored, hit
  <2>6. pgDescribed(pgRow(db.data[id]), stored[id], id \in flipped) = pgRow(stored[id])
    BY <2>1, <2>2, <2>5, PgRowOfPerms
  <2>. QED BY <2>1, <2>2, <2>3, <2>4, <2>6, NoneIsNothing
<1>. HIDE DEF db, new, hit, stored, flipped
<1>5. /\ new.data = [id \in Ids |-> IF id \in hit THEN stored[id] ELSE db.data[id]]
      /\ new.verify = db.verify /\ new.report = db.report /\ new.answer = db.answer
      /\ new.phrasing = db.phrasing /\ new.feed = db.feed /\ new.own = db.own /\ new.content = db.content
      /\ DOMAIN new = PgTables /\ DOMAIN new.document = Ids /\ DOMAIN new.ref = Ids
      /\ \A id \in hit : new.document[id] = pgRow(stored[id]) /\ new.ref[id] = pgRefsOf(stored[id].perms)
      /\ \A id \in Ids : id \notin hit => new.document[id] = db.document[id] /\ new.ref[id] = db.ref[id]
  BY <1>1, <1>4, ZenonT(40) DEF PgRedescribed, flipped
<1>6. PgAgrees(new)
  <2>1. new.data \in [Ids -> Documents \cup {None}]
    <3>1. \A id \in Ids : (IF id \in hit THEN stored[id] ELSE db.data[id]) \in Documents \cup {None}
      BY <1>2, <1>4
    <3>. QED BY <1>5, <3>1
  <2>2. ASSUME NEW id \in Ids
        PROVE  /\ new.document[id] = IF new.data[id] = None THEN None ELSE pgRow(new.data[id])
               /\ new.data[id] # None => new.ref[id] = pgRefsOf(new.data[id].perms)
               /\ new.data[id] = None => db.data[id] = None
    <3>1. CASE id \in hit
      BY <1>4, <1>5, <3>1
    <3>2. CASE id \notin hit
      BY <1>2, <1>5, <3>2
    <3>. QED BY <3>1, <3>2
  <2>3. PgAgrees(db)
    BY DEF db
  <2>. QED BY <1>5, <2>1, <2>2, <2>3 DEF PgAgrees
<1>7. PgRef!memSetAll(t, [id \in ids |-> q])
  <2>. DEFINE perms == [id \in ids |-> q]
              said == [id \in Ids |-> IF pgDb.data[id] = None THEN None
                       ELSE IF pgDb.own[id] = None THEN pgDb.data[id].owner ELSE pgDb.own[id].was]
  <2>1. PgRef!memAffected(t, perms) = affected
    BY DEF PgRef!memAffected, db
  <2>2. \A id \in affected : perms[id] = q
    OBVIOUS
  <2>3. said' = said
    <3>1. \A id \in Ids : (new.data[id] = None <=> db.data[id] = None) /\ new.own[id] = db.own[id]
                          /\ (db.data[id] # None => new.data[id].owner = db.data[id].owner)
      <4>. SUFFICES ASSUME NEW id \in Ids
                    PROVE  /\ new.data[id] = None <=> db.data[id] = None
                           /\ new.own[id] = db.own[id]
                           /\ db.data[id] # None => new.data[id].owner = db.data[id].owner
        OBVIOUS
      <4>1. new.data[id] = IF id \in hit THEN stored[id] ELSE db.data[id]
        BY <1>5
      <4>2. CASE id \in hit
        BY <1>4, <1>5, <4>1, <4>2
      <4>3. CASE id \notin hit
        BY <1>5, <4>1, <4>3
      <4>. QED BY <4>2, <4>3
    <3>2. said = [id \in Ids |-> PgSaidOwner(db, id)] /\ said' = [id \in Ids |-> PgSaidOwner(new, id)]
      BY DEF PgSaidOwner, db, new
    <3>3. \A id \in Ids : PgSaidOwner(new, id) = PgSaidOwner(db, id)
      BY <3>1 DEF PgSaidOwner
    <3>. QED BY <3>2, <3>3
  <2>. HIDE DEF perms, affected
  <2>4. new.data = [id \in Ids |-> IF id \in PgRef!memAffected(t, perms)
                                   THEN [db.data[id] EXCEPT !.perms = perms[id]] ELSE db.data[id]]
    BY <1>3, <1>4, <1>5, <2>1, <2>2
  <2>5. UNCHANGED PgRef!memDeskVars /\ UNCHANGED FALSE
    BY <1>5 DEF PgRef!memDeskVars, db, new
  <2>6. PgRef!memSetAll(t, perms)
    BY <1>5, <2>3, <2>4, <2>5, Zenon DEF PgRef!memSetAll, db, new
  <2>. QED BY <2>6 DEF perms
<1>. QED BY <1>6, <1>7 DEF new

\* A row whose owner column is written again is the row of the new document.
LEMMA PgRowOfOwner ==
  ASSUME NEW d \in Documents, NEW who \in Owners
  PROVE  [pgRow(d) EXCEPT !.ownerKeys = PersonKeys(who)] = pgRow([d EXCEPT !.owner = who])
<1>. DEFINE e == [d EXCEPT !.owner = who]
            row == pgRow(d)
            ak == PersonKeys(d.author)  ok == PersonKeys(d.owner)  ok2 == PersonKeys(who)
            n == Cardinality(d.terms)  ow == row.ownerKey  q == Queryable(d)
            w == IF Queryable(d) THEN d.terms ELSE {}
            mode == d.perms.mode
<1>1. /\ e.tenant = d.tenant /\ e.source = d.source /\ e.kind = d.kind /\ e.perms = d.perms
      /\ e.author = d.author /\ e.owner = who /\ e.modified = d.modified /\ e.terms = d.terms
      /\ e.version = d.version
  BY DEF Documents
<1>. HIDE DEF e
<1>2. row = [tenant |-> d.tenant, source |-> d.source, kind |-> d.kind, authorKeys |-> ak, ownerKeys |-> ok,
             modified |-> d.modified, mode |-> mode, ownerKey |-> ow, queryable |-> q,
             version |-> d.version, tokens |-> n, terms |-> w]
  BY DEF pgRow
<1>3. Queryable(e) = q
  BY <1>1 DEF Queryable
<1>4. pgRow(e) = [tenant |-> d.tenant, source |-> d.source, kind |-> d.kind, authorKeys |-> ak,
             ownerKeys |-> ok2, modified |-> d.modified, mode |-> mode, ownerKey |-> ow, queryable |-> q,
             version |-> d.version, tokens |-> n, terms |-> w]
  <2>1. ow = IF d.perms.owner.value = "" THEN <<>> ELSE UserKey(d.perms.owner)
    BY PgRowFields
  <2>. QED BY <1>1, <1>3, <2>1 DEF pgRow
<1>. HIDE DEF row, ak, ok, ok2, n, ow, q, w, mode
<1>5. [row EXCEPT !.ownerKeys = ok2] =
            [tenant |-> d.tenant, source |-> d.source, kind |-> d.kind, authorKeys |-> ak,
             ownerKeys |-> ok2, modified |-> d.modified, mode |-> mode, ownerKey |-> ow, queryable |-> q,
             version |-> d.version, tokens |-> n, terms |-> w]
  BY <1>2
<1>. QED BY <1>4, <1>5, Zenon DEF row, ok2, e

\* The tables new, after the owner of a document and what is kept of its correction were
\* written to the tables db.
PgOwned(db, id, c, who, new) ==
  /\ DOMAIN new = PgTables
  /\ \A f \in PgTables \ {"own", "data", "document"} : new[f] = db[f]
  /\ new.own = [db.own EXCEPT ![id] = c]
  /\ new.data = [db.data EXCEPT ![id] = [db.data[id] EXCEPT !.owner = who]]
  /\ new.document = [db.document EXCEPT ![id] = [db.document[id] EXCEPT !.ownerKeys = PersonKeys(who)]]

LEMMA PgOwnDoes ==
  ASSUME NEW db, DOMAIN db = PgTables, NEW id, NEW c, NEW who
  PROVE  PgOwned(db, id, c, who, pgWriteOwner([db EXCEPT !.own[id] = c], id, db.data[id], who))
<1>. DEFINE in == [db EXCEPT !.own[id] = c]
            new == pgWriteOwner(in, id, db.data[id], who)
<1>1. /\ DOMAIN in = PgTables /\ in.own = [db.own EXCEPT ![id] = c]
      /\ \A f \in PgTables \ {"own"} : in[f] = db[f]
  BY DEF PgTables
<1>. HIDE DEF in
<1>2. DOMAIN new = PgTables /\ \A f \in PgTables \ {"data", "document"} : new[f] = in[f]
  BY <1>1 DEF pgWriteOwner, PgTables
<1>3. new.data = [in.data EXCEPT ![id] = [db.data[id] EXCEPT !.owner = who]]
  BY <1>1 DEF pgWriteOwner, PgTables
<1>4. new.document = [in.document EXCEPT ![id] = [in.document[id] EXCEPT !.ownerKeys = PersonKeys(who)]]
  BY <1>1 DEF pgWriteOwner, PgTables
<1>. HIDE DEF new
<1>5. in.data = db.data /\ in.document = db.document
  BY <1>1 DEF PgTables
<1>6. new.own = in.own
  BY <1>2 DEF PgTables
<1>7. PgOwned(db, id, c, who, new)
  BY <1>1, <1>2, <1>3, <1>4, <1>5, <1>6 DEF PgOwned
<1>. QED BY <1>7 DEF new, in

LEMMA PgOwnerIs ==
  ASSUME PgAgrees(pgDb), NEW id \in Ids, pgDb.data[id] # None, NEW who \in Owners,
         NEW c \in Corrections \cup {None},
         PgSaidOwner(pgDb, id) = IF c = None THEN who ELSE c.was,
         PgOwned(pgDb, id, c, who, pgDb')
  PROVE  /\ PgAgrees(pgDb')
         /\ pgDb'.own = [pgDb.own EXCEPT ![id] = c]
         /\ pgDb'.data = [pgDb.data EXCEPT ![id].owner = who]
         /\ [x \in Ids |-> PgSaidOwner(pgDb', x)] = [x \in Ids |-> PgSaidOwner(pgDb, x)]
         /\ UNCHANGED <<pgDb.content, pgDb.verify, pgDb.report, pgDb.answer, pgDb.phrasing, pgDb.feed>>
<1>. DEFINE db == pgDb
            new == pgDb'
            d == db.data[id]
            e == [d EXCEPT !.owner = who]
<1>1. /\ d \in Documents /\ d # None /\ db.document[id] = pgRow(d) /\ db.ref[id] = pgRefsOf(d.perms)
      /\ db.data \in [Ids -> Documents \cup {None}] /\ db.own \in [Ids -> Corrections \cup {None}]
      /\ DOMAIN db.document = Ids
  BY DEF PgAgrees
<1>2. /\ DOMAIN new = PgTables
      /\ new.own = [db.own EXCEPT ![id] = c] /\ new.data = [db.data EXCEPT ![id] = e]
      /\ new.document = [db.document EXCEPT ![id] = [db.document[id] EXCEPT !.ownerKeys = PersonKeys(who)]]
      /\ new.ref = db.ref /\ new.content = db.content /\ new.verify = db.verify /\ new.report = db.report
      /\ new.answer = db.answer /\ new.phrasing = db.phrasing /\ new.feed = db.feed
  BY DEF PgOwned, PgTables
<1>3. e \in Documents /\ e # None /\ e.perms = d.perms /\ e.owner = who
  <2>1. e \in Documents
    BY <1>1, OwnerEdit
  <2>2. e.perms = d.perms /\ e.owner = who
    BY <1>1 DEF Documents
  <2>. QED BY <2>1, <2>2, NoneIsNothing
<1>4. [db.document[id] EXCEPT !.ownerKeys = PersonKeys(who)] = pgRow(e)
  BY <1>1, PgRowOfOwner
<1>. HIDE DEF db, new, d, e
<1>5. /\ new.data[id] = e /\ new.document[id] = pgRow(e) /\ new.own[id] = c
      /\ \A x \in Ids : x # id => /\ new.data[x] = db.data[x] /\ new.document[x] = db.document[x]
                                  /\ new.own[x] = db.own[x]
      /\ DOMAIN new.document = Ids
  BY <1>1, <1>2, <1>4
<1>6. PgAgrees(new)
  <2>1. new.data \in [Ids -> Documents \cup {None}] /\ new.own \in [Ids -> Corrections \cup {None}]
    BY <1>1, <1>2, <1>3
  <2>2. PgAgrees(db)
    BY DEF db
  <2>3. ASSUME NEW x \in Ids
        PROVE  /\ new.document[x] = IF new.data[x] = None THEN None ELSE pgRow(new.data[x])
               /\ new.data[x] # None => new.ref[x] = pgRefsOf(new.data[x].perms)
               /\ new.data[x] = None => /\ new.content[x] = None /\ new.verify[x] = None
                                        /\ new.own[x] = None
                                        /\ new.report[x] = [k \in ReportKeys |-> 0]
    <3>1. CASE x = id
      BY <1>1, <1>2, <1>3, <1>5, <3>1
    <3>2. CASE x # id
      BY <1>2, <1>5, <2>2, <3>2 DEF PgAgrees
    <3>. QED BY <3>1, <3>2
  <2>. QED BY <1>2, <1>5, <2>1, <2>2, <2>3 DEF PgAgrees
<1>7. new.data = [db.data EXCEPT ![id].owner = who]
  BY <1>2 DEF d, e
<1>8. \A x \in Ids : PgSaidOwner(new, x) = PgSaidOwner(db, x)
  <2>1. PgSaidOwner(new, id) = PgSaidOwner(db, id)
    BY <1>3, <1>5 DEF PgSaidOwner, db
  <2>2. \A x \in Ids : x # id => PgSaidOwner(new, x) = PgSaidOwner(db, x)
    BY <1>5 DEF PgSaidOwner
  <2>. QED BY <2>1, <2>2
<1>9. [x \in Ids |-> PgSaidOwner(new, x)] = [x \in Ids |-> PgSaidOwner(db, x)]
  BY <1>8
<1>. QED BY <1>2, <1>6, <1>7, <1>9 DEF db, new

\* The reader of the tables and the reader of the reference store see the same documents.
LEMMA PgSeesAsRef ==
  ASSUME PgAgrees(pgDb), NEW p \in Principals, NEW id \in Ids
  PROVE  /\ pgVisible(pgDb, p, id) <=> PgRef!memVisible(p, id)
         /\ pgVisible(pgRead(pgDb), p, id) <=> PgRef!memVisible(p, id)
         /\ pgVisible(pgDb, p, id) => pgDb.data[id] \in Documents /\ pgDb.data[id] # None
<1>. DEFINE d == pgDb.data[id]
<1>1. /\ d \in Documents \cup {None}
      /\ pgDb.document[id] = IF d = None THEN None ELSE pgRow(d)
      /\ d # None => pgDb.ref[id] = pgRefsOf(d.perms)
  BY DEF PgAgrees
<1>2. pgVisible(pgDb, p, id) <=> Shown(d, p)
  BY <1>1, PgSees
<1>3. pgVisible(pgRead(pgDb), p, id) <=> Shown(d, p)
  <2>1. pgRead(pgDb).document = pgDb.document /\ pgRead(pgDb).ref = pgDb.ref
    BY DEF pgRead
  <2>. DEFINE r == pgRead(pgDb)
  <2>2. r.document[id] = (IF d = None THEN None ELSE pgRow(d)) /\ (d # None => r.ref[id] = pgRefsOf(d.perms))
    BY <1>1, <2>1
  <2>. HIDE DEF r
  <2>3. pgVisible(r, p, id) <=> Shown(d, p)
    BY <1>1, <2>2, PgSees
  <2>. QED BY <2>3 DEF r
<1>4. PgRef!memVisible(p, id) <=> Shown(d, p)
  BY Zenon DEF PgRef!memVisible, Shown, PgRef!Queryable, Queryable, PgRef!Allows, Allows, PgRef!Decide,
         Decide, PgRef!matchesUser, matchesUser, PgRef!matchesGroup, matchesGroup, PgRef!isOwner, isOwner,
         PgRef!UserKeys, UserKeys, PgRef!GroupKeys, GroupKeys, PgRef!UserKey, UserKey, PgRef!GroupKey, GroupKey
<1>. QED BY <1>1, <1>2, <1>3, <1>4 DEF Shown

LEMMA PgSetOwnerIs ==
  ASSUME PgAgrees(pgDb), NEW p \in Callers, NEW id \in Ids, NEW who \in People,
         pgDb' = pgSetOwner(pgDb, pgRead(pgDb), p, id, who)
  PROVE  PgAgrees(pgDb') /\ (PgRef!MemSetOwner(p, id, who) \/ pgDb' = pgDb)
<1>. DEFINE db == pgDb
            was == IF db.own[id] # None THEN db.own[id].was ELSE db.data[id].owner
            c == [owner |-> who, was |-> was]
<1>0. p \in Principals
  BY StoreAssumption DEF StoreAssumption
<1>1. CASE ~pgVisible(pgRead(db), p, id)
  BY <1>1 DEF pgSetOwner
<1>2. CASE pgVisible(pgRead(db), p, id)
  <2>1. PgRef!memVisible(p, id) /\ db.data[id] \in Documents /\ db.data[id] # None
    BY <1>0, <1>2, PgSeesAsRef
  <2>2. was \in Owners /\ who \in Owners
    <3>1. db.own[id] \in Corrections \cup {None}
      BY DEF PgAgrees
    <3>. QED BY <2>1, <3>1, DocumentFields DEF Corrections, Owners
  <2>3. c \in Corrections
    BY <2>2 DEF Corrections
  <2>4. pgDb' = pgWriteOwner([db EXCEPT !.own[id] = c], id, db.data[id], who)
    <3>1. pgRead(db).own = db.own /\ pgRead(db).data = db.data
      BY DEF pgRead
    <3>2. (IF pgRead(db).own[id] = None THEN pgRead(db).data[id].owner ELSE pgRead(db).own[id].was) = was
      BY <3>1
    <3>3. pgDb' = pgWriteOwner([db EXCEPT !.own[id] = [owner |-> who, was |->
             IF pgRead(db).own[id] = None THEN pgRead(db).data[id].owner ELSE pgRead(db).own[id].was]],
             id, pgRead(db).data[id], who)
      BY <1>2 DEF pgSetOwner
    <3>. QED BY <3>1, <3>2, <3>3
  <2>5. PgOwned(db, id, c, who, pgDb')
    <3>1. DOMAIN db = PgTables
      BY DEF PgAgrees
    <3>. HIDE DEF c
    <3>. QED BY <2>4, <3>1, PgOwnDoes, Zenon
  <2>6. PgSaidOwner(db, id) = IF c = None THEN who ELSE c.was
    BY <2>1, <2>3, NoneIsNothing DEF PgSaidOwner
  <2>. HIDE DEF c
  <2>7. /\ PgAgrees(pgDb')
        /\ pgDb'.own = [pgDb.own EXCEPT ![id] = c]
        /\ pgDb'.data = [pgDb.data EXCEPT ![id].owner = who]
        /\ [x \in Ids |-> PgSaidOwner(pgDb', x)] = [x \in Ids |-> PgSaidOwner(pgDb, x)]
        /\ UNCHANGED <<pgDb.content, pgDb.verify, pgDb.report, pgDb.answer, pgDb.phrasing, pgDb.feed>>
    BY <2>1, <2>2, <2>3, <2>5, <2>6, PgOwnerIs
  <2>. DEFINE said == [x \in Ids |-> IF pgDb.data[x] = None THEN None
                       ELSE IF pgDb.own[x] = None THEN pgDb.data[x].owner ELSE pgDb.own[x].was]
  <2>8. said' = said
    BY <2>7, Zenon DEF PgSaidOwner
  <2>9. UNCHANGED PgRef!memDeskVars /\ UNCHANGED PgRef!memTellVars /\ UNCHANGED FALSE
    BY <2>7 DEF PgRef!memDeskVars, PgRef!memTellVars
  <2>10. PgRef!MemSetOwner(p, id, who)
    BY <2>1, <2>7, <2>8, <2>9, Zenon DEF PgRef!MemSetOwner, c
  <2>. QED BY <2>7, <2>10
<1>. QED BY <1>1, <1>2

LEMMA PgClearOwnerIs ==
  ASSUME PgAgrees(pgDb), NEW p \in Callers, NEW id \in Ids,
         pgDb' = pgClearOwner(pgDb, pgRead(pgDb), p, id)
  PROVE  PgAgrees(pgDb') /\ (PgRef!MemClearOwner(p, id) \/ pgDb' = pgDb)
<1>. DEFINE db == pgDb
            who == db.own[id].was
<1>0. p \in Principals
  BY StoreAssumption DEF StoreAssumption
<1>3. pgRead(db).own = db.own /\ pgRead(db).data = db.data
  BY DEF pgRead
<1>1. CASE pgRead(db).own[id] = None \/ ~pgVisible(pgRead(db), p, id)
  BY <1>1 DEF pgClearOwner
<1>2. CASE ~(pgRead(db).own[id] = None \/ ~pgVisible(pgRead(db), p, id))
  <2>1. PgRef!memVisible(p, id) /\ db.data[id] \in Documents /\ db.data[id] # None /\ db.own[id] # None
    BY <1>0, <1>2, <1>3, PgSeesAsRef
  <2>2. who \in Owners
    <3>1. db.own[id] \in Corrections \cup {None}
      BY DEF PgAgrees
    <3>. QED BY <2>1, <3>1 DEF Corrections
  <2>4. pgDb' = pgWriteOwner([db EXCEPT !.own[id] = None], id, db.data[id], who)
    BY <1>2, <1>3 DEF pgClearOwner
  <2>5. PgOwned(db, id, None, who, pgDb')
    <3>1. DOMAIN db = PgTables
      BY DEF PgAgrees
    <3>. QED BY <2>4, <3>1, PgOwnDoes, Zenon
  <2>6. PgSaidOwner(db, id) = who
    BY <2>1 DEF PgSaidOwner
  <2>. HIDE DEF who
  <2>7. /\ PgAgrees(pgDb')
        /\ pgDb'.own = [pgDb.own EXCEPT ![id] = None]
        /\ pgDb'.data = [pgDb.data EXCEPT ![id].owner = who]
        /\ [x \in Ids |-> PgSaidOwner(pgDb', x)] = [x \in Ids |-> PgSaidOwner(pgDb, x)]
        /\ UNCHANGED <<pgDb.content, pgDb.verify, pgDb.report, pgDb.answer, pgDb.phrasing, pgDb.feed>>
    BY <2>1, <2>2, <2>5, <2>6, PgOwnerIs
  <2>. DEFINE said == [x \in Ids |-> IF pgDb.data[x] = None THEN None
                       ELSE IF pgDb.own[x] = None THEN pgDb.data[x].owner ELSE pgDb.own[x].was]
  <2>8. said' = said
    BY <2>7, Zenon DEF PgSaidOwner
  <2>9. UNCHANGED PgRef!memDeskVars /\ UNCHANGED PgRef!memTellVars /\ UNCHANGED FALSE
    BY <2>7 DEF PgRef!memDeskVars, PgRef!memTellVars
  <2>10. PgRef!MemClearOwner(p, id)
    BY <2>1, <2>7, <2>8, <2>9, Zenon DEF PgRef!MemClearOwner, who
  <2>. QED BY <2>7, <2>10
<1>. QED BY <1>1, <1>2

LEMMA PgCurateIs ==
  ASSUME PgAgrees(pgDb), NEW p, NEW a, pgDb' = pgCurate(pgDb, p.tenant, a)
  PROVE  PgAgrees(pgDb') /\ PgRef!MemCurate(p, a)
<1>. DEFINE t == p.tenant
            claims == {<<t, a.keys[i]>> : i \in DOMAIN a.keys}
            phrasing == [x \in DOMAIN pgDb.phrasing |->
                           IF x[1] = t /\ x[2] \in ToSet(a.keys) THEN a.id ELSE pgUnphrased(pgDb, t, a.id)[x]]
<1>1. /\ DOMAIN pgDb = PgTables /\ DOMAIN pgDb' = PgTables
      /\ pgDb'.answer = [pgDb.answer EXCEPT ![<<t, a.id>>] = a.keys]
      /\ pgDb'.phrasing = phrasing
      /\ \A f \in PgTables \ {"answer", "phrasing"} : pgDb'[f] = pgDb[f]
  BY DEF pgCurate, PgTables, PgAgrees
<1>2. DOMAIN pgDb.phrasing = Tenants \X Phrasings
  BY DEF PgAgrees
<1>3. \A x \in DOMAIN pgDb.phrasing : (x[1] = t /\ x[2] \in ToSet(a.keys)) <=> x \in claims
  <2>. SUFFICES ASSUME NEW x \in DOMAIN pgDb.phrasing
                PROVE  (x[1] = t /\ x[2] \in ToSet(a.keys)) <=> x \in claims
    OBVIOUS
  <2>1. x = <<x[1], x[2]>>
    BY <1>2
  <2>2. ToSet(a.keys) = {a.keys[i] : i \in DOMAIN a.keys}
    BY DEF ToSet
  <2>. QED BY <2>1, <2>2
<1>4. pgUnphrased(pgDb, t, a.id) = PgRef!memForget(t, a.id)
  BY DEF pgUnphrased, PgRef!memForget
<1>5. phrasing = [x \in DOMAIN pgDb.phrasing |-> IF x \in claims THEN a.id ELSE PgRef!memForget(t, a.id)[x]]
  BY <1>3, <1>4
<1>. HIDE DEF phrasing
<1>6. /\ pgDb'.data = pgDb.data /\ pgDb'.document = pgDb.document /\ pgDb'.ref = pgDb.ref
      /\ pgDb'.content = pgDb.content /\ pgDb'.verify = pgDb.verify /\ pgDb'.own = pgDb.own
      /\ pgDb'.report = pgDb.report /\ pgDb'.feed = pgDb.feed
  BY <1>1 DEF PgTables
<1>7. PgAgrees(pgDb')
  <2>1. DOMAIN pgDb'.phrasing = Tenants \X Phrasings /\ DOMAIN pgDb'.answer = Tenants \X AnswerIds
    BY <1>1, <1>2, <1>5 DEF PgAgrees
  <2>. QED BY <1>1, <1>6, <2>1 DEF PgAgrees
<1>8. UNCHANGED PgRef!memDocVars /\ UNCHANGED PgRef!memTellVars /\ UNCHANGED FALSE /\ UNCHANGED pgDb.feed
  BY <1>6 DEF PgRef!memDocVars, PgRef!memTellVars
<1>9. PgRef!MemCurate(p, a)
  BY <1>1, <1>5, <1>8, Zenon DEF PgRef!MemCurate
<1>. QED BY <1>7, <1>9

LEMMA PgRetractIs ==
  ASSUME PgAgrees(pgDb), NEW p, NEW a, pgDb' = pgRetract(pgDb, p.tenant, a)
  PROVE  PgAgrees(pgDb') /\ PgRef!MemRetract(p, a)
<1>. DEFINE t == p.tenant
<1>1. /\ DOMAIN pgDb = PgTables /\ DOMAIN pgDb' = PgTables
      /\ pgDb'.answer = [pgDb.answer EXCEPT ![<<t, a>>] = <<>>]
      /\ pgDb'.phrasing = pgUnphrased(pgDb, t, a)
      /\ \A f \in PgTables \ {"answer", "phrasing"} : pgDb'[f] = pgDb[f]
  BY DEF pgRetract, PgTables, PgAgrees
<1>4. pgUnphrased(pgDb, t, a) = PgRef!memForget(t, a) /\ DOMAIN pgUnphrased(pgDb, t, a) = DOMAIN pgDb.phrasing
  BY DEF pgUnphrased, PgRef!memForget
<1>6. /\ pgDb'.data = pgDb.data /\ pgDb'.document = pgDb.document /\ pgDb'.ref = pgDb.ref
      /\ pgDb'.content = pgDb.content /\ pgDb'.verify = pgDb.verify /\ pgDb'.own = pgDb.own
      /\ pgDb'.report = pgDb.report /\ pgDb'.feed = pgDb.feed
  BY <1>1 DEF PgTables
<1>7. PgAgrees(pgDb')
  <2>1. DOMAIN pgDb'.phrasing = Tenants \X Phrasings /\ DOMAIN pgDb'.answer = Tenants \X AnswerIds
    BY <1>1, <1>4 DEF PgAgrees
  <2>. QED BY <1>1, <1>6, <2>1 DEF PgAgrees
<1>8. UNCHANGED PgRef!memDocVars /\ UNCHANGED PgRef!memTellVars /\ UNCHANGED FALSE /\ UNCHANGED pgDb.feed
  BY <1>6 DEF PgRef!memDocVars, PgRef!memTellVars
<1>9. PgRef!MemRetract(p, a)
  BY <1>1, <1>4, <1>8, Zenon DEF PgRef!MemRetract
<1>. QED BY <1>7, <1>9

\* A statement that writes one of the tables people's marks and the feeds are kept in.
LEMMA PgMarkKeeps ==
  ASSUME PgAgrees(pgDb), NEW f \in {"verify", "report", "feed", "open"}, NEW table,
         DOMAIN pgDb' = DOMAIN pgDb, pgDb'[f] = table, \A g \in PgTables \ {f} : pgDb'[g] = pgDb[g],
         f \in {"verify"} => DOMAIN table = Ids,
         f = "feed" => DOMAIN table = Tenants,
         f = "report" => table \in [Ids -> [ReportKeys -> Times \cup {0}]],
         f \in {"verify", "report"} => \A id \in Ids : pgDb.data[id] = None => table[id] = pgDb[f][id]
  PROVE  /\ PgAgrees(pgDb') /\ pgRead(pgDb') = pgRead(pgDb)
         /\ f = "open" => UNCHANGED <<PgRef!memDocVars, PgRef!memDeskVars>>
         /\ f = "feed" => UNCHANGED <<PgRef!memDocVars, pgDb.answer, pgDb.phrasing>>
         /\ f \in {"verify", "report"} =>
              UNCHANGED <<pgDb.data, pgDb.content, pgDb.own, PgRef!memDeskVars,
                          [x \in Ids |-> PgSaidOwner(pgDb, x)]>>
         /\ f = "verify" => pgDb'.report = pgDb.report
         /\ f = "report" => pgDb'.verify = pgDb.verify
<1>1. /\ pgDb'.data = pgDb.data /\ pgDb'.document = pgDb.document /\ pgDb'.ref = pgDb.ref
      /\ pgDb'.content = pgDb.content /\ pgDb'.own = pgDb.own
      /\ pgDb'.answer = pgDb.answer /\ pgDb'.phrasing = pgDb.phrasing
      /\ f # "verify" => pgDb'.verify = pgDb.verify
      /\ f # "report" => pgDb'.report = pgDb.report
      /\ f # "feed" => pgDb'.feed = pgDb.feed
  BY DEF PgTables
<1>2. /\ f = "verify" => pgDb'.verify = table /\ pgDb.verify = pgDb[f]
      /\ f = "report" => pgDb'.report = table /\ pgDb.report = pgDb[f]
      /\ f = "feed" => pgDb'.feed = table
  OBVIOUS
<1>3. DOMAIN pgDb' = PgTables
  BY DEF PgAgrees
<1>4. \A id \in Ids : pgDb.data[id] = None =>
        pgDb'.verify[id] = pgDb.verify[id] /\ pgDb'.report[id] = pgDb.report[id]
  BY <1>1, <1>2
<1>5. DOMAIN pgDb'.verify = Ids /\ DOMAIN pgDb'.feed = Tenants
      /\ pgDb'.report \in [Ids -> [ReportKeys -> Times \cup {0}]]
  BY <1>1, <1>2 DEF PgAgrees
<1>6. PgAgrees(pgDb')
  BY <1>1, <1>3, <1>4, <1>5 DEF PgAgrees
<1>7. pgRead(pgDb') = pgRead(pgDb)
  BY <1>1 DEF pgRead
<1>. QED BY <1>1, <1>6, <1>7 DEF PgRef!memDocVars, PgRef!memDeskVars, PgSaidOwner

\* A statement outside the write lock is an operation of the reference store too, and
\* leaves alone what a call under the lock has read.
LEMMA PgVerifyIs ==
  ASSUME PgAgrees(pgDb), PgVerifyNext
  PROVE  PgAgrees(pgDb') /\ pgRead(pgDb') = pgRead(pgDb) /\ PgRef!MemVerifyNext
<1>1. PICK p \in Callers, id \in Ids : (\E t \in Times : PgVerify(p, id, t)) \/ PgUnverify(p, id)
  BY DEF PgVerifyNext
<1>2. p \in Principals /\ pgVisible(pgDb, p, id)
  BY <1>1, StoreAssumption DEF StoreAssumption, PgVerify, PgUnverify
<1>3. PgRef!memVisible(p, id) /\ pgDb.data[id] # None /\ DOMAIN pgDb = PgTables /\ DOMAIN pgDb.verify = Ids
  BY <1>2, PgSeesAsRef DEF PgAgrees
<1>4. PICK v : /\ pgDb' = [pgDb EXCEPT !.verify[id] = v]
               /\ \/ \E t \in Times : v = [by |-> p.subject, until |-> t]
                  \/ v = None
  BY <1>1 DEF PgVerify, PgUnverify, pgStatement
<1>. DEFINE table == [pgDb.verify EXCEPT ![id] = v]
<1>5. /\ DOMAIN pgDb' = DOMAIN pgDb /\ pgDb'.verify = table
      /\ \A g \in PgTables \ {"verify"} : pgDb'[g] = pgDb[g]
  BY <1>3, <1>4 DEF PgTables
<1>6. DOMAIN table = Ids /\ \A x \in Ids : pgDb.data[x] = None => table[x] = pgDb.verify[x]
  BY <1>3
<1>. HIDE DEF table
<1>7. /\ PgAgrees(pgDb') /\ pgRead(pgDb') = pgRead(pgDb)
      /\ UNCHANGED <<pgDb.data, pgDb.content, pgDb.own, PgRef!memDeskVars,
                     [x \in Ids |-> PgSaidOwner(pgDb, x)]>>
      /\ pgDb'.report = pgDb.report
  BY <1>5, <1>6, PgMarkKeeps
<1>. DEFINE said == [x \in Ids |-> IF pgDb.data[x] = None THEN None
                     ELSE IF pgDb.own[x] = None THEN pgDb.data[x].owner ELSE pgDb.own[x].was]
<1>8. said' = said
  BY <1>7, Zenon DEF PgSaidOwner
<1>9. UNCHANGED PgRef!memTellVars /\ UNCHANGED FALSE
  BY DEF PgRef!memTellVars
<1>10. pgDb'.verify = [pgDb.verify EXCEPT ![id] = v]
  BY <1>5 DEF table
<1>11. CASE v = None
  <2>1. PgRef!MemUnverify(p, id)
    BY <1>3, <1>7, <1>8, <1>9, <1>10, <1>11 DEF PgRef!MemUnverify
  <2>. QED BY <1>7, <2>1 DEF PgRef!MemVerifyNext
<1>12. ASSUME NEW t \in Times, v = [by |-> p.subject, until |-> t]
       PROVE  PgAgrees(pgDb') /\ pgRead(pgDb') = pgRead(pgDb) /\ PgRef!MemVerifyNext
  <2>1. PgRef!MemVerify(p, id, t)
    BY <1>3, <1>7, <1>8, <1>9, <1>10, <1>12 DEF PgRef!MemVerify
  <2>. QED BY <1>7, <2>1 DEF PgRef!MemVerifyNext
<1>. QED BY <1>4, <1>11, <1>12

LEMMA PgReportIs ==
  ASSUME PgAgrees(pgDb), PgReportNext
  PROVE  PgAgrees(pgDb') /\ pgRead(pgDb') = pgRead(pgDb) /\ PgRef!MemReportNext
<1>1. PICK p \in Callers, id \in Ids : (\E t \in Times : PgReport(p, id, t)) \/ PgWithdraw(p, id) \/ PgResolve(p, id)
  BY DEF PgReportNext
<1>2. p \in Principals /\ pgVisible(pgDb, p, id)
  BY <1>1, StoreAssumption DEF StoreAssumption, PgReport, PgWithdraw, PgResolve
<1>3. /\ PgRef!memVisible(p, id) /\ pgDb.data[id] # None /\ DOMAIN pgDb = PgTables
      /\ pgDb.report \in [Ids -> [ReportKeys -> Times \cup {0}]]
  BY <1>2, PgSeesAsRef DEF PgAgrees
<1>. DEFINE nothing == [k \in ReportKeys |-> 0]
            key == ReportKey(p)
<1>4. key \in ReportKeys
  BY <1>2 DEF ReportKeys
<1>5. PICK v : /\ pgDb' = [pgDb EXCEPT !.report[id] = v]
               /\ \/ \E t \in Times : PgReport(p, id, t) /\ v = [pgDb.report[id] EXCEPT ![key] = t]
                  \/ PgWithdraw(p, id) /\ v = [pgDb.report[id] EXCEPT ![key] = 0]
                  \/ PgResolve(p, id) /\ v = nothing
  BY <1>1 DEF PgReport, PgWithdraw, PgResolve, pgStatement
<1>6. v \in [ReportKeys -> Times \cup {0}]
  BY <1>3, <1>4, <1>5
<1>. DEFINE table == [pgDb.report EXCEPT ![id] = v]
<1>7. /\ DOMAIN pgDb' = DOMAIN pgDb /\ pgDb'.report = table
      /\ \A g \in PgTables \ {"report"} : pgDb'[g] = pgDb[g]
  BY <1>3, <1>5 DEF PgTables
<1>8. /\ table \in [Ids -> [ReportKeys -> Times \cup {0}]]
      /\ \A x \in Ids : pgDb.data[x] = None => table[x] = pgDb.report[x]
  BY <1>3, <1>6
<1>. HIDE DEF table, nothing, key
<1>9. /\ PgAgrees(pgDb') /\ pgRead(pgDb') = pgRead(pgDb)
      /\ UNCHANGED <<pgDb.data, pgDb.content, pgDb.own, PgRef!memDeskVars,
                     [x \in Ids |-> PgSaidOwner(pgDb, x)]>>
      /\ pgDb'.verify = pgDb.verify
  BY <1>7, <1>8, PgMarkKeeps
<1>. DEFINE said == [x \in Ids |-> IF pgDb.data[x] = None THEN None
                     ELSE IF pgDb.own[x] = None THEN pgDb.data[x].owner ELSE pgDb.own[x].was]
<1>10. said' = said
  BY <1>9, Zenon DEF PgSaidOwner
<1>11. UNCHANGED PgRef!memTellVars /\ UNCHANGED FALSE
  BY DEF PgRef!memTellVars
<1>12. pgDb'.report = [pgDb.report EXCEPT ![id] = v]
  BY <1>7 DEF table
<1>13. PgRef!ReportKey(p) = key
  BY DEF key, PgRef!ReportKey, ReportKey, PgRef!PrincipalKeys, PrincipalKeys
<1>14. nothing = [k \in PgRef!ReportKeys |-> 0]
  BY DEF nothing, PgRef!ReportKeys, ReportKeys, PgRef!ReportKey, ReportKey, PgRef!PrincipalKeys, PrincipalKeys
<1>15. ASSUME NEW t \in Times, PgReport(p, id, t), v = [pgDb.report[id] EXCEPT ![key] = t]
       PROVE  PgRef!MemReportNext
  <2>1. key # "" /\ pgDb'.report = [pgDb.report EXCEPT ![id][key] = t]
    BY <1>12, <1>15 DEF PgReport, key
  <2>2. PgRef!MemReport(p, id, t)
    BY <1>3, <1>9, <1>10, <1>11, <1>13, <2>1 DEF PgRef!MemReport
  <2>. QED BY <2>2 DEF PgRef!MemReportNext
<1>16. ASSUME PgWithdraw(p, id), v = [pgDb.report[id] EXCEPT ![key] = 0]
       PROVE  PgRef!MemReportNext
  <2>1. key # "" /\ pgDb'.report = [pgDb.report EXCEPT ![id][key] = 0]
    BY <1>12, <1>16 DEF PgWithdraw, key
  <2>2. PgRef!MemWithdraw(p, id)
    BY <1>3, <1>9, <1>10, <1>11, <1>13, <2>1 DEF PgRef!MemWithdraw
  <2>. QED BY <2>2 DEF PgRef!MemReportNext
<1>17. ASSUME v = nothing
       PROVE  PgRef!MemReportNext
  <2>1. PgRef!MemResolve(p, id)
    BY <1>3, <1>9, <1>10, <1>11, <1>12, <1>14, <1>17 DEF PgRef!MemResolve
  <2>. QED BY <2>1 DEF PgRef!MemReportNext
<1>. QED BY <1>5, <1>9, <1>15, <1>16, <1>17

LEMMA PgFeedIs ==
  ASSUME PgAgrees(pgDb), PgFeedNext
  PROVE  PgAgrees(pgDb') /\ pgRead(pgDb') = pgRead(pgDb) /\ PgRef!MemFeedNext
<1>1. PICK t \in Tenants : (\E now \in Times : PgSaveFeed(t, now)) \/ PgDropFeed(t)
  BY DEF PgFeedNext
<1>. DEFINE saved(now) == [created |-> IF pgDb.feed[t] = None THEN now ELSE pgDb.feed[t].created,
                           updated |-> now]
<1>2. PICK v : /\ pgDb' = [pgDb EXCEPT !.feed[t] = v]
               /\ (\E now \in Times : v = saved(now)) \/ v = None
  BY <1>1 DEF PgSaveFeed, PgDropFeed, pgStatement
<1>. DEFINE table == [pgDb.feed EXCEPT ![t] = v]
<1>3. DOMAIN pgDb = PgTables /\ DOMAIN pgDb.feed = Tenants
  BY DEF PgAgrees
<1>4. /\ DOMAIN pgDb' = DOMAIN pgDb /\ pgDb'.feed = table /\ DOMAIN table = Tenants
      /\ \A g \in PgTables \ {"feed"} : pgDb'[g] = pgDb[g]
  BY <1>2, <1>3 DEF PgTables
<1>. HIDE DEF table, saved
<1>5. /\ PgAgrees(pgDb') /\ pgRead(pgDb') = pgRead(pgDb)
      /\ UNCHANGED <<PgRef!memDocVars, pgDb.answer, pgDb.phrasing>>
  BY <1>4, PgMarkKeeps
<1>6. UNCHANGED PgRef!memTellVars /\ UNCHANGED FALSE
  BY DEF PgRef!memTellVars
<1>7. pgDb'.feed = [pgDb.feed EXCEPT ![t] = v]
  BY <1>4 DEF table
<1>8. CASE v = None
  <2>1. PgRef!MemDropFeed(t)
    BY <1>5, <1>6, <1>7, <1>8 DEF PgRef!MemDropFeed
  <2>. QED BY <1>5, <2>1 DEF PgRef!MemFeedNext, PgRef!Tenants, Tenants
<1>9. ASSUME NEW now \in Times, v = saved(now)
      PROVE  PgRef!MemFeedNext
  <2>1. PgRef!MemSaveFeed(t, now)
    BY <1>5, <1>6, <1>7, <1>9 DEF PgRef!MemSaveFeed, saved
  <2>. QED BY <2>1 DEF PgRef!MemFeedNext, PgRef!Tenants, Tenants
<1>. QED BY <1>2, <1>5, <1>8, <1>9

LEMMA PgHistoryIs ==
  ASSUME PgAgrees(pgDb), PgHistoryNext
  PROVE  PgAgrees(pgDb') /\ pgRead(pgDb') = pgRead(pgDb) /\ UNCHANGED PgRef!memSharedVars
<1>1. DOMAIN pgDb = PgTables
  BY DEF PgAgrees
<1>2. pgDb' = pgDb \/ \E table : pgDb' = [pgDb EXCEPT !.open = table]
  <2>1. PICK p \in Callers, id \in Ids : (\E t \in Times : PgRecordOpen(p, id, t)) \/ PgTrimOpens(p, id) \/ PgTrimFails(p, id)
    BY DEF PgHistoryNext
  <2>2. ASSUME NEW t \in Times, PgRecordOpen(p, id, t)
        PROVE  pgDb' = pgDb \/ pgDb' = [pgDb EXCEPT !.open = [pgDb.open EXCEPT ![p][id] = t]]
    BY <2>2 DEF PgRecordOpen, pgStatement
  <2>3. ASSUME PgTrimOpens(p, id)
        PROVE  \E table : pgDb' = [pgDb EXCEPT !.open = table]
    <3>1. PICK kept : pgDb' = [pgDb EXCEPT !.open[p] = [x \in Ids |-> IF x \in kept THEN @[x] ELSE 0]]
      BY <2>3 DEF PgTrimOpens, pgStatement
    <3>2. pgDb' = [pgDb EXCEPT !.open = [pgDb.open EXCEPT ![p] = [x \in Ids |-> IF x \in kept THEN @[x] ELSE 0]]]
      BY <3>1
    <3>. QED BY <3>2
  <2>4. ASSUME PgTrimFails(p, id)
        PROVE  pgDb' = pgDb
    BY <2>4 DEF PgTrimFails
  <2>. QED BY <2>1, <2>2, <2>3, <2>4
<1>3. CASE pgDb' = pgDb
  BY <1>3 DEF PgRef!memSharedVars, PgRef!memDocVars, PgRef!memDeskVars, PgRef!memTellVars
<1>4. ASSUME NEW table, pgDb' = [pgDb EXCEPT !.open = table]
      PROVE  PgAgrees(pgDb') /\ pgRead(pgDb') = pgRead(pgDb) /\ UNCHANGED PgRef!memSharedVars
  <2>1. DOMAIN pgDb' = DOMAIN pgDb /\ pgDb'.open = table /\ \A g \in PgTables \ {"open"} : pgDb'[g] = pgDb[g]
    BY <1>1, <1>4 DEF PgTables
  <2>2. /\ PgAgrees(pgDb') /\ pgRead(pgDb') = pgRead(pgDb)
        /\ UNCHANGED <<PgRef!memDocVars, PgRef!memDeskVars>>
    BY <2>1, PgMarkKeeps
  <2>. QED BY <2>2 DEF PgRef!memSharedVars, PgRef!memTellVars
<1>. QED BY <1>2, <1>3, <1>4

LEMMA PgStays ==
  ASSUME UNCHANGED pgDb
  PROVE  UNCHANGED PgRef!memSharedVars
BY DEF PgRef!memSharedVars, PgRef!memDocVars, PgRef!memDeskVars, PgRef!memTellVars

\* What the callers ask of a server.
Asked(c) ==
  \/ c.op = "put" /\ c.batch \in Batches
  \/ c.op = "delete" /\ c.ids \in (SUBSET Ids) \ {{}}
  \/ c.op = "perms" /\ c.tenant \in Tenants /\ c.ids \in (SUBSET Ids) \ {{}} /\ c.perms \in Descriptors
  \/ c.op = "own" /\ c.p \in Callers /\ c.id \in Ids /\ c.who \in People
  \/ c.op = "disown" /\ c.p \in Callers /\ c.id \in Ids
  \/ c.op = "curate" /\ (\E p \in Callers : c.tenant = p.tenant) /\ c.answer \in Curations
  \/ c.op = "retract" /\ (\E p \in Callers : c.tenant = p.tenant) /\ c.id \in AnswerIds

LEMMA PgApplyIs ==
  ASSUME PgAgrees(pgDb), NEW c, Asked(c), pgDb' = pgApply(pgDb, c, pgRead(pgDb))
  PROVE  PgAgrees(pgDb') /\ (PgRef!MemDataNext \/ UNCHANGED PgRef!memSharedVars)
<1>. DEFINE r == pgRead(pgDb)
<1>0. UNCHANGED PgRef!memTellVars
  BY DEF PgRef!memTellVars
<1>1. CASE c.op = "put" /\ c.batch \in Batches
  <2>1. pgDb' = pgWrite(pgDb, r, [id \in Written(c.batch) |-> LastOf(c.batch, id)])
    BY <1>1 DEF pgApply
  <2>2. PgAgrees(pgDb') /\ PgRef!memPutAll(c.batch)
    BY <1>1, <2>1, PgPutIs
  <2>. QED BY <1>0, <1>1, <2>2 DEF PgRef!MemDataNext
<1>2. CASE c.op = "delete" /\ c.ids \in (SUBSET Ids) \ {{}}
  <2>1. pgDb' = pgRemove(pgDb, r, c.ids)
    BY <1>2 DEF pgApply
  <2>2. PgAgrees(pgDb') /\ PgRef!memRemove(c.ids)
    BY <1>2, <2>1, PgDeleteIs
  <2>. QED BY <1>0, <1>2, <2>2 DEF PgRef!MemDataNext
<1>3. CASE c.op = "perms" /\ c.tenant \in Tenants /\ c.ids \in (SUBSET Ids) \ {{}} /\ c.perms \in Descriptors
  <2>1. pgDb' = pgSetPermissions(pgDb, r, c.tenant, c.ids, c.perms)
    BY <1>3 DEF pgApply
  <2>2. PgAgrees(pgDb') /\ PgRef!memSetAll(c.tenant, [id \in c.ids |-> c.perms])
    BY <1>3, <2>1, PgPermsIs
  <2>3. c.tenant \in PgRef!Tenants
    BY <1>3 DEF PgRef!Tenants, Tenants
  <2>. QED BY <1>0, <1>3, <2>2, <2>3 DEF PgRef!MemDataNext
<1>4. CASE c.op = "own" /\ c.p \in Callers /\ c.id \in Ids /\ c.who \in People
  <2>1. pgDb' = pgSetOwner(pgDb, r, c.p, c.id, c.who)
    BY <1>4 DEF pgApply
  <2>2. PgAgrees(pgDb') /\ (PgRef!MemSetOwner(c.p, c.id, c.who) \/ pgDb' = pgDb)
    BY <1>4, <2>1, PgSetOwnerIs
  <2>. QED BY <1>4, <2>2, PgStays DEF PgRef!MemDataNext, PgRef!MemOwnNext
<1>5. CASE c.op = "disown" /\ c.p \in Callers /\ c.id \in Ids
  <2>1. pgDb' = pgClearOwner(pgDb, r, c.p, c.id)
    BY <1>5 DEF pgApply
  <2>2. PgAgrees(pgDb') /\ (PgRef!MemClearOwner(c.p, c.id) \/ pgDb' = pgDb)
    BY <1>5, <2>1, PgClearOwnerIs
  <2>. QED BY <1>5, <2>2, PgStays DEF PgRef!MemDataNext, PgRef!MemOwnNext
<1>6. CASE c.op = "curate" /\ (\E p \in Callers : c.tenant = p.tenant) /\ c.answer \in Curations
  <2>1. PICK p \in Callers : c.tenant = p.tenant
    BY <1>6
  <2>2. pgDb' = pgCurate(pgDb, p.tenant, c.answer)
    BY <1>6, <2>1 DEF pgApply
  <2>3. PgAgrees(pgDb') /\ PgRef!MemCurate(p, c.answer)
    BY <2>2, PgCurateIs
  <2>. QED BY <1>6, <2>3 DEF PgRef!MemDataNext, PgRef!MemAnswerNext
<1>7. CASE c.op = "retract" /\ (\E p \in Callers : c.tenant = p.tenant) /\ c.id \in AnswerIds
  <2>1. PICK p \in Callers : c.tenant = p.tenant
    BY <1>7
  <2>2. pgDb' = pgRetract(pgDb, p.tenant, c.id)
    BY <1>7, <2>1 DEF pgApply
  <2>3. PgAgrees(pgDb') /\ PgRef!MemRetract(p, c.id)
    BY <2>2, PgRetractIs
  <2>4. c.id \in PgRef!AnswerIds
    BY <1>7 DEF PgRef!AnswerIds, AnswerIds
  <2>. QED BY <1>7, <2>3, <2>4 DEF PgRef!MemDataNext, PgRef!MemAnswerNext
<1>. QED BY <1>1, <1>2, <1>3, <1>4, <1>5, <1>6, <1>7 DEF Asked

\* Whoever works has the write lock, and what it read when it took the lock is still what
\* the tables hold.
PgServes(s) ==
  LET c == pgCall[s] IN
  /\ c = [call |-> c.call, at |-> c.at, tries |-> c.tries, priors |-> c.priors, ids |-> c.ids]
  /\ c.at # "idle" => Asked(c.call)
  /\ c.at = "work" => pgLock = s /\ c.priors = pgRead(pgDb)

PgInv ==
  /\ PgAgrees(pgDb)
  /\ DOMAIN pgCall = Servers
  /\ \A s \in Servers : PgServes(s)

LEMMA ServesRewritten ==
  ASSUME NEW s, NEW call, NEW at, NEW tries, NEW priors, NEW ids,
         pgCall'[s] = [call |-> call, at |-> at, tries |-> tries, priors |-> priors, ids |-> ids],
         at # "idle" => Asked(call),
         at = "work" => pgLock' = s /\ priors = pgRead(pgDb')
  PROVE  PgServes(s)'
<1>1. /\ pgCall'[s].call = call /\ pgCall'[s].at = at /\ pgCall'[s].tries = tries
      /\ pgCall'[s].priors = priors /\ pgCall'[s].ids = ids
  OBVIOUS
<1>. QED BY <1>1 DEF PgServes

LEMMA PgStarts == PgInit => PgInv /\ PgRef!MemInit
<1>. SUFFICES ASSUME PgInit PROVE PgInv /\ PgRef!MemInit
  OBVIOUS
<1>1. /\ pgDb = [t \in DOMAIN pgDocuments \cup DOMAIN pgPeople |->
                    IF t \in DOMAIN pgDocuments THEN pgDocuments[t] ELSE pgPeople[t]]
      /\ pgCall = [s \in Servers |-> pgIdle]
  BY DEF PgInit
<1>. DEFINE nothing == [k \in ReportKeys |-> 0]
<1>2. /\ DOMAIN pgDb = PgTables
      /\ pgDb.data = [id \in Ids |-> None] /\ pgDb.document = [id \in Ids |-> None]
      /\ pgDb.ref = [id \in Ids |-> {}] /\ pgDb.content = [id \in Ids |-> None]
      /\ pgDb.verify = [id \in Ids |-> None] /\ pgDb.own = [id \in Ids |-> None]
      /\ pgDb.report = [id \in Ids |-> nothing]
      /\ pgDb.answer = [x \in Tenants \X AnswerIds |-> <<>>]
      /\ pgDb.phrasing = [x \in Tenants \X Phrasings |-> None]
      /\ pgDb.feed = [t \in Tenants |-> None]
  <2>1. /\ DOMAIN pgDocuments = {"document", "data", "ref", "content", "posting", "corpus", "termStat"}
        /\ DOMAIN pgPeople = {"open", "feed", "verify", "own", "report", "answer", "phrasing"}
    BY DEF pgDocuments, pgPeople
  <2>2. /\ DOMAIN pgDb = PgTables
        /\ \A f \in DOMAIN pgDocuments : pgDb[f] = pgDocuments[f]
        /\ \A f \in DOMAIN pgPeople : pgDb[f] = pgPeople[f]
    BY <1>1, <2>1 DEF PgTables
  <2>3. /\ pgDb.data = pgDocuments.data /\ pgDb.document = pgDocuments.document
        /\ pgDb.ref = pgDocuments.ref /\ pgDb.content = pgDocuments.content
    BY <2>1, <2>2
  <2>4. /\ pgDb.verify = pgPeople.verify /\ pgDb.own = pgPeople.own /\ pgDb.report = pgPeople.report
        /\ pgDb.feed = pgPeople.feed /\ pgDb.answer = pgPeople.answer /\ pgDb.phrasing = pgPeople.phrasing
    BY <2>1, <2>2
  <2>. QED BY <2>2, <2>3, <2>4 DEF pgDocuments, pgPeople, pgFeeds, pgVerified, pgOwners, pgSaid, pgAnswers,
              pgPhrasings
<1>3. PgAgrees(pgDb)
  BY <1>2 DEF PgAgrees
<1>4. \A s \in Servers : PgServes(s)
  BY <1>1 DEF PgServes, pgIdle
<1>5. PgRef!MemInit
  BY <1>2, Zenon DEF PgRef!MemInit, PgRef!ReportKeys, ReportKeys, PgRef!ReportKey, ReportKey, PgRef!PrincipalKeys,
     PrincipalKeys, PgRef!Tenants, Tenants, PgRef!AnswerIds, AnswerIds, PgRef!Phrasings, Phrasings
<1>. QED BY <1>1, <1>3, <1>4, <1>5 DEF PgInv

\* One server's step.
LEMMA PgWorkIs ==
  ASSUME PgInv, NEW s \in Servers,
         \/ \E call : Asked(call) /\ PgBegin(s, call)
         \/ PgLockWrites(s) \/ PgCommit(s) \/ PgChanges(s) \/ PgFail(s) \/ PgLostAck(s)
  PROVE  PgInv' /\ (PgRef!MemDataNext \/ UNCHANGED PgRef!memSharedVars)
<1>. DEFINE c == pgCall[s]
<1>1. /\ DOMAIN pgCall = Servers /\ PgAgrees(pgDb)
      /\ c = [call |-> c.call, at |-> c.at, tries |-> c.tries, priors |-> c.priors, ids |-> c.ids]
      /\ c.at # "idle" => Asked(c.call)
      /\ c.at = "work" => pgLock = s /\ c.priors = pgRead(pgDb)
  BY DEF PgInv, PgServes
<1>2. s # None
  BY PgAssumption DEF PgAssumption
<1>3. ASSUME pgDb' = pgDb, DOMAIN pgCall' = Servers,
             \A x \in Servers : x # s => pgCall'[x] = pgCall[x],
             pgLock' = pgLock \/ pgLock = None \/ pgLock = s,
             PgServes(s)'
      PROVE  PgInv' /\ (PgRef!MemDataNext \/ UNCHANGED PgRef!memSharedVars)
  <2>1. ASSUME NEW x \in Servers, x # s PROVE PgServes(x)'
    <3>1. PgServes(x) /\ x # None
      BY PgAssumption DEF PgInv, PgAssumption
    <3>2. pgCall'[x] = pgCall[x] /\ (pgLock = x => pgLock' = x)
      BY <1>3, <2>1, <3>1
    <3>. QED BY <1>3, <3>1, <3>2 DEF PgServes
  <2>. QED BY <1>1, <1>3, <2>1, PgStays DEF PgInv
<1>4. CASE \E call : Asked(call) /\ PgBegin(s, call)
  <2>1. PICK call : Asked(call) /\ PgBegin(s, call)
    BY <1>4
  <2>2. /\ pgCall' = [pgCall EXCEPT ![s] = [call |-> call, at |-> "begin", tries |-> 1,
                                            priors |-> None, ids |-> {}]]
        /\ pgDb' = pgDb /\ pgLock' = pgLock
    BY <2>1 DEF PgBegin
  <2>3. pgCall'[s] = [call |-> call, at |-> "begin", tries |-> 1, priors |-> None, ids |-> {}]
    BY <1>1, <2>2
  <2>4. PgServes(s)'
    BY <2>1, <2>3, ServesRewritten
  <2>. QED BY <1>1, <1>3, <2>2, <2>4
<1>5. CASE PgLockWrites(s)
  <2>. DEFINE q == pgRead(pgDb)  r == pgReports(c.call, q)
  <2>1. /\ c.at = "begin" /\ pgDb' = pgDb /\ pgLock = None /\ pgLock' = s
        /\ pgCall' = [pgCall EXCEPT ![s].at = "work", ![s].priors = q, ![s].ids = r]
    BY <1>5 DEF PgLockWrites
  <2>2. Asked(c.call) /\ q = pgRead(pgDb')
    BY <1>1, <2>1
  <2>. HIDE DEF q, r
  <2>3. pgCall'[s] = [call |-> c.call, at |-> "work", tries |-> c.tries, priors |-> q, ids |-> r]
    BY <1>1, <2>1
  <2>. HIDE DEF c
  <2>4. PgServes(s)'
    BY <2>1, <2>2, <2>3, ServesRewritten
  <2>. QED BY <1>1, <1>3, <2>1, <2>4
<1>6. ASSUME c.at = "work", pgDb' = pgApply(pgDb, c.call, c.priors),
             pgLock' = IF pgLock = s THEN None ELSE pgLock,
             DOMAIN pgCall' = Servers, \A x \in Servers : x # s => pgCall'[x] = pgCall[x],
             PgServes(s)'
      PROVE  PgInv' /\ (PgRef!MemDataNext \/ UNCHANGED PgRef!memSharedVars)
  <2>1. Asked(c.call) /\ pgDb' = pgApply(pgDb, c.call, pgRead(pgDb)) /\ pgLock = s
    BY <1>1, <1>6
  <2>. HIDE DEF c
  <2>2. PgAgrees(pgDb') /\ (PgRef!MemDataNext \/ UNCHANGED PgRef!memSharedVars)
    BY <1>1, <2>1, PgApplyIs
  <2>3. ASSUME NEW x \in Servers, x # s PROVE PgServes(x)'
    <3>1. PgServes(x) /\ pgCall'[x] = pgCall[x]
      BY <1>6, <2>3 DEF PgInv
    <3>2. pgCall[x].at # "work"
      BY <2>1, <2>3, <3>1 DEF PgServes
    <3>. QED BY <3>1, <3>2 DEF PgServes
  <2>. QED BY <1>6, <2>2, <2>3 DEF PgInv
<1>7. ASSUME pgAgain(s), c.at # "idle"
      PROVE  /\ DOMAIN pgCall' = Servers /\ \A x \in Servers : x # s => pgCall'[x] = pgCall[x]
             /\ PgServes(s)'
  <2>1. /\ DOMAIN pgCall' = Servers /\ \A x \in Servers : x # s => pgCall'[x] = pgCall[x]
        /\ pgCall'[s] = IF c.tries < Attempts
             THEN [call |-> c.call, at |-> "begin", tries |-> c.tries + 1, priors |-> None, ids |-> {}]
             ELSE pgIdle
    BY <1>1, <1>7 DEF pgAgain
  <2>2. Asked(c.call)
    BY <1>1, <1>7
  <2>. HIDE DEF c
  <2>3. CASE c.tries < Attempts
    <3>1. pgCall'[s] = [call |-> c.call, at |-> "begin", tries |-> c.tries + 1, priors |-> None, ids |-> {}]
      BY <2>1, <2>3
    <3>2. PgServes(s)'
      BY <2>2, <3>1, ServesRewritten
    <3>. QED BY <2>1, <3>2
  <2>4. CASE ~(c.tries < Attempts)
    <3>1. pgCall'[s] = pgIdle
      BY <2>1, <2>4
    <3>2. PgServes(s)'
      BY <3>1 DEF PgServes, pgIdle
    <3>. QED BY <2>1, <3>2
  <2>. QED BY <2>3, <2>4
<1>8. CASE PgCommit(s)
  <2>1. /\ c.at = "work" /\ pgDb' = pgApply(pgDb, c.call, c.priors)
        /\ pgLock' = IF pgLock = s THEN None ELSE pgLock
        /\ pgCall' = [pgCall EXCEPT ![s].at = "tell", ![s].priors = None]
    BY <1>8 DEF PgCommit, pgCommitted
  <2>2. pgCall'[s] = [call |-> c.call, at |-> "tell", tries |-> c.tries, priors |-> None, ids |-> c.ids]
    BY <1>1, <2>1
  <2>3. Asked(c.call)
    BY <1>1, <2>1
  <2>4. DOMAIN pgCall' = Servers /\ \A x \in Servers : x # s => pgCall'[x] = pgCall[x]
    BY <1>1, <2>1
  <2>. HIDE DEF c
  <2>5. PgServes(s)'
    BY <2>2, <2>3, ServesRewritten
  <2>. QED BY <1>6, <2>1, <2>4, <2>5
<1>9. CASE PgChanges(s)
  <2>1. pgCall' = [pgCall EXCEPT ![s] = pgIdle] /\ pgDb' = pgDb /\ pgLock' = pgLock
    BY <1>9 DEF PgChanges
  <2>2. PgServes(s)'
    BY <1>1, <2>1 DEF PgServes, pgIdle
  <2>. QED BY <1>1, <1>3, <2>1, <2>2
<1>10. CASE PgFail(s)
  <2>1. /\ c.at \in {"begin", "work"} /\ pgAgain(s) /\ pgDb' = pgDb
        /\ pgLock' = IF pgLock = s THEN None ELSE pgLock
    BY <1>10 DEF PgFail
  <2>2. pgLock' = pgLock \/ pgLock = s
    BY <2>1
  <2>. QED BY <1>3, <1>7, <2>1, <2>2
<1>11. CASE PgLostAck(s)
  <2>1. /\ c.at = "work" /\ pgDb' = pgApply(pgDb, c.call, c.priors) /\ pgAgain(s)
        /\ pgLock' = IF pgLock = s THEN None ELSE pgLock
    BY <1>11 DEF PgLostAck, pgCommitted
  <2>. QED BY <1>6, <1>7, <2>1
<1>. QED BY <1>4, <1>5, <1>8, <1>9, <1>10, <1>11

LEMMA PgStepIs ==
  ASSUME PgInv, [PgNext]_pgVars
  PROVE  PgInv' /\ (PgRef!MemDataNext \/ UNCHANGED PgRef!memSharedVars)
<1>1. ASSUME UNCHANGED <<pgDb, pgCallVars>>
      PROVE  PgInv' /\ (PgRef!MemDataNext \/ UNCHANGED PgRef!memSharedVars)
  <2>1. PgInv'
    BY <1>1 DEF pgCallVars, PgInv, PgServes
  <2>. QED BY <1>1, <2>1, PgStays
<1>2. ASSUME NEW s \in Servers,
             \/ \E call : Asked(call) /\ PgBegin(s, call)
             \/ PgLockWrites(s) \/ PgCommit(s) \/ PgChanges(s) \/ PgFail(s) \/ PgLostAck(s)
      PROVE  PgInv' /\ (PgRef!MemDataNext \/ UNCHANGED PgRef!memSharedVars)
  BY <1>2, PgWorkIs
<1>3. ASSUME UNCHANGED pgCallVars, PgAgrees(pgDb'), pgRead(pgDb') = pgRead(pgDb)
      PROVE  PgInv'
  BY <1>3 DEF pgCallVars, PgInv, PgServes
<1>4. CASE PgDocNext
  <2>1. ASSUME NEW s \in Servers, NEW b \in Batches, PgBegin(s, [op |-> "put", batch |-> b])
        PROVE  PgInv' /\ (PgRef!MemDataNext \/ UNCHANGED PgRef!memSharedVars)
    <3>1. Asked([op |-> "put", batch |-> b])
      BY DEF Asked
    <3>. QED BY <1>2, <2>1, <3>1
  <2>2. ASSUME NEW s \in Servers, NEW ids \in (SUBSET Ids) \ {{}}, PgBegin(s, [op |-> "delete", ids |-> ids])
        PROVE  PgInv' /\ (PgRef!MemDataNext \/ UNCHANGED PgRef!memSharedVars)
    <3>1. Asked([op |-> "delete", ids |-> ids])
      BY DEF Asked
    <3>. QED BY <1>2, <2>2, <3>1
  <2>3. ASSUME NEW s \in Servers, NEW t \in Tenants, NEW ids \in (SUBSET Ids) \ {{}}, NEW d \in Descriptors,
               PgBegin(s, [op |-> "perms", tenant |-> t, ids |-> ids, perms |-> d])
        PROVE  PgInv' /\ (PgRef!MemDataNext \/ UNCHANGED PgRef!memSharedVars)
    <3>1. Asked([op |-> "perms", tenant |-> t, ids |-> ids, perms |-> d])
      BY DEF Asked
    <3>. QED BY <1>2, <2>3, <3>1
  <2>. QED BY <1>2, <1>4, <2>1, <2>2, <2>3 DEF PgDocNext, PgWorkNext
<1>5. CASE PgOwnNext
  <2>1. PICK s \in Servers, p \in Callers, id \in Ids :
          \/ \E who \in People : PgBegin(s, [op |-> "own", p |-> p, id |-> id, who |-> who])
          \/ PgBegin(s, [op |-> "disown", p |-> p, id |-> id])
    BY <1>5 DEF PgOwnNext
  <2>2. \A who \in People : Asked([op |-> "own", p |-> p, id |-> id, who |-> who])
    BY DEF Asked
  <2>3. Asked([op |-> "disown", p |-> p, id |-> id])
    BY DEF Asked
  <2>. QED BY <1>2, <2>1, <2>2, <2>3
<1>6. CASE PgAnswerNext
  <2>1. PICK s \in Servers, t \in {p.tenant : p \in Callers} :
          \/ \E a \in Curations : PgBegin(s, [op |-> "curate", tenant |-> t, answer |-> a])
          \/ \E id \in AnswerIds : PgBegin(s, [op |-> "retract", tenant |-> t, id |-> id])
    BY <1>6 DEF PgAnswerNext
  <2>2. \A a \in Curations : Asked([op |-> "curate", tenant |-> t, answer |-> a])
    BY DEF Asked
  <2>3. \A id \in AnswerIds : Asked([op |-> "retract", tenant |-> t, id |-> id])
    BY DEF Asked
  <2>. QED BY <1>2, <2>1, <2>2, <2>3
<1>7. UNCHANGED pgCallVars \/ ~(PgVerifyNext \/ PgReportNext \/ PgFeedNext \/ PgHistoryNext)
  BY DEF PgVerifyNext, PgReportNext, PgFeedNext, PgHistoryNext, PgVerify, PgUnverify,
     PgReport, PgWithdraw, PgResolve, PgSaveFeed, PgDropFeed, PgRecordOpen, PgTrimOpens, PgTrimFails,
     pgStatement
<1>8. PgAgrees(pgDb)
  BY DEF PgInv
<1>9. CASE PgVerifyNext
  BY <1>3, <1>7, <1>8, <1>9, PgVerifyIs DEF PgRef!MemDataNext
<1>10. CASE PgReportNext
  BY <1>3, <1>7, <1>8, <1>10, PgReportIs DEF PgRef!MemDataNext
<1>11. CASE PgFeedNext
  BY <1>3, <1>7, <1>8, <1>11, PgFeedIs DEF PgRef!MemDataNext
<1>12. CASE PgHistoryNext
  BY <1>3, <1>7, <1>8, <1>12, PgHistoryIs
<1>13. CASE PgStreamNext
  <2>1. UNCHANGED <<pgDb, pgCallVars>>
    BY <1>13 DEF PgStreamNext, PgRetrieve, PgStreamRow, PgStreamEnd, PgStreamBreaks, PgStreamDone, pgOnStream
  <2>. QED BY <1>1, <2>1
<1>14. CASE PgSchemaNext
  BY <1>1, <1>14 DEF PgSchemaNext, PgMigrateBegin, PgMigrate, PgRollback, pgOnSchema
<1>15. CASE \E s \in Servers : PgClose(s)
  BY <1>1, <1>15 DEF PgClose
<1>16. CASE UNCHANGED pgVars
  BY <1>1, <1>16 DEF pgVars, pgCallVars
<1>. QED BY <1>4, <1>5, <1>6, <1>9, <1>10, <1>11, <1>12, <1>13, <1>14, <1>15, <1>16 DEF PgNext

\* Whatever servers share the database, and however often a call ran again because a
\* connection broke before or after its commit, every commit is one operation of the
\* reference store on the data (Store.transact, retry, lockWrites).
THEOREM PgImplements == PgSpec => PgImplementsMem
<1>1. PgInv /\ [PgNext]_pgVars => PgInv'
  BY PgStepIs
<1>2. PgInv /\ [PgNext]_pgVars => [PgRef!MemDataNext]_(PgRef!memSharedVars)
  BY PgStepIs
<1>3. PgInit => PgInv /\ PgRef!MemInit
  BY PgStarts
<1>. QED BY <1>1, <1>2, <1>3, PTL DEF PgSpec, PgImplementsMem, PgRef!MemDataSpec

-----------------------------------------------------------------------------
(***************************************************************************)
(* The process.  What makes it come down in order is that the deferred     *)
(* calls are always a tail of one list, the reverse of the order in which  *)
(* run opens things, and that what is open or going is what still has its  *)
(* call deferred (DefersCover).                                            *)
(***************************************************************************)

\* The first n things that run opens.
InStack(n) == {x \in Pcs : \E i \in 1..n : x = Opened[i]}

\* What is open and what is going, when n calls are deferred.
DefersCover(n) ==
    /\ Len(deferred) = n
    /\ \A i \in 1..n : deferred[i] = Opened[n + 1 - i]
    /\ open = InStack(n) \cap Things
    /\ \A f \in Feeds : feed[f] \in {"syncing", "waiting"} => f \in InStack(n)

\* How many calls are deferred follows from where run is, until it returns.
InOrder ==
    \E n \in 0..6 :
        /\ DefersCover(n)
        /\ \A i \in 1..6 : pc = Opened[i] => n = i - 1
        /\ pc \in {"serve", "shutdown", "collect"} => n = 6

Unheard == {l \in Listeners : listener[l] \in {"serving", "closing"}}

\* Every listener that has started is still going, waiting to be heard, or was.
Counted ==
    \/ /\ \A l \in Listeners : listener[l] = "none"
       /\ awaited = 0
       /\ errc = 0
       /\ pc \notin {"shutdown", "collect"}
    \/ /\ \A l \in Listeners : listener[l] # "none"
       /\ awaited = errc + Cardinality(Unheard)
       /\ pc \notin Pcs

IInv == GbTypeOK /\ InOrder /\ Counted

-----------------------------------------------------------------------------
LEMMA OneToSix == \A i \in 1..6 : i = 1 \/ i = 2 \/ i = 3 \/ i = 4 \/ i = 5 \/ i = 6
  OBVIOUS

LEMMA OpenedIs ==
    /\ DOMAIN Opened = 1..6 /\ Len(Opened) = 6
    /\ Opened[1] = "audit" /\ Opened[2] = "store" /\ Opened[3] = "searcher"
    /\ Opened[4] = "corpus" /\ Opened[5] = "bucket" /\ Opened[6] = "supervisor"
    /\ Pcs = {"audit", "store", "searcher", "corpus", "bucket", "supervisor"}
    /\ \A i, j \in 1..6 : Opened[i] = Opened[j] => i = j
  <1>1. DOMAIN Opened = 1..6 /\ Len(Opened) = 6
    BY DEF Opened
  <1>2. /\ Opened[1] = "audit" /\ Opened[2] = "store" /\ Opened[3] = "searcher"
        /\ Opened[4] = "corpus" /\ Opened[5] = "bucket" /\ Opened[6] = "supervisor"
    BY DEF Opened
  <1>3. Pcs = {Opened[i] : i \in 1..6}
    BY <1>1 DEF Pcs
  <1>4. Pcs = {"audit", "store", "searcher", "corpus", "bucket", "supervisor"}
    BY <1>2, <1>3, OneToSix
  <1>5. \A i, j \in 1..6 : Opened[i] = Opened[j] => i = j
    BY <1>2, OneToSix
  <1> QED BY <1>1, <1>2, <1>4, <1>5

\* After walks the list from front to back.
LEMMA AfterIs == ASSUME NEW i \in 1..6
                 PROVE  After(Opened[i]) = IF i = 6 THEN "serve" ELSE Opened[i + 1]
  <1>1. (CHOOSE j \in DOMAIN Opened : Opened[j] = Opened[i]) = i
    BY OpenedIs
  <1> QED BY <1>1, OpenedIs DEF After

\* A stack grows and shrinks at its head.
LEMMA StackMoves ==
    ASSUME NEW s \in Seq(Pcs), NEW x \in Pcs
    PROVE  /\ <<x>> \o s \in Seq(Pcs)
           /\ Len(<<x>> \o s) = Len(s) + 1
           /\ (<<x>> \o s)[1] = x
           /\ \A i \in 1..Len(s) : (<<x>> \o s)[i + 1] = s[i]
           /\ s # <<>> => /\ Tail(s) \in Seq(Pcs)
                          /\ Len(s) \in Nat \ {0}
                          /\ Len(Tail(s)) = Len(s) - 1
                          /\ Head(s) = s[1]
                          /\ \A i \in 1..(Len(s) - 1) : Tail(s)[i] = s[i + 1]
           /\ s = <<>> => Len(s) = 0
           /\ Len(s) = 0 => s = <<>>
  OBVIOUS

LEMMA InStackMoves ==
    /\ InStack(0) = {}
    /\ \A n \in 0..5 : InStack(n + 1) = InStack(n) \cup {Opened[n + 1]}
    /\ \A n \in 0..6, i \in 1..6 : Opened[i] \in InStack(n) <=> i <= n
  BY OpenedIs DEF InStack

LEMMA UnheardIsFinite ==
    /\ IsFiniteSet(Unheard)
    /\ Cardinality(Unheard) \in Nat
    /\ Cardinality(Unheard) <= Cardinality(Listeners)
    /\ Cardinality(Listeners) \in Nat
  BY ListenersOK, FS_Subset, FS_CardinalityType DEF Unheard

-----------------------------------------------------------------------------
(* Nothing is open and nobody is heard before the first step.              *)
LEMMA InitHolds == GbInit => IInv
  <1> SUFFICES ASSUME GbInit PROVE IInv
    OBVIOUS
  <1>1. GbTypeOK
    <2>1. pc \in Pcs /\ deferred \in Seq(Pcs) /\ open \subseteq Things
      BY OpenedIs DEF GbInit
    <2>2. 0 \in 0..Cardinality(Listeners)
      BY UnheardIsFinite
    <2> QED BY <2>1, <2>2 DEF GbInit, GbTypeOK
  <1>2. InOrder
    <2>1. DefersCover(0)
      BY InStackMoves DEF GbInit, DefersCover
    <2>2. \A i \in 1..6 : pc = Opened[i] => 0 = i - 1
      BY OpenedIs DEF GbInit
    <2> QED BY <2>1, <2>2 DEF GbInit, InOrder
  <1>3. Counted
    BY DEF GbInit, Counted
  <1> QED BY <1>1, <1>2, <1>3 DEF IInv

-----------------------------------------------------------------------------
(* Coming up: the stack grows with what it covers.                         *)

\* Opening the next thing, whatever it is.
LEMMA PushKeepsOrder ==
    ASSUME IInv, NEW x \in Pcs, pc = x, Defer(x), pc' = After(x),
           open' = open \cup ({x} \cap Things),
           feed' \in [Feeds -> {"none", "syncing", "waiting", "done"}],
           \A f \in Feeds \ {x} : feed'[f] = feed[f]
    PROVE  InOrder' /\ deferred' \in Seq(Pcs) /\ pc' \in Pcs \cup {"serve"} /\ open' \subseteq Things
  <1>1. PICK i \in 1..6 : x = Opened[i]
    BY OpenedIs DEF Pcs
  <1>2. DefersCover(i - 1)
    BY <1>1 DEF IInv, InOrder
  <1>3. deferred \in Seq(Pcs) /\ open \subseteq Things
    BY DEF IInv, GbTypeOK
  <1>4. i - 1 \in 0..5 /\ (i - 1) + 1 = i /\ i \in 0..6
    OBVIOUS
  <1>5. InStack(i) = InStack(i - 1) \cup {x}
    BY <1>1, <1>4, InStackMoves
  <1>6. DefersCover(i)'
    <2>1. Len(deferred') = i
      BY <1>2, <1>3, <1>4, StackMoves DEF Defer, DefersCover
    <2>2. ASSUME NEW j \in 1..i PROVE deferred'[j] = Opened[i + 1 - j]
      <3>1. CASE j = 1
        BY <1>1, <1>3, <3>1, StackMoves DEF Defer
      <3>2. CASE j # 1
        <4>1. j - 1 \in 1..(i - 1) /\ (j - 1) + 1 = j /\ (i - 1) + 1 - (j - 1) = i + 1 - j
          BY <3>2
        <4>2. deferred'[j] = deferred[j - 1]
          BY <1>2, <1>3, <4>1, StackMoves DEF Defer, DefersCover
        <4> QED BY <1>2, <4>1, <4>2 DEF DefersCover
      <3> QED BY <3>1, <3>2
    <2>3. open' = InStack(i) \cap Things
      BY <1>2, <1>5 DEF DefersCover
    <2>4. \A f \in Feeds : feed'[f] \in {"syncing", "waiting"} => f \in InStack(i)
      BY <1>2, <1>5 DEF DefersCover
    <2>5. InStack(i)' = InStack(i)
      BY DEF InStack, Pcs, Opened
    <2> QED BY <2>1, <2>2, <2>3, <2>4, <2>5 DEF DefersCover
  <1>7. pc' = IF i = 6 THEN "serve" ELSE Opened[i + 1]
    BY <1>1, AfterIs
  <1>8. \A j \in 1..6 : pc' = Opened[j] => i = j - 1
    BY <1>7, OpenedIs
  <1>9. pc' \in {"serve", "shutdown", "collect"} => i = 6
    BY <1>7, OpenedIs, OneToSix
  <1>10. pc' \in Pcs \cup {"serve"}
    BY <1>7, OpenedIs
  <1>11. deferred' \in Seq(Pcs) /\ open' \subseteq Things
    BY <1>3, StackMoves DEF Defer
  <1>12. InOrder'
    BY <1>4, <1>6, <1>8, <1>9, OpenedIs DEF InOrder
  <1> QED BY <1>10, <1>11, <1>12

LEMMA OpenKeeps == ASSUME IInv, NEW x \in Pcs, Open(x) PROVE IInv'
  <1>1. /\ InOrder' /\ deferred' \in Seq(Pcs) /\ pc' \in Pcs \cup {"serve"} /\ open' \subseteq Things
    <2>1. feed' \in [Feeds -> {"none", "syncing", "waiting", "done"}]
      BY DEF IInv, GbTypeOK, Open
    <2> QED BY <2>1, PushKeepsOrder DEF Open
  <1>2. GbTypeOK'
    BY <1>1 DEF IInv, GbTypeOK, Open
  <1>3. Counted'
    BY <1>1, OpenedIs DEF IInv, Counted, Open
  <1> QED BY <1>1, <1>2, <1>3 DEF IInv

LEMMA StartFeedKeeps == ASSUME IInv, NEW x \in Pcs, StartFeed(x) PROVE IInv'
  <1>1. /\ InOrder' /\ deferred' \in Seq(Pcs) /\ pc' \in Pcs \cup {"serve"} /\ open' \subseteq Things
        /\ feed' \in [Feeds -> {"none", "syncing", "waiting", "done"}]
    <2>1. /\ feed' \in [Feeds -> {"none", "syncing", "waiting", "done"}]
          /\ \A f \in Feeds \ {x} : feed'[f] = feed[f]
      BY DEF IInv, GbTypeOK, StartFeed
    <2>2. open' = open \cup ({x} \cap Things)
      BY DEF StartFeed, Things, Feeds, Flagged
    <2> QED BY <2>1, <2>2, PushKeepsOrder DEF StartFeed
  <1>2. GbTypeOK'
    BY <1>1 DEF IInv, GbTypeOK, StartFeed
  <1>3. Counted'
    BY <1>1, OpenedIs DEF IInv, Counted, StartFeed
  <1> QED BY <1>1, <1>2, <1>3 DEF IInv

-----------------------------------------------------------------------------
(* Going down: the head of the stack is what is closed or waited for.      *)
LEMMA PopKeepsOrder ==
    ASSUME IInv, NEW x \in Pcs, Returning(x), Undefer, pc' = pc,
           open' = open \ ({x} \cap Things),
           feed' = feed,
           x \in Feeds => feed[x] \notin {"syncing", "waiting"}
    PROVE  InOrder' /\ deferred' \in Seq(Pcs)
  <1>1. deferred \in Seq(Pcs) /\ deferred # <<>> /\ x = Head(deferred) /\ pc = "return"
    BY DEF IInv, GbTypeOK, Returning
  <1>2. PICK n \in 0..6 : DefersCover(n)
    BY DEF IInv, InOrder
  <1>3. /\ n \in 1..6 /\ x = Opened[n] /\ n - 1 \in 0..6 /\ n - 1 \in 0..5 /\ (n - 1) + 1 = n
    BY <1>1, <1>2, StackMoves DEF DefersCover
  <1>4. DefersCover(n - 1)'
    <2>1. Len(deferred') = n - 1
      BY <1>1, <1>2, <1>3, StackMoves DEF Undefer, DefersCover
    <2>2. ASSUME NEW j \in 1..(n - 1) PROVE deferred'[j] = Opened[(n - 1) + 1 - j]
      <3>1. j + 1 \in 1..n /\ n + 1 - (j + 1) = (n - 1) + 1 - j
        BY <1>3
      <3>2. deferred'[j] = deferred[j + 1]
        BY <1>1, <1>2, <3>1, StackMoves DEF Undefer, DefersCover
      <3> QED BY <1>2, <3>1, <3>2 DEF DefersCover
    <2>3. InStack(n) = InStack(n - 1) \cup {x} /\ x \notin InStack(n - 1)
      BY <1>3, InStackMoves
    <2>4. open' = InStack(n - 1) \cap Things
      BY <1>2, <2>3 DEF DefersCover
    <2>5. \A f \in Feeds : feed'[f] \in {"syncing", "waiting"} => f \in InStack(n - 1)
      BY <1>2, <2>3 DEF DefersCover
    <2>6. InStack(n - 1)' = InStack(n - 1)
      BY DEF InStack, Pcs, Opened
    <2> QED BY <2>1, <2>2, <2>4, <2>5, <2>6 DEF DefersCover
  <1>5. \A i \in 1..6 : pc' # Opened[i]
    BY <1>1, OpenedIs, OneToSix
  <1>6. deferred' \in Seq(Pcs)
    BY <1>1, StackMoves DEF Undefer
  <1> QED BY <1>1, <1>3, <1>4, <1>5, <1>6 DEF InOrder

LEMMA CloseDeferredKeeps == ASSUME IInv, NEW x \in Pcs, CloseDeferred(x) PROVE IInv'
  <1>1. InOrder' /\ deferred' \in Seq(Pcs)
    <2>1. x \notin Feeds /\ open' = open \ ({x} \cap Things)
      BY DEF CloseDeferred, Things, Feeds, Flagged
    <2> QED BY <2>1, PopKeepsOrder DEF CloseDeferred
  <1>2. GbTypeOK'
    BY <1>1 DEF IInv, GbTypeOK, CloseDeferred
  <1>3. Counted'
    BY DEF IInv, Counted, Unheard, CloseDeferred
  <1> QED BY <1>1, <1>2, <1>3 DEF IInv

LEMMA WaitDeferredKeeps == ASSUME IInv, NEW x \in Pcs, WaitDeferred(x) PROVE IInv'
  <1>1. InOrder' /\ deferred' \in Seq(Pcs)
    <2>1. open' = open \ ({x} \cap Things)
      BY DEF WaitDeferred, Things, Feeds, Flagged
    <2> QED BY <2>1, PopKeepsOrder DEF WaitDeferred
  <1>2. GbTypeOK'
    BY <1>1 DEF IInv, GbTypeOK, WaitDeferred
  <1>3. Counted'
    BY DEF IInv, Counted, Unheard, WaitDeferred
  <1> QED BY <1>1, <1>2, <1>3 DEF IInv

-----------------------------------------------------------------------------
(* The listeners.                                                          *)

\* A listener that was going and reports: one fewer to hear, one more in errc.
LEMMA ReportKeepsCount ==
    ASSUME IInv, NEW l \in Listeners, l \in Unheard \/ listener[l] = "closing",
           listener' = [listener EXCEPT ![l] = "reported"],
           errc' = errc + 1, awaited' = awaited, pc' = pc
    PROVE  /\ Counted'
           /\ listener' \in [Listeners -> {"none", "serving", "closing", "reported"}]
           /\ errc' \in 0..Cardinality(Listeners)
  <1>1. listener \in [Listeners -> {"none", "serving", "closing", "reported"}]
    BY DEF IInv, GbTypeOK
  <1>2. l \in Unheard /\ listener[l] # "none"
    BY DEF Unheard
  <1>3. /\ \A k \in Listeners : listener[k] # "none"
        /\ awaited = errc + Cardinality(Unheard) /\ pc \notin Pcs
    BY <1>2 DEF IInv, Counted
  <1>4. Unheard' = Unheard \ {l}
    BY <1>1 DEF Unheard
  <1>5. Cardinality(Unheard') = Cardinality(Unheard) - 1
    BY <1>2, <1>4, UnheardIsFinite, FS_RemoveElement
  <1>6. errc \in 0..Cardinality(Listeners) /\ awaited \in 0..Cardinality(Listeners)
    BY DEF IInv, GbTypeOK
  <1>7. Cardinality(Unheard) \in Nat /\ Cardinality(Unheard') \in Nat
    <2>1. IsFiniteSet(Unheard \ {l})
      BY UnheardIsFinite, FS_Subset
    <2> QED BY <1>4, <2>1, UnheardIsFinite, FS_CardinalityType
  <1>8. errc' \in 0..Cardinality(Listeners) /\ awaited' = errc' + Cardinality(Unheard')
    BY <1>3, <1>5, <1>6, <1>7, UnheardIsFinite
  <1>9. \A k \in Listeners : listener'[k] # "none"
    BY <1>1, <1>3
  <1>10. Pcs' = Pcs
    BY DEF Pcs, Opened
  <1> QED BY <1>1, <1>3, <1>8, <1>9, <1>10 DEF Counted

\* What the stack covers does not depend on the listeners.
LEMMA OrderStays ==
    ASSUME InOrder, UNCHANGED <<deferred, open, feed>>,
           \/ pc' = pc
           \/ pc \in {"serve", "shutdown", "collect"} /\ pc' \in {"shutdown", "collect"}
           \/ pc' \in {"return", "exited"}
    PROVE  InOrder'
  <1>1. PICK n \in 0..6 :
            /\ DefersCover(n)
            /\ \A i \in 1..6 : pc = Opened[i] => n = i - 1
            /\ pc \in {"serve", "shutdown", "collect"} => n = 6
    BY DEF InOrder
  <1>2. DefersCover(n)'
    BY <1>1 DEF DefersCover, InStack, Pcs, Opened, Things, Feeds, Flagged
  <1>3. \A i \in 1..6 : pc' = Opened[i] => n = i - 1
    BY <1>1, OpenedIs, OneToSix
  <1>4. pc' \in {"serve", "shutdown", "collect"} => n = 6
    BY <1>1
  <1> QED BY <1>2, <1>3, <1>4, OpenedIs DEF InOrder

LEMMA ListenerKeeps ==
    ASSUME IInv, NEW l \in Listeners, ListenerFails(l) \/ ListenerCloses(l) PROVE IInv'
  <1>1. /\ Counted'
        /\ listener' \in [Listeners -> {"none", "serving", "closing", "reported"}]
        /\ errc' \in 0..Cardinality(Listeners)
    BY ReportKeepsCount DEF ListenerFails, ListenerCloses, Unheard
  <1>2. GbTypeOK'
    BY <1>1 DEF IInv, GbTypeOK, ListenerFails, ListenerCloses
  <1>3. InOrder'
    BY OrderStays DEF IInv, ListenerFails, ListenerCloses
  <1> QED BY <1>1, <1>2, <1>3 DEF IInv

LEMMA ServeKeeps == ASSUME IInv, Serve PROVE IInv'
  <1>1. Unheard' = Listeners
    BY DEF Serve, Unheard
  <1>2. errc = 0 /\ Cardinality(Listeners) \in Nat
    BY ListenersOK, UnheardIsFinite DEF IInv, Counted, Serve
  <1>3. Counted'
    BY <1>1, <1>2, OpenedIs DEF Counted, Serve
  <1>4. GbTypeOK'
    BY <1>2 DEF IInv, GbTypeOK, Serve
  <1>5. InOrder'
    BY OrderStays DEF IInv, Serve
  <1> QED BY <1>3, <1>4, <1>5 DEF IInv

\* One report is heard.
LEMMA ServingEndsKeeps == ASSUME IInv, ServingEnds PROVE IInv'
  <1>1. /\ \A l \in Listeners : listener[l] # "none"
        /\ awaited = errc + Cardinality(Unheard)
    BY DEF IInv, Counted, ServingEnds
  <1>2. /\ errc \in Nat /\ awaited \in Nat /\ errc <= Cardinality(Listeners)
        /\ awaited <= Cardinality(Listeners)
    BY UnheardIsFinite DEF IInv, GbTypeOK
  <1>3. awaited' = errc' + Cardinality(Unheard)
    BY <1>1, <1>2, UnheardIsFinite DEF ServingEnds
  <1>4. errc' \in 0..Cardinality(Listeners) /\ awaited' \in 0..Cardinality(Listeners)
    BY <1>2, UnheardIsFinite DEF ServingEnds, IInv, GbTypeOK
  <1>5. Unheard' = Unheard
    BY DEF Unheard, ServingEnds
  <1>6. Counted'
    BY <1>1, <1>3, <1>5, OpenedIs DEF Counted, ServingEnds
  <1>7. GbTypeOK'
    BY <1>4 DEF IInv, GbTypeOK, ServingEnds
  <1>8. InOrder'
    BY OrderStays DEF IInv, ServingEnds
  <1> QED BY <1>6, <1>7, <1>8 DEF IInv

LEMMA ShutdownKeeps == ASSUME IInv, Shutdown PROVE IInv'
  <1>1. \A l \in Listeners : listener[l] # "none" /\ awaited = errc + Cardinality(Unheard)
    BY DEF IInv, Counted, Shutdown
  <1>2. Unheard' = Unheard /\ \A l \in Listeners : listener'[l] # "none"
    BY <1>1 DEF Unheard, Shutdown
  <1>3. Counted'
    BY <1>1, <1>2, ListenersOK, OpenedIs DEF Counted, Shutdown
  <1>4. GbTypeOK'
    BY DEF IInv, GbTypeOK, Shutdown
  <1>5. InOrder'
    BY OrderStays DEF IInv, Shutdown
  <1> QED BY <1>3, <1>4, <1>5 DEF IInv

LEMMA CollectKeeps == ASSUME IInv, Collect PROVE IInv'
  <1>1. /\ \A l \in Listeners : listener[l] # "none"
        /\ awaited = errc + Cardinality(Unheard)
    BY DEF IInv, Counted, Collect
  <1>2. /\ errc \in Nat /\ awaited \in Nat /\ errc <= Cardinality(Listeners)
        /\ awaited <= Cardinality(Listeners)
    BY UnheardIsFinite DEF IInv, GbTypeOK
  <1>3. awaited' = errc' + Cardinality(Unheard)
    BY <1>1, <1>2, UnheardIsFinite DEF Collect
  <1>4. errc' \in 0..Cardinality(Listeners) /\ awaited' \in 0..Cardinality(Listeners)
    BY <1>2, UnheardIsFinite DEF Collect, IInv, GbTypeOK
  <1>5. Unheard' = Unheard
    BY DEF Unheard, Collect
  <1>6. Counted'
    BY <1>1, <1>3, <1>5, OpenedIs DEF Counted, Collect
  <1>7. GbTypeOK'
    BY <1>4 DEF IInv, GbTypeOK, Collect
  <1>8. InOrder'
    BY OrderStays DEF IInv, Collect
  <1> QED BY <1>6, <1>7, <1>8 DEF IInv

-----------------------------------------------------------------------------
\* A step of a feed's goroutine goes nowhere that was not already covered.
LEMMA FeedKeeps ==
    ASSUME IInv, NEW f \in Feeds, FeedSyncEnds(f) \/ SyncAgain(f) \/ FeedEnds(f) PROVE IInv'
  <1>1. /\ feed \in [Feeds -> {"none", "syncing", "waiting", "done"}]
        /\ feed[f] \in {"syncing", "waiting"}
    BY DEF IInv, GbTypeOK, FeedSyncEnds, SyncAgain, FeedEnds
  <1>2. \E next \in {"syncing", "waiting", "done"} : feed' = [feed EXCEPT ![f] = next]
    BY DEF FeedSyncEnds, SyncAgain, FeedEnds
  <1>3. feed' \in [Feeds -> {"none", "syncing", "waiting", "done"}]
    BY <1>1, <1>2
  <1>4. \A g \in Feeds : feed'[g] \in {"syncing", "waiting"} => feed[g] \in {"syncing", "waiting"}
    BY <1>1, <1>2
  <1>5. UNCHANGED <<pc, deferred, signal, failed, open, stopped, listener, errc, awaited>>
    BY DEF FeedSyncEnds, SyncAgain, FeedEnds
  <1>6. InOrder'
    <2>1. PICK n \in 0..6 :
            /\ DefersCover(n)
            /\ \A i \in 1..6 : pc = Opened[i] => n = i - 1
            /\ pc \in {"serve", "shutdown", "collect"} => n = 6
      BY DEF IInv, InOrder
    <2>2. DefersCover(n)'
      BY <1>4, <1>5, <2>1 DEF DefersCover, InStack, Pcs, Opened, Things, Feeds, Flagged
    <2> QED BY <1>5, <2>1, <2>2 DEF InOrder, Opened
  <1>7. GbTypeOK'
    BY <1>3, <1>5 DEF IInv, GbTypeOK, Pcs, Opened, Things, Feeds, Flagged
  <1>8. Counted'
    BY <1>5 DEF IInv, Counted, Unheard, Pcs, Opened
  <1> QED BY <1>6, <1>7, <1>8 DEF IInv

\* The steps of run and of its context that leave the listeners alone too.
LEMMA PlainKeeps ==
    ASSUME IInv, \/ ComingUpFails \/ StopDeferred \/ Exit \/ SignalArrives \/ UNCHANGED gbVars
    PROVE  IInv'
  <1>1. /\ UNCHANGED <<deferred, open, feed, listener, errc, awaited>>
        /\ \/ pc' = pc
           \/ pc' \in {"return", "exited"}
        /\ signal' \in BOOLEAN /\ failed' \in BOOLEAN /\ stopped' \in BOOLEAN
    BY DEF IInv, GbTypeOK, ComingUpFails, StopDeferred, Exit, SignalArrives, gbVars
  <1>2. GbTypeOK'
    BY <1>1 DEF IInv, GbTypeOK
  <1>3. InOrder'
    BY <1>1, OrderStays DEF IInv
  <1>4. Counted'
    BY <1>1, OpenedIs DEF IInv, Counted, Unheard
  <1> QED BY <1>2, <1>3, <1>4 DEF IInv

LEMMA StepKeeps == IInv /\ [GbNext]_gbVars => IInv'
  <1> SUFFICES ASSUME IInv, [GbNext]_gbVars PROVE IInv'
    OBVIOUS
  <1>1. ASSUME NEW x \in Pcs, Open(x) PROVE IInv'
    BY <1>1, OpenKeeps
  <1>2. ASSUME NEW x \in Pcs, StartFeed(x) PROVE IInv'
    BY <1>2, StartFeedKeeps
  <1>3. ASSUME NEW x \in Pcs, CloseDeferred(x) PROVE IInv'
    BY <1>3, CloseDeferredKeeps
  <1>4. ASSUME NEW x \in Pcs, WaitDeferred(x) PROVE IInv'
    BY <1>4, WaitDeferredKeeps
  <1>5. CASE Serve
    BY <1>5, ServeKeeps
  <1>6. CASE ServingEnds
    BY <1>6, ServingEndsKeeps
  <1>7. CASE Shutdown
    BY <1>7, ShutdownKeeps
  <1>8. CASE Collect
    BY <1>8, CollectKeeps
  <1>9. CASE ComingUpFails \/ StopDeferred \/ Exit \/ SignalArrives \/ UNCHANGED gbVars
    BY <1>9, PlainKeeps
  <1>10. ASSUME NEW l \in Listeners, ListenerFails(l) \/ ListenerCloses(l) PROVE IInv'
    BY <1>10, ListenerKeeps
  <1>11. ASSUME NEW f \in Feeds, FeedSyncEnds(f) \/ SyncAgain(f) \/ FeedEnds(f) PROVE IInv'
    BY <1>11, FeedKeeps
  <1> QED BY <1>1, <1>2, <1>3, <1>4, <1>5, <1>6, <1>7, <1>8, <1>9, <1>10, <1>11
       DEF GbNext, Main, GbFinished

\* What is covered by the stack is in the order of the defers.
LEMMA InOrderIsEnough == IInv => ComesDownInOrder
  <1> SUFFICES ASSUME IInv PROVE ComesDownInOrder
    OBVIOUS
  <1>1. PICK n \in 0..6 : DefersCover(n)
    BY DEF IInv, InOrder
  <1>2. \A i \in 1..6 : Opened[i] \in InStack(n) <=> i <= n
    BY InStackMoves
  <1>3. /\ "store" \in open => "audit" \in open
        /\ n >= 2 => "store" \in open
    BY <1>1, <1>2, OpenedIs DEF DefersCover, Things
  <1>4. \A f \in Feeds : f \in InStack(n) => n >= 2
    BY <1>2, OpenedIs DEF Feeds, Flagged
  <1>5. StoreOutlivesFeeds
    BY <1>1, <1>3, <1>4 DEF StoreOutlivesFeeds, DefersCover
  <1>6. ReportsAreCounted
    BY DEF IInv, GbTypeOK, Counted, Unheard, ReportsAreCounted
  <1> QED BY <1>5, <1>6 DEF IInv, ComesDownInOrder

\* In every execution feeds are gone before the store closes, the store before
\* the audit trail, and run waits for exactly the reports that are still to
\* come: what its defers and the loop of serve are written for.
THEOREM ComesDown == GbSpec => []ComesDownInOrder
  <1>1. GbSpec => []IInv
    BY InitHolds, StepKeeps, PTL DEF GbSpec
  <1> QED BY <1>1, InOrderIsEnough, PTL
=============================================================================
