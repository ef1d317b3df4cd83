------------------------------ MODULE MCStores ------------------------------
(* Small instances of the storage drivers for TLC.  One behaviour is about  *)
(* one driver and one desk (the documents with one of the things people do  *)
(* about them), because the desks meet only through the documents.          *)
EXTENDS Stores

CONSTANTS Drivers, Desks
VARIABLES driver, desk

\* Names, with one that differs in case only.
MCLower == [n \in {"drive", "Drive", "ann", "bob", "bob@x", "guests"} |->
              IF n = "Drive" THEN "drive" ELSE n]
ref(source, value) == [source |-> source, value |-> value]

\* Ann is in the group of guests; Bob is known to the drive by his address.
Ann == [tenant |-> "t1", subject |-> "ann", identities |-> <<>>,
        groups |-> {<<"drive", "guests">>}, version |-> 1, roles |-> {}]
Bob == [tenant |-> "t1", subject |-> "bob", identities |-> <<ref("drive", "bob@x")>>,
        groups |-> {}, version |-> 1, roles |-> {}]
Eve == [tenant |-> "t2", subject |-> "ann", identities |-> <<>>,
        groups |-> {<<"drive", "guests">>}, version |-> 1, roles |-> {}]
MCPrincipals == {Ann, Bob, Eve}
MCCallers == {Ann, Bob}

Open0 == [mode |-> "public", owner |-> Nobody, allowUsers |-> {}, allowGroups |-> {},
          denyUsers |-> {}, denyGroups |-> {}]
Held0 == [Open0 EXCEPT !.mode = "unknown"]
NotBob == [Open0 EXCEPT !.denyUsers = {ref("Drive", "bob@x")}]
Guests == [Open0 EXCEPT !.mode = "acl", !.allowGroups = {ref("drive", "guests")}]
Bobs == [Open0 EXCEPT !.mode = "owner", !.owner = ref("Drive", "bob@x")]
MCDescriptors == {Held0, Guests}

person(s) == [subject |-> s, email |-> ""]
MCPeople == {person("ann"), person("bob")}
Doc(tenant, perms, owner, terms, kind, modified) ==
  [tenant |-> tenant, source |-> "drive", kind |-> kind, perms |-> perms,
   author |-> [subject |-> "", email |-> "bob@x"], owner |-> person(owner),
   modified |-> modified, terms |-> terms, version |-> modified, content |-> None]
DocA == Doc("t1", NotBob, "ann", {"x"}, "page", 1)
DocB == [Doc("t1", Guests, "bob", {"x", "y"}, "file", 2) EXCEPT !.content = "bytes"]
DocC == Doc("t2", Open0, "ann", {"y"}, "page", 0)
DocD == Doc("t1", Bobs, "bob", {"y"}, "page", 2)
DocH == Doc("t1", Held0, "bob", {"x"}, "page", 1)
one(id, d) == <<[id |-> id, doc |-> d]>>
MCBatches == {one("d1", DocD), one("d1", DocH), one("d1", DocC) \o one("d2", DocB),
              one("d1", DocB) \o one("d1", DocA)}

request(kinds, owners, since, until, terms) ==
  [kinds |-> kinds, owners |-> owners, since |-> since, until |-> until, terms |-> terms]
MCRequests == {request({}, {}, 0, 0, {"x"}), request({"page"}, {"bob"}, 0, 0, {}),
               request({"page"}, {}, 2, 0, {"x", "y"}), request({}, {}, 0, 1, {})}
MCCurations == {[id |-> "a1", keys |-> <<"q", "r">>], [id |-> "a2", keys |-> <<"r">>],
                [id |-> "a1", keys |-> <<"q">>]}

\* Which calls the desks leave out.  Permissions change at the desks of
\* documents and verifications only, elsewhere d1 alone is deleted.  Two
\* servers write at once at the desk of documents; at the desk of owners the
\* second only corrects d1; at the others it rests.
Simple(call) ==
  \/ desk \in {"docs", "verify"}
  \/ call.op = "put"
  \/ call.op = "delete" /\ call.items = <<"d1">>
  \/ call.op \notin {"put", "delete", "perms"}
SqFewer == sqTx' = None \/ Simple(sqTx'.call)
PgFewer ==
  /\ \A c \in {pgCall'["s2"]} \ {pgIdle} :
       \/ /\ desk = "docs"
          /\ c.call \in {[op |-> "delete", ids |-> {"d1"}], [op |-> "put", batch |-> one("d1", DocD)]}
       \/ desk = "own" /\ c.call.op \in {"own", "disown"} /\ c.call.id = "d1" /\ c.call.p = Ann
  /\ \A c \in {pgCall'["s1"]} \ {pgIdle} :
       /\ c.call.op = "delete" => c.call.ids = {"d1"} \/ desk = "verify"
       /\ c.call.op = "perms" => c.call.ids = Ids /\ c.call.tenant = "t1" /\ desk \in {"docs", "verify"}
MCBuilds == [s \in {"s1", "s2"} |-> IF s = "s1" THEN 2 ELSE 3]

Init == /\ driver \in Drivers /\ desk \in Desks
        /\ desk \in {"docs", "stream", "schema"} => driver = "pg"
        /\ MemInit /\ SqInit /\ PgInit

Next ==
  /\ UNCHANGED <<driver, desk>>
  /\ \/ /\ driver = "mem" /\ UNCHANGED <<sqVars, pgVars>>
        /\ \/ /\ \/ MemDocNext /\ desk \notin {"answers", "feeds"}
                 \/ desk = "verify" /\ MemVerifyNext
                 \/ desk = "own" /\ MemOwnNext
                 \/ desk = "report" /\ MemReportNext
                 \/ desk = "answers" /\ MemAnswerNext
                 \/ desk = "feeds" /\ MemFeedNext
                 \/ desk = "verify" /\ MemClose
              /\ UNCHANGED memOpens
           \/ desk = "history" /\ MemHistoryNext
     \/ /\ driver = "sqlite" /\ UNCHANGED <<memVars, pgVars>>
        /\ \/ SqDocNext /\ desk \notin {"answers", "feeds"} /\ SqFewer
           \/ desk = "verify" /\ SqVerifyNext
           \/ desk = "own" /\ SqOwnNext
           \/ desk = "report" /\ SqReportNext
           \/ desk = "answers" /\ (SqAnswerNext \/ SqStep \/ SqCommit \/ SqRollback)
           \/ desk = "feeds" /\ SqFeedNext
           \/ desk = "history" /\ SqHistoryNext /\ sqOpening' \subseteq ({Ann} \X Ids)
           \/ desk = "verify" /\ SqClose
     \/ /\ driver = "pg" /\ UNCHANGED <<memVars, sqVars>>
        /\ \/ PgDocNext /\ desk \notin {"answers", "feeds", "schema"} /\ PgFewer
           \/ desk = "verify" /\ (PgVerifyNext \/ PgClose("s2"))
           \/ desk = "own" /\ PgOwnNext /\ pgCall'["s1"] = pgCall["s1"]
           \/ desk = "report" /\ PgReportNext
           \/ desk = "answers" /\ (PgAnswerNext \/ PgWorkNext)
           \/ desk = "feeds" /\ PgFeedNext
           \/ desk = "history" /\ PgHistoryNext /\ pgOpening' \subseteq ({Ann} \X Ids)
           \/ desk = "stream" /\ PgStreamNext
           \/ desk = "schema" /\ PgSchemaNext

Spec == Init /\ [][Next]_<<driver, desk, memVars, sqVars, pgVars>>
=============================================================================
