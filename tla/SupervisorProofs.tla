-------------------------- MODULE SupervisorProofs --------------------------
(***************************************************************************)
(* Proofs about Supervisor, for every number of crawlers and every setting *)
(* of a connector, when one request is in progress at a time and Shutdown  *)
(* sees it out.                                                            *)
(*                                                                         *)
(* The argument is about who has hold of a crawler.  Each of the places    *)
(* that can name one (the map, the request that halts or launches, stop)   *)
(* is empty while another is not, so there is one crawler at most, and it  *)
(* was built from the feed that is configured.                             *)
(***************************************************************************)
EXTENDS Supervisor, TLAPS

\* Requests come one at a time and are seen out by Shutdown.
Serial == (\A a, b \in Admins : a = b) /\ "grace" \notin Faults

In(a, pcs) == req[a].pc \in pcs
Some(pcs) == \E a \in Admins : In(a, pcs)

\* The steps of a request at which the map names no crawler.
Between == {"wait", "disable", "drop", "delete", "forget", "build", "started"}

\* Who will see a crawler out, or put it in the map.
Taken(c) ==
    \/ c = running
    \/ c = last
    \/ \E a \in Admins : In(a, {"wait", "started"}) /\ req[a].runner = c

Crawlers ==
    /\ \A c \in Slots : crawler[c].at # "free" => Taken(c)
    /\ \A c \in Slots : crawler[c].at = "done" => crawler[c].cancelled
    /\ running # None => ~Some(Between) /\ Live(running) /\ ~crawler[running].cancelled
    /\ last # None => crawler[last].at # "free" /\ crawler[last].cancelled
    /\ \A a \in Admins : In(a, {"wait"}) /\ req[a].runner # None =>
           crawler[req[a].runner].at # "free" /\ crawler[req[a].runner].cancelled
    /\ \A a \in Admins : In(a, {"started"}) =>
           /\ req[a].runner # None
           /\ Live(req[a].runner) /\ ~crawler[req[a].runner].cancelled
           /\ crawler[req[a].runner].cfg = req[a].feed.cfg

Phases ==
    /\ phase \in {"down", "stopping", "closed"} => Quiet /\ running = None
    /\ phase \in {"down", "closed"} => \A c \in Slots : crawler[c] = Free
    /\ phase = "down" => config = None /\ row = None /\ banner = "none"
    /\ phase # "stopping" => last = None

\* What a request is about, at each of its steps.
Requests ==
    \A a \in Admins :
        /\ In(a, {"known"}) => req[a].op # "add"
        /\ In(a, {"read"}) => req[a].op \in {"start", "stop"}
        /\ In(a, {"save", "config"}) => req[a].op \in {"add", "start", "stop"} /\ req[a].feed # None
        /\ In(a, {"save", "config"}) /\ req[a].op = "start" => config # None /\ ~config.on /\ req[a].feed.on
        /\ In(a, {"halt", "wait"}) => req[a].op \in {"add", "remove", "stop"}
        /\ In(a, {"halt", "wait", "disable"}) /\ req[a].op # "remove" =>
               req[a].feed # None /\ config = req[a].feed
        /\ In(a, {"disable"}) => req[a].op \in {"add", "stop"}
        /\ In(a, {"build", "started", "enable"}) =>
               req[a].feed # None /\ config = req[a].feed /\ req[a].feed.on

\* The store is a write ahead of the map, and only while a request writes.
Stored ==
    /\ phase # "down" /\ ~Some({"config", "delete"}) => saved = config
    /\ \A a \in Admins : In(a, {"config"}) => saved = req[a].feed
    /\ Some({"delete"}) => saved = None
    /\ Some({"forget"}) => config = None

\* A request has a new feed in the map and the old crawler still to halt.
Replacing == \E a \in Admins : In(a, {"halt"}) /\ req[a].op # "remove"

Configured ==
    /\ running # None => /\ config # None
                         /\ Replacing \/ (config.on /\ crawler[running].cfg = config.cfg)
    /\ running # None \/ Some({"started"}) => row # None /\ row.enabled

Screen ==
    /\ row # None => config # None \/ Some({"forget"})
    /\ row # None /\ row.syncing => row.runs /\ \E c \in Slots : crawler[c].at = "syncing"
    /\ banner = "reading" => \E c \in Slots : /\ crawler[c].at \in {"starting"} \cup Writing
                                              /\ crawler[c].tracked

IInv ==
    /\ TypeOK
    /\ Crawlers
    /\ Phases
    /\ Requests
    /\ Stored
    /\ Configured
    /\ Screen

-----------------------------------------------------------------------------
(* Fields: what a crawler in use, and a request in progress, are made of.  *)

Used == [at: {"starting", "waiting", "done"} \cup Writing, cfg: Settings,
         cancelled: BOOLEAN, trigger: BOOLEAN, tracked: BOOLEAN]
Made == [pc: {"known", "read", "save", "config", "halt", "wait", "disable", "drop", "delete",
              "forget", "build", "started", "enable", "sync"},
         op: Ops, feed: Feed \cup {None}, runner: Slots \cup {None}]

LEMMA InUse ==
    ASSUME TypeOK, NEW c \in Slots
    PROVE  (crawler[c].at # "free" => crawler[c] \in Used) /\ (crawler[c].at = "free" <=> crawler[c] = Free)
  BY DEF TypeOK, Crawler, Used, Free, Writing

LEMMA InProgress ==
    ASSUME TypeOK, NEW a \in Admins, ~At(a, "idle") PROVE req[a] \in Made
  BY DEF TypeOK, Request, Made, Idle, At

\* One field of a crawler changes.
LEMMA Changed ==
    ASSUME TypeOK, NEW c \in Slots, crawler[c].at # "free", NEW u \in Used,
           crawler' = [crawler EXCEPT ![c] = u]
    PROVE  /\ crawler' \in [Slots -> Crawler]
           /\ crawler'[c] = u /\ u.at # "free"
           /\ \A e \in Slots \ {c} : crawler'[e] = crawler[e]
  BY DEF TypeOK, Crawler, Used, Writing

\* A step of the crawler c, which goes to at.
Moves(c, at) ==
    /\ crawler' \in [Slots -> Crawler]
    /\ \A e \in Slots \ {c} : crawler'[e] = crawler[e]
    /\ crawler[c].at \notin {"free", "done", at}
    /\ crawler'[c].at = at
    /\ crawler'[c].cfg = crawler[c].cfg
    /\ crawler'[c].cancelled = crawler[c].cancelled
    /\ crawler'[c].tracked = crawler[c].tracked
    /\ at \in {"waiting", "done"} \cup Writing
    /\ at = "done" => crawler[c].cancelled
    /\ UNCHANGED <<phase, saved, config, running, firstRun, req, last>>

LEMMA CrawlsMoves ==
    ASSUME TypeOK, NEW c \in Slots, NEW at, NEW next \in {"waiting", "done"} \cup Writing,
           at \notin {"free", "done", next}, next = "done" => crawler[c].cancelled,
           Crawls(c, at, next)
    PROVE  Moves(c, next) /\ crawler[c].at = at
  <1> DEFINE u == [crawler[c] EXCEPT !.at = next]
  <1>1. crawler[c] \in Used /\ crawler[c].at = at /\ crawler' = [crawler EXCEPT ![c] = u]
    BY InUse DEF Crawls, TypeOK
  <1>2. /\ u \in Used /\ u.at = next /\ u.cfg = crawler[c].cfg /\ u.cancelled = crawler[c].cancelled
        /\ u.tracked = crawler[c].tracked
    BY <1>1 DEF Used, Writing
  <1> HIDE DEF u
  <1>3. crawler' \in [Slots -> Crawler] /\ crawler'[c] = u /\ \A e \in Slots \ {c} : crawler'[e] = crawler[e]
    BY <1>1, <1>2, Changed
  <1> QED BY <1>1, <1>2, <1>3 DEF Moves, Crawls

LEMMA CrawlMoves ==
    ASSUME TypeOK, NEW c \in Slots, Crawl(c)
    PROVE  \/ Moves(c, "syncing") /\ Starting /\ UNCHANGED banner
           \/ Moves(c, "sweeping") /\ crawler[c].at = "syncing" /\ Finished /\ UNCHANGED banner
           \/ /\ Moves(c, "waiting") /\ crawler[c].at = "sweeping"
              /\ banner' = IF crawler[c].tracked THEN "over" ELSE banner
              /\ UNCHANGED row
           \/ Moves(c, "done") /\ crawler[c].at = "waiting" /\ UNCHANGED <<row, banner>>
  <1> USE DEF Writing
  <1>1. CASE FirstSync(c) \/ Tick(c)
    BY <1>1, CrawlsMoves DEF FirstSync, Tick
  <1>2. CASE Hurried(c)
    <2> DEFINE u == [crawler[c] EXCEPT !.at = "syncing", !.trigger = FALSE]
    <2>1. crawler[c] \in Used /\ crawler' = [crawler EXCEPT ![c] = u] /\ crawler[c].at = "waiting"
      BY <1>2, InUse DEF Hurried, TypeOK
    <2>2. /\ u \in Used /\ u.at = "syncing" /\ u.cfg = crawler[c].cfg /\ u.cancelled = crawler[c].cancelled
          /\ u.tracked = crawler[c].tracked
      BY <2>1 DEF Used
    <2> HIDE DEF u
    <2>3. crawler' \in [Slots -> Crawler] /\ crawler'[c] = u /\ \A e \in Slots \ {c} : crawler'[e] = crawler[e]
      BY <2>1, <2>2, Changed
    <2>4. Moves(c, "syncing")
      BY <1>2, <2>1, <2>2, <2>3 DEF Moves, Hurried
    <2> QED BY <1>2, <2>4 DEF Hurried
  <1>3. CASE SyncEnds(c)
    BY <1>3, CrawlsMoves DEF SyncEnds
  <1>4. CASE SweepEnds(c)
    BY <1>4, CrawlsMoves DEF SweepEnds
  <1>5. CASE Leave(c)
    BY <1>5, CrawlsMoves DEF Leave
  <1> QED BY <1>1, <1>2, <1>3, <1>4, <1>5 DEF Crawl


\* What happens to the row when a crawler, or a request, writes in it.
Kept == (row' = None <=> row = None) /\ row' \in Row \cup {None}

LEMMA RowStarts ==
    ASSUME row \in Row \cup {None}, Starting
    PROVE  Kept /\ (row # None => row'.enabled = row.enabled /\ row'.syncing /\ row'.runs)
  <1>1. CASE row \in Row
    <2>1. row' = [row EXCEPT !.syncing = TRUE, !.runs = TRUE]
      BY <1>1, NoneIsNothing DEF Starting
    <2> QED BY <1>1, <2>1, NoneIsNothing DEF Row, Kept
  <1>2. CASE row = None
    BY <1>2 DEF Starting, Kept
  <1> QED BY <1>1, <1>2

LEMMA RowFinishes ==
    ASSUME row \in Row \cup {None}, Finished
    PROVE  Kept /\ (row # None => /\ row'.enabled = row.enabled
                                  /\ row'.syncing => row.syncing /\ ~row.runs)
  <1>1. CASE row \in Row /\ row.runs
    <2>1. row' = [row EXCEPT !.syncing = FALSE]
      BY <1>1, NoneIsNothing DEF Finished
    <2> QED BY <1>1, <2>1, NoneIsNothing DEF Row, Kept
  <1>2. CASE UNCHANGED row /\ (row = None \/ ~row.runs)
    BY <1>2 DEF Kept
  <1> QED BY <1>1, <1>2 DEF Finished, Row

LEMMA RowIsEnabled ==
    ASSUME row \in Row \cup {None}, NEW on \in BOOLEAN, EnableRow(on)
    PROVE  Kept /\ (row # None => /\ row'.enabled = on
                                  /\ row'.syncing => on /\ row.syncing
                                  /\ row'.runs = row.runs)
  <1>1. CASE row \in Row
    <2>1. row' = [row EXCEPT !.enabled = on, !.syncing = on /\ @]
      BY <1>1, NoneIsNothing DEF EnableRow
    <2> QED BY <1>1, <2>1, NoneIsNothing DEF Row, Kept
  <1>2. CASE row = None
    BY <1>2 DEF EnableRow, Kept
  <1> QED BY <1>1, <1>2

LEMMA RowIsRegistered ==
    ASSUME row \in Row \cup {None}, NEW on \in BOOLEAN, Register(on)
    PROVE  /\ row' \in Row /\ row' # None /\ row'.enabled = on
           /\ row'.syncing => row # None /\ row.syncing /\ row'.runs = row.runs
  <1>1. row # None => row \in Row
    OBVIOUS
  <1>2. row' \in Row /\ row'.enabled = on
    BY <1>1 DEF Register, Row
  <1>3. row'.syncing => row # None /\ row.syncing
    BY DEF Register
  <1>4. row # None => row'.runs = row.runs
    BY <1>1 DEF Register, Row
  <1> QED BY <1>2, <1>3, <1>4, NoneIsNothing

-----------------------------------------------------------------------------
(* The steps of a crawler.                                                 *)

LEMMA CrawlStep == ASSUME IInv, NEW c \in Slots, Crawl(c) PROVE IInv'
  <1> USE DEF IInv
  <1>1. PICK at \in {"waiting", "done"} \cup Writing :
            /\ Moves(c, at)
            /\ \/ at = "syncing" /\ Starting /\ UNCHANGED banner
               \/ at = "sweeping" /\ crawler[c].at = "syncing" /\ Finished /\ UNCHANGED banner
               \/ /\ at = "waiting" /\ crawler[c].at = "sweeping"
                  /\ banner' = IF crawler[c].tracked THEN "over" ELSE banner
                  /\ UNCHANGED row
               \/ at = "done" /\ crawler[c].at = "waiting" /\ UNCHANGED <<row, banner>>
    BY CrawlMoves DEF Writing
  <1>2. /\ crawler' \in [Slots -> Crawler]
        /\ \A e \in Slots \ {c} : crawler'[e] = crawler[e]
        /\ crawler[c].at \notin {"free", "done", at} /\ crawler'[c].at = at /\ at # "free"
        /\ crawler'[c].cfg = crawler[c].cfg
        /\ crawler'[c].cancelled = crawler[c].cancelled
        /\ crawler'[c].tracked = crawler[c].tracked
        /\ at = "done" => crawler[c].cancelled
        /\ UNCHANGED <<phase, saved, config, running, firstRun, req, last>>
    BY <1>1 DEF Moves, Writing
  <1>3. Kept /\ (row # None => row'.enabled = row.enabled)
    <2>1. row \in Row \cup {None}
      BY DEF TypeOK
    <2>2. CASE UNCHANGED row
      BY <2>1, <2>2 DEF Kept
    <2> QED BY <1>1, <2>1, <2>2, RowStarts, RowFinishes
  <1>4. \A P : Some(P)' <=> Some(P)
    BY <1>2 DEF Some, In
  <1>5. TypeOK'
    BY <1>1, <1>2, <1>3 DEF TypeOK, Kept
  <1>6. /\ running # None => running \in Slots /\ Live(running)'
        /\ last # None => last \in Slots
        /\ \A a \in Admins : In(a, {"wait", "started"}) /\ req[a].runner # None => req[a].runner \in Slots
    <2>1. \A a \in Admins : In(a, {"wait", "started"}) => req[a] \in Made
      BY InProgress DEF In, At
    <2> QED BY <1>2, <2>1 DEF TypeOK, Crawlers, Live, Made
  <1>7. Crawlers'
    <2>1. \A e \in Slots : /\ crawler'[e].at = "free" <=> crawler[e].at = "free"
                           /\ crawler'[e].cancelled = crawler[e].cancelled
                           /\ crawler'[e].cfg = crawler[e].cfg
                           /\ crawler'[e].at = "done" => crawler[e].at = "done" \/ crawler[e].cancelled
      BY <1>2
    <2>2. \A e \in Slots : Taken(e)' <=> Taken(e)
      BY <1>2 DEF Taken, In
    <2> HIDE DEF IInv
    <2>3. \A e \in Slots : crawler'[e].at # "free" => Taken(e)'
      BY <2>1, <2>2 DEF IInv, Crawlers
    <2>4. \A e \in Slots : crawler'[e].at = "done" => crawler'[e].cancelled
      BY <2>1 DEF IInv, Crawlers
    <2>5. running' # None => ~Some(Between)' /\ Live(running)' /\ ~crawler'[running].cancelled
      BY <1>2, <1>4, <1>6, <2>1 DEF IInv, Crawlers
    <2>6. last' # None => crawler'[last].at # "free" /\ crawler'[last].cancelled
      BY <1>2, <1>6, <2>1 DEF IInv, Crawlers
    <2>7. \A a \in Admins : In(a, {"wait"}) /\ req[a].runner # None =>
              crawler'[req[a].runner].at # "free" /\ crawler'[req[a].runner].cancelled
      BY <1>6, <2>1 DEF IInv, Crawlers, In
    <2>8. \A a \in Admins : In(a, {"started"}) =>
             /\ req[a].runner # None
             /\ Live(req[a].runner)' /\ ~crawler'[req[a].runner].cancelled
             /\ crawler'[req[a].runner].cfg = req[a].feed.cfg
      BY <1>2, <1>6, <2>1 DEF IInv, Crawlers, In, Live
    <2> QED BY <1>2, <2>3, <2>4, <2>5, <2>6, <2>7, <2>8 DEF Crawlers, In
  <1>8. Phases'
    <2>1. crawler[c] # Free
      BY <1>2 DEF Free
    <2>2. phase \notin {"down", "closed"} /\ (Quiet' <=> Quiet)
      BY <1>2, <2>1 DEF Phases, Quiet, At
    <2> QED BY <1>2, <2>2 DEF Phases
  <1>9. Requests' /\ Stored'
    BY <1>2, <1>4 DEF Requests, Stored, In
  <1>10. Configured'
    <2>1. Replacing' <=> Replacing
      BY <1>2 DEF Replacing, In
    <2>2. running # None => crawler'[running].cfg = crawler[running].cfg
      BY <1>2, <1>6
    <2> QED BY <1>2, <1>3, <1>4, <2>1, <2>2 DEF Configured, Kept
  <1>11. Screen'
    <2>1. row' # None => config' # None \/ Some({"forget"})'
      BY <1>2, <1>3, <1>4 DEF Screen, Kept
    <2>2. ASSUME row' # None, row'.syncing
          PROVE  row'.runs /\ \E e \in Slots : crawler'[e].at = "syncing"
      <3>1. row \in Row \cup {None} /\ row # None
        BY <1>3, <2>2 DEF TypeOK, Kept
      <3>2. CASE at = "syncing" /\ Starting
        BY <1>2, <2>2, <3>1, <3>2, RowStarts
      <3>3. CASE at = "sweeping" /\ Finished
        BY <2>2, <3>1, <3>3, RowFinishes DEF Screen
      <3>4. CASE at \in {"waiting", "done"} /\ UNCHANGED row /\ crawler[c].at # "syncing"
        <4>1. PICK e \in Slots : row.runs /\ crawler[e].at = "syncing"
          BY <2>2, <3>1, <3>4 DEF Screen
        <4> QED BY <1>2, <3>4, <4>1
      <3> QED BY <1>1, <3>2, <3>3, <3>4
    <2>3. ASSUME banner' = "reading"
          PROVE  \E e \in Slots : crawler'[e].at \in {"starting"} \cup Writing /\ crawler'[e].tracked
      <3>1. banner = "reading" /\ ~(at = "waiting" /\ crawler[c].tracked)
        BY <1>1, <2>3
      <3>2. PICK e \in Slots : crawler[e].at \in {"starting"} \cup Writing /\ crawler[e].tracked
        BY <3>1 DEF Screen
      <3>3. e = c => at \in Writing
        BY <1>1, <3>1, <3>2 DEF Writing
      <3> QED BY <1>2, <3>2, <3>3
    <2> QED BY <2>1, <2>2, <2>3 DEF Screen
  <1> QED BY <1>5, <1>7, <1>8, <1>9, <1>10, <1>11

-----------------------------------------------------------------------------
(* The steps of a request, which is the only one.                          *)

Steps == {"known", "read", "save", "config", "halt", "wait", "disable", "drop", "delete",
          "forget", "build", "started", "enable", "sync"}

LEMMA Alone ==
    ASSUME Serial, NEW a \in Admins
    PROVE  /\ Admins = {a}
           /\ \A P : (Some(P) <=> In(a, P)) /\ (Some(P)' <=> In(a, P)')
           /\ Quiet <=> At(a, "idle")
  BY DEF Serial, Some, In, Quiet, At

\* The request a goes on at pc, or returns.
Became(a, pc) ==
    /\ req' \in [Admins -> Request]
    /\ req'[a].pc = pc
    /\ pc # "idle" => UNCHANGED <<req[a].op, req[a].feed>>

LEMMA Goes ==
    ASSUME TypeOK, NEW a \in Admins, ~At(a, "idle"), NEW pc \in Steps, Goto(a, pc)
    PROVE  Became(a, pc) /\ req'[a].runner = req[a].runner
  <1> DEFINE q == [req[a] EXCEPT !.pc = pc]
  <1>1. req[a] \in Made
    BY InProgress
  <1>2. q \in Made /\ q.pc = pc /\ q.op = req[a].op /\ q.feed = req[a].feed /\ q.runner = req[a].runner
    BY <1>1 DEF Made, Steps
  <1>3. req' = [req EXCEPT ![a] = q]
    BY DEF Goto
  <1> HIDE DEF q
  <1>4. q \in Request
    BY <1>2 DEF Request, Made
  <1> QED BY <1>2, <1>3, <1>4 DEF TypeOK, Became

LEMMA Returns ==
    ASSUME TypeOK, NEW a \in Admins, Return(a) PROVE Became(a, "idle")
  BY DEF TypeOK, Return, Request, Idle, Became

LEMMA Asked_ ==
    ASSUME TypeOK, NEW a \in Admins, NEW pc \in {"known", "save"}, NEW op \in Ops,
           NEW f \in Feed \cup {None}, Ask(a, pc, op, f)
    PROVE  /\ req' \in [Admins -> Request]
           /\ req'[a].pc = pc /\ req'[a].op = op /\ req'[a].feed = f
  <1> DEFINE q == [pc |-> pc, op |-> op, feed |-> f, runner |-> None]
  <1>1. q \in Request /\ q.pc = pc /\ q.op = op /\ q.feed = f
    BY DEF Request
  <1>2. req' = [req EXCEPT ![a] = q]
    BY DEF Ask
  <1> HIDE DEF q
  <1> QED BY <1>1, <1>2 DEF TypeOK

\* Nobody gets hold of a crawler and nobody lets go of one.
LEMMA SameHands ==
    ASSUME IInv, Serial, NEW a \in Admins, UNCHANGED <<phase, crawler, running, last>>,
           phase \in {"up", "draining"},
           ~In(a, {"wait", "started"}), ~In(a, {"wait", "started"})',
           In(a, Between)' => running = None
    PROVE  Crawlers' /\ Phases'
  <1> USE DEF IInv
  <1>1. \A c \in Slots : Taken(c)' <=> Taken(c)
    BY Alone DEF Taken, In
  <1>2. Crawlers'
    <2>1. running' # None => ~Some(Between)'
      BY Alone
    <2>2. Crawlers
      OBVIOUS
    <2> HIDE DEF IInv
    <2>3. \A b \in Admins : b = a /\ ~In(b, {"wait"})' /\ ~In(b, {"started"})'
      BY Alone DEF In
    <2> QED BY <1>1, <2>1, <2>2, <2>3 DEF Crawlers, Live
  <1>3. Phases'
    BY DEF Phases
  <1> QED BY <1>2, <1>3

\* The phases a request can be in progress in.
LEMMA Serving == ASSUME IInv, NEW a \in Admins, ~At(a, "idle") PROVE phase \in {"up", "draining"}
  BY DEF IInv, TypeOK, Phases, Quiet

\* A request is made, or goes on without writing anything.
LEMMA ThinkStep ==
    ASSUME IInv, Serial, NEW a \in Admins,
           Request_(a) \/ Known(a) \/ Read(a) \/ SaveFails(a) \/ DropFails(a) \/ BuildFails(a)
    PROVE  IInv'
  <1> USE DEF IInv
  <1> USE Alone, NoneIsNothing
  <1>1. UNCHANGED <<phase, saved, config, running, crawler, row, firstRun, banner, last>>
    BY DEF Request_, Add, Remove, Start, Stop, Sync, Ask, Known, Read, SaveFails, DropFails, BuildFails
  <1>2. phase \in {"up", "draining"}
    BY Serving DEF Request_, Add, Remove, Start, Stop, Sync, Ask, Known, Read, SaveFails, DropFails,
       BuildFails, At
  <1>3. /\ req' \in [Admins -> Request]
        /\ \/ /\ req'[a].pc = "save" /\ req'[a].op = "add" /\ req'[a].feed \in Feed /\ In(a, {"idle"})
           \/ req'[a].pc = "known" /\ req'[a].op # "add" /\ In(a, {"idle"})
           \/ req'[a].pc = "idle" /\ In(a, {"known", "read", "save", "drop", "build"})
           \/ req'[a].pc \in {"sync", "halt", "read"} /\ In(a, {"known"}) /\ req'[a].op = req[a].op
              /\ (req'[a].pc = "halt" <=> req[a].op = "remove")
              /\ (req'[a].pc = "read" => req[a].op \in {"start", "stop"})
           \/ req'[a].pc = "save" /\ In(a, {"read"}) /\ req'[a].op \in {"start", "stop"}
              /\ config # None
              /\ req'[a].feed \in Feed
              /\ (req'[a].op = "start" => ~config.on /\ req'[a].feed.on)
    <2>1. CASE Request_(a)
      <3>1. \A f \in Feed : Add(a, f) => /\ req' \in [Admins -> Request]
                                         /\ req'[a].pc = "save" /\ req'[a].op = "add" /\ req'[a].feed = f
        BY Asked_ DEF Add, Ops
      <3>2. Remove(a) \/ Start(a) \/ Stop(a) \/ Sync(a) =>
                req' \in [Admins -> Request] /\ req'[a].pc = "known" /\ req'[a].op # "add"
        BY Asked_ DEF Remove, Start, Stop, Sync, Ops
      <3>3. In(a, {"idle"})
        BY <2>1 DEF Request_, Add, Remove, Start, Stop, Sync, Ask, At, In
      <3> QED BY <2>1, <3>1, <3>2, <3>3 DEF Request_
    <2>2. CASE Known(a)
      <3>1. In(a, {"known"}) /\ ~At(a, "idle") /\ req[a] \in Made
        BY <2>2, InProgress DEF Known, At, In
      <3>2. CASE Return(a)
        BY <3>1, <3>2, Returns DEF Became, In
      <3>3. CASE Goto(a, CASE req[a].op = "remove" -> "halt"
                          [] req[a].op = "sync" -> "sync"
                          [] OTHER -> "read")
        <4>1. req[a].op \in Ops /\ req[a].op # "add"
          BY <3>1 DEF Made, Requests
        <4>2. CASE req[a].op = "remove"
          BY <3>1, <3>3, <4>2, Goes DEF Became, Steps
        <4>3. CASE req[a].op = "sync"
          BY <3>1, <3>3, <4>3, Goes DEF Became, Steps
        <4>4. CASE req[a].op \in {"start", "stop"}
          BY <3>1, <3>3, <4>4, Goes DEF Became, Steps
        <4> QED BY <4>1, <4>2, <4>3, <4>4 DEF Ops
      <3> QED BY <2>2, <3>2, <3>3 DEF Known
    <2>3. CASE Read(a)
      <3>1. In(a, {"read"}) /\ ~At(a, "idle") /\ req[a] \in Made /\ req[a].op \in {"start", "stop"}
        BY <2>3, InProgress DEF Read, At, In, Requests
      <3>2. CASE Return(a)
        BY <3>1, <3>2, Returns DEF Became, In
      <3>3. CASE /\ config # None /\ config.on # (req[a].op = "start")
                 /\ req' = [req EXCEPT ![a].pc = "save", ![a].feed = [config EXCEPT !.on = (req[a].op = "start")]]
        <4> DEFINE f == [config EXCEPT !.on = (req[a].op = "start")]
                   q == [req[a] EXCEPT !.pc = "save", !.feed = f]
        <4>1. f \in Feed /\ f.on = (req[a].op = "start") /\ config.on \in BOOLEAN
          BY <3>3 DEF TypeOK, Feed
        <4>2. req' = [req EXCEPT ![a] = q]
          BY <3>3
        <4> HIDE DEF f
        <4>3. q \in Made /\ q.pc = "save" /\ q.op = req[a].op /\ q.feed = f
          BY <3>1, <4>1 DEF Made
        <4> HIDE DEF q
        <4>4. req' \in [Admins -> Request] /\ req'[a] = q
          BY <4>2, <4>3 DEF TypeOK, Request, Made
        <4> QED BY <3>1, <3>3, <4>1, <4>3, <4>4
      <3> QED BY <2>3, <3>2, <3>3 DEF Read
    <2>4. CASE SaveFails(a) \/ DropFails(a) \/ BuildFails(a)
      BY <2>4, Returns DEF SaveFails, DropFails, BuildFails, At, In, Became
    <2> QED BY <2>1, <2>2, <2>3, <2>4
  <1>4. TypeOK'
    BY <1>1, <1>3 DEF TypeOK
  <1>5. Crawlers' /\ Phases'
    <2>1. ~In(a, {"wait", "started"}) /\ ~In(a, {"wait", "started"})' /\ ~In(a, Between)'
      BY <1>3 DEF In, Between
    <2> QED BY <1>1, <1>2, <2>1, SameHands
  <1>6. Requests'
    BY <1>1, <1>3 DEF Requests, In
  <1>7. Stored'
    BY <1>1, <1>3 DEF Stored, In, Some
  <1>8. Configured'
    <2>1. Replacing' <=> Replacing
      BY <1>3 DEF Replacing, In
    <2>2. Some({"started"})' => Some({"started"})
      BY <1>3 DEF Some, In
    <2> QED BY <1>1, <2>1, <2>2 DEF Configured
  <1>9. Screen'
    <2>1. Some({"forget"}) => Some({"forget"})'
      BY <1>3 DEF In
    <2> QED BY <1>1, <2>1 DEF Screen
  <1> QED BY <1>4, <1>5, <1>6, <1>7, <1>8, <1>9

\* A request writes in the store, or in the map of configurations.
LEMMA WriteStep ==
    ASSUME IInv, Serial, NEW a \in Admins, SaveFeed(a) \/ SetConfig(a) \/ Drop(a) \/ Delete(a)
    PROVE  IInv'
  <1> USE DEF IInv
  <1> USE Alone
  <1>1. UNCHANGED <<phase, running, crawler, row, firstRun, banner, last>>
    BY DEF SaveFeed, SetConfig, Drop, Delete
  <1>2. phase \in {"up", "draining"} /\ req[a] \in Made
    BY Serving, InProgress DEF SaveFeed, SetConfig, Drop, Delete, At
  <1>3. /\ req' \in [Admins -> Request]
        /\ req'[a].op = req[a].op /\ req'[a].feed = req[a].feed
        /\ \/ /\ In(a, {"save"}) /\ req'[a].pc = "config"
              /\ saved' = req[a].feed /\ config' = config
           \/ /\ In(a, {"config"}) /\ req'[a].pc = (IF req[a].op = "start" THEN "build" ELSE "halt")
              /\ saved' = saved /\ config' = req[a].feed
           \/ In(a, {"drop"}) /\ req'[a].pc = "delete" /\ saved' = None /\ config' = config
           \/ In(a, {"delete"}) /\ req'[a].pc = "forget" /\ saved' = saved /\ config' = None
    BY Goes DEF SaveFeed, SetConfig, Drop, Delete, At, In, Became, Steps
  <1>4. TypeOK'
    BY <1>1, <1>2, <1>3 DEF TypeOK, Made
  <1>5. Crawlers' /\ Phases'
    <2>1. In(a, {"config"}) /\ req[a].op = "start" => running = None
      BY DEF Requests, Configured, Replacing, In
    <2>2. In(a, {"drop", "delete"}) => running = None
      BY DEF Crawlers, Between, In
    <2>3. In(a, Between)' => running = None
      BY <1>3, <2>1, <2>2 DEF In, Between
    <2>4. ~In(a, {"wait", "started"}) /\ ~In(a, {"wait", "started"})'
      BY <1>3 DEF In
    <2> QED BY <1>1, <1>2, <2>3, <2>4, SameHands
  <1>6. Requests'
    BY <1>1, <1>3 DEF Requests, In
  <1>7. Stored'
    BY <1>1, <1>3 DEF Stored, In, Some
  <1>8. Configured'
    <2>1. CASE In(a, {"save"})
      <3>1. config' = config /\ ~Replacing /\ ~Some({"started"})'
        BY <1>3, <2>1 DEF Replacing, In, Some
      <3> QED BY <1>1, <3>1 DEF Configured
    <2>2. CASE In(a, {"config"})
      <3>1. /\ req'[a].op = "start" => running = None
            /\ req'[a].op # "start" => Replacing'
            /\ config' # None /\ ~Some({"started"})' /\ ~Some({"started"})
        BY <1>3, <2>2 DEF Requests, Configured, Replacing, In, Some
      <3> QED BY <1>1, <3>1 DEF Configured
    <2>3. CASE In(a, {"drop", "delete"})
      <3>1. running = None /\ ~Some({"started"})'
        BY <1>3, <2>3 DEF Crawlers, Between, In, Some
      <3> QED BY <1>1, <3>1 DEF Configured
    <2> QED BY <1>3, <2>1, <2>2, <2>3 DEF In
  <1>9. Screen'
    <2>1. row # None => config' # None \/ Some({"forget"})'
      BY <1>3 DEF Screen, Requests, In
    <2> QED BY <1>1, <2>1 DEF Screen
  <1> QED BY <1>4, <1>5, <1>6, <1>7, <1>8, <1>9

\* A request that is over writes its row.
LEMMA RowStep ==
    ASSUME IInv, Serial, NEW a \in Admins, Disable(a) \/ Forget(a) \/ Enable(a) PROVE IInv'
  <1> USE DEF IInv
  <1> USE Alone
  <1>1. /\ UNCHANGED <<phase, saved, config, running, crawler, firstRun, banner, last>>
        /\ Return(a) /\ In(a, {"disable", "forget", "enable"})
    BY DEF Disable, Forget, Enable, At, In
  <1>2. phase \in {"up", "draining"} /\ row \in Row \cup {None}
    BY <1>1, Serving DEF At, In, TypeOK
  <1>3. req' \in [Admins -> Request] /\ req'[a].pc = "idle"
    BY <1>1, Returns DEF Became
  <1>4. /\ row' \in Row \cup {None}
        /\ row' # None /\ row'.syncing => row # None /\ row.syncing /\ row'.runs = row.runs
        /\ row' # None => In(a, {"disable", "enable"})
        /\ In(a, {"enable"}) => (row # None => row' # None /\ row'.enabled)
    <2>1. CASE Enable(a)
      BY <1>2, <2>1, RowIsEnabled DEF Enable, Kept, At, In
    <2>2. CASE Forget(a)
      BY <2>2 DEF Forget, At, In
    <2>3. CASE Disable(a) /\ EnableRow(FALSE)
      BY <1>2, <2>3, RowIsEnabled DEF Disable, Kept, At, In
    <2>4. CASE Disable(a) /\ row' = [enabled |-> FALSE, syncing |-> FALSE, runs |-> row # None /\ row.runs]
      <3>1. row' \in Row
        BY <1>2, <2>4 DEF Row
      <3> QED BY <2>4, <3>1 DEF Disable, At, In
    <2> QED BY <1>1, <2>1, <2>2, <2>3, <2>4 DEF Disable
  <1>5. TypeOK'
    BY <1>1, <1>3, <1>4 DEF TypeOK
  <1>6. Crawlers' /\ Phases'
    <2>1. ~In(a, {"wait", "started"}) /\ ~In(a, {"wait", "started"})' /\ ~In(a, Between)'
      BY <1>1, <1>3 DEF In, Between
    <2> QED BY <1>1, <1>2, <2>1, SameHands
  <1>7. Requests'
    BY <1>3 DEF Requests, In
  <1>8. Stored'
    BY <1>1, <1>3 DEF Stored, In
  <1>9. Configured'
    <2>1. running # None => In(a, {"enable"}) /\ ~Replacing
      BY <1>1 DEF Crawlers, Between, In, Replacing
    <2>2. ~Some({"started"})'
      BY <1>3 DEF In
    <2> QED BY <1>1, <1>4, <2>1, <2>2 DEF Configured
  <1>10. Screen'
    <2>1. row' # None => config' # None
      BY <1>1, <1>4, NoneIsNothing DEF Requests, In
    <2> QED BY <1>1, <1>4, <2>1 DEF Screen
  <1> QED BY <1>5, <1>6, <1>7, <1>8, <1>9, <1>10

\* Cancelling a crawler in use.
LEMMA Cancels ==
    ASSUME TypeOK, NEW r \in Slots \cup {None}, r # None => crawler[r].at # "free", Cancel(r)
    PROVE  /\ crawler' \in [Slots -> Crawler]
           /\ \A c \in Slots : /\ crawler'[c].at = crawler[c].at
                               /\ crawler'[c].at = "free" => crawler'[c] = Free
                               /\ crawler[c].at # "free" =>
                                     /\ crawler'[c].cancelled <=> c = r \/ crawler[c].cancelled
                                     /\ crawler'[c].cfg = crawler[c].cfg
                                     /\ crawler'[c].tracked = crawler[c].tracked
           /\ \A c \in Slots \ {r} : crawler'[c] = crawler[c]
  <1>1. CASE r = None
    <2>1. \A c \in Slots : c # r
      BY <1>1, ConstantsOK
    <2> QED BY <1>1, <2>1, InUse DEF Cancel, TypeOK
  <1>2. CASE r # None
    <2> DEFINE u == [crawler[r] EXCEPT !.cancelled = TRUE]
    <2>1. crawler[r] \in Used /\ crawler' = [crawler EXCEPT ![r] = u] /\ r \in Slots
      BY <1>2, InUse DEF Cancel, TypeOK
    <2>2. crawler[r].at # "free"
      BY <1>2
    <2>3. /\ u \in Used /\ u.at = crawler[r].at /\ u.cfg = crawler[r].cfg /\ u.cancelled
          /\ u.tracked = crawler[r].tracked
      BY <2>1 DEF Used
    <2> HIDE DEF u
    <2>4. crawler' \in [Slots -> Crawler] /\ crawler'[r] = u /\ \A e \in Slots \ {r} : crawler'[e] = crawler[e]
      BY <2>1, <2>2, <2>3, Changed
    <2> QED BY <2>1, <2>2, <2>3, <2>4, InUse DEF Used
  <1> QED BY <1>1, <1>2

\* A crawler that is gone is let go of.
LEMMA LetsGo ==
    ASSUME TypeOK, NEW r \in Slots \cup {None}, Waited(r)
    PROVE  /\ crawler' \in [Slots -> Crawler]
           /\ \A c \in Slots : c # r => crawler'[c] = crawler[c]
           /\ r # None => crawler[r].at = "done" /\ crawler'[r] = Free
  BY ConstantsOK DEF TypeOK, Waited, Crawler, Free

\* halt takes the crawler out of the map and cancels it.
LEMMA HaltStep == ASSUME IInv, Serial, NEW a \in Admins, Halt(a) PROVE IInv'
  <1> USE DEF IInv
  <1> USE Alone
  <1>1. /\ UNCHANGED <<phase, saved, config, row, firstRun, banner, last>>
        /\ In(a, {"halt"}) /\ Cancel(running) /\ running' = None
    BY DEF Halt, At, In
  <1>2. phase \in {"up", "draining"} /\ req[a] \in Made /\ running \in Slots \cup {None}
        /\ (running # None => crawler[running].at # "free" /\ running \in Slots)
    BY <1>1, Serving, InProgress DEF At, In, TypeOK, Crawlers, Live
  <1>3. /\ req' \in [Admins -> Request] /\ req'[a].pc = "wait" /\ req'[a].runner = running
        /\ req'[a].op = req[a].op /\ req'[a].feed = req[a].feed
    <2> DEFINE q == [req[a] EXCEPT !.pc = "wait", !.runner = running]
    <2>1. q \in Made /\ q.pc = "wait" /\ q.runner = running /\ q.op = req[a].op /\ q.feed = req[a].feed
      BY <1>2 DEF Made
    <2>2. req' = [req EXCEPT ![a] = q]
      BY DEF Halt
    <2> HIDE DEF q
    <2> QED BY <2>1, <2>2 DEF TypeOK, Request, Made
  <1>4. /\ crawler' \in [Slots -> Crawler]
        /\ \A c \in Slots : /\ crawler'[c].at = crawler[c].at
                            /\ crawler'[c].at = "free" => crawler'[c] = Free
                            /\ crawler[c].at # "free" =>
                                  /\ crawler'[c].cancelled <=> c = running \/ crawler[c].cancelled
                                  /\ crawler'[c].cfg = crawler[c].cfg
                                  /\ crawler'[c].tracked = crawler[c].tracked
    BY <1>1, <1>2, Cancels
  <1>5. TypeOK'
    BY <1>1, <1>3, <1>4 DEF TypeOK
  <1>6. last = None
    BY <1>2 DEF Phases
  <1>7. Crawlers'
    <2>1. \A c \in Slots : Taken(c) => c = running
      BY <1>1, <1>6, ConstantsOK DEF Taken, In
    <2>2. \A c \in Slots : crawler'[c].at # "free" => Taken(c)'
      BY <1>3, <1>4, <2>1 DEF Crawlers, Taken, In
    <2>3. \A c \in Slots : crawler'[c].at = "done" => crawler'[c].cancelled
      BY <1>4 DEF Crawlers
    <2>4. req'[a].runner # None => crawler'[req'[a].runner].at # "free" /\ crawler'[req'[a].runner].cancelled
      BY <1>2, <1>3, <1>4
    <2> HIDE DEF IInv
    <2> QED BY <1>1, <1>3, <1>6, <2>2, <2>3, <2>4 DEF Crawlers, In
  <1>8. Phases'
    BY <1>1, <1>2, <1>6 DEF Phases
  <1>9. Requests' /\ Stored'
    BY <1>1, <1>3 DEF Requests, Stored, In
  <1>10. Configured'
    BY <1>1, <1>3 DEF Configured, In
  <1>11. Screen'
    <2>1. \A c \in Slots : crawler[c].at # "free" => crawler'[c].tracked = crawler[c].tracked
      BY <1>4
    <2>2. banner' = "reading" =>
              \E c \in Slots : crawler'[c].at \in {"starting"} \cup Writing /\ crawler'[c].tracked
      <3> SUFFICES ASSUME banner = "reading"
                   PROVE \E c \in Slots : crawler'[c].at \in {"starting"} \cup Writing /\ crawler'[c].tracked
        BY <1>1
      <3>1. PICK c \in Slots : crawler[c].at \in {"starting"} \cup Writing /\ crawler[c].tracked
        BY DEF Screen
      <3>2. crawler'[c].at = crawler[c].at /\ crawler'[c].tracked
        BY <1>4, <3>1 DEF Writing
      <3> QED BY <3>1, <3>2
    <2>3. row' # None => config' # None
      BY <1>1 DEF Screen, In
    <2> QED BY <1>1, <1>4, <2>2, <2>3 DEF Screen
  <1> QED BY <1>5, <1>7, <1>8, <1>9, <1>10, <1>11

\* wait returns once the crawler is gone.
LEMMA WaitStep == ASSUME IInv, Serial, NEW a \in Admins, Wait(a) PROVE IInv'
  <1> USE DEF IInv
  <1> USE Alone
  <1> DEFINE r == req[a].runner
  <1>1. /\ UNCHANGED <<phase, saved, config, running, row, firstRun, banner, last>>
        /\ In(a, {"wait"}) /\ Waited(r) /\ Goto(a, AfterHalt(req[a]))
    BY DEF Wait, At, In
  <1>2. /\ phase \in {"up", "draining"} /\ req[a] \in Made /\ r \in Slots \cup {None}
        /\ running = None /\ last = None
    <2>1. phase \in {"up", "draining"} /\ req[a] \in Made
      BY <1>1, Serving, InProgress DEF At, In
    <2>2. running = None
      BY <1>1 DEF Crawlers, Between, In
    <2> QED BY <2>1, <2>2 DEF Made, Phases
  <1>3. /\ req' \in [Admins -> Request]
        /\ req'[a].op = req[a].op /\ req'[a].feed = req[a].feed
        /\ req'[a].pc \in {"drop", "disable", "build"}
        /\ req'[a].pc = "disable" => req[a].op \in {"add", "stop"}
        /\ req'[a].pc = "build" => req[a].op = "add" /\ req[a].feed.on
    <2>1. req[a].op \in {"add", "remove", "stop"}
      BY <1>1 DEF Requests, In
    <2> DEFINE pc == AfterHalt(req[a])
    <2>2. /\ pc \in {"drop", "disable", "build"}
          /\ pc = "disable" => req[a].op \in {"add", "stop"}
          /\ pc = "build" => req[a].op = "add" /\ req[a].feed.on
      BY <2>1 DEF AfterHalt
    <2> HIDE DEF pc
    <2>3. ~At(a, "idle") /\ pc \in Steps /\ pc # "idle"
      BY <1>1, <2>2 DEF Steps, At, In
    <2>4. Became(a, pc)
      BY <1>1, <2>3, Goes DEF pc
    <2> QED BY <2>2, <2>3, <2>4 DEF Became
  <1>4. /\ crawler' \in [Slots -> Crawler]
        /\ \A c \in Slots : c # r => crawler'[c] = crawler[c]
        /\ r # None => crawler[r].at = "done" /\ crawler'[r] = Free
    BY <1>1, <1>2, LetsGo
  <1>5. TypeOK'
    BY <1>1, <1>3, <1>4 DEF TypeOK
  <1>6. \A c \in Slots : crawler'[c] = Free /\ crawler'[c].at = "free"
    <2> TAKE c \in Slots
    <2>1. Free.at = "free"
      BY DEF Free
    <2>2. c # r => crawler[c].at = "free"
      BY <1>2, ConstantsOK DEF Crawlers, Taken, In
    <2>3. CASE c = r
      BY <1>4, <2>1, <2>3, ConstantsOK
    <2>4. CASE c # r
      BY <1>4, <2>1, <2>2, <2>4, InUse
    <2> QED BY <2>3, <2>4
  <1>7. Crawlers' /\ Phases'
    <2>1. ~In(a, {"wait", "started"})'
      BY <1>3 DEF In
    <2>2. Crawlers'
      BY <1>1, <1>2, <1>6, <2>1 DEF Crawlers, In
    <2> QED BY <1>1, <1>2, <2>2 DEF Phases
  <1>8. Requests' /\ Stored'
    BY <1>1, <1>3 DEF Requests, Stored, In
  <1>9. Configured'
    BY <1>1, <1>2, <1>3 DEF Configured, In
  <1>10. Screen'
    <2>1. \A c \in Slots : c = r => crawler[c].at = "done"
      BY <1>2, <1>4, ConstantsOK
    <2>2. row # None => config # None
      BY <1>1 DEF Screen, In
    <2>3. \A c \in Slots : crawler[c].at \in {"free", "done"}
      BY <1>2, <2>1, ConstantsOK DEF Crawlers, Taken, In
    <2> QED BY <1>1, <2>2, <2>3 DEF Screen, Writing
  <1> QED BY <1>5, <1>7, <1>8, <1>9, <1>10

\* A crawler starts, from the feed f.
LEMMA Launches ==
    ASSUME TypeOK, NEW c \in Slots, NEW f \in Feed, NEW first \in BOOLEAN,
           crawler' = [crawler EXCEPT ![c] = New(f, first)]
    PROVE  /\ crawler' \in [Slots -> Crawler]
           /\ crawler'[c].at = "starting" /\ crawler'[c].cfg = f.cfg /\ crawler'[c].cancelled = FALSE
           /\ crawler'[c].tracked = Expected(first)
           /\ \A e \in Slots \ {c} : crawler'[e] = crawler[e]
  <1>1. Expected(first) \in BOOLEAN
    BY DEF Expected
  <1>2. New(f, first) \in Used
    BY <1>1 DEF New, Used, Feed
  <1>3. New(f, first) \in Crawler
    BY <1>2 DEF Used, Crawler
  <1> QED BY <1>3 DEF TypeOK, New

LEMMA BuildStep == ASSUME IInv, Serial, NEW a \in Admins, Build(a) PROVE IInv'
  <1> USE DEF IInv
  <1> USE Alone
  <1>1. /\ UNCHANGED <<phase, saved, config, running, firstRun, last>>
        /\ In(a, {"build"}) /\ Register(TRUE) /\ Expect(firstRun)
    BY DEF Build, At, In
  <1>2. /\ phase \in {"up", "draining"} /\ req[a] \in Made /\ row \in Row \cup {None}
        /\ running = None /\ last = None
        /\ req[a].feed \in Feed /\ config = req[a].feed /\ req[a].feed.on
    <2>1. phase \in {"up", "draining"} /\ req[a] \in Made
      BY <1>1, Serving, InProgress DEF At, In
    <2>2. running = None
      BY <1>1 DEF Crawlers, Between, In
    <2>3. req[a].feed # None /\ config = req[a].feed /\ req[a].feed.on
      BY <1>1 DEF Requests, In
    <2> QED BY <2>1, <2>2, <2>3 DEF Made, Phases, TypeOK
  <1>3. \A c \in Slots : crawler[c] = Free
    BY <1>1, <1>2, InUse, ConstantsOK DEF Crawlers, Taken, In
  <1>4. PICK c \in Slots : /\ crawler' = [crawler EXCEPT ![c] = New(req[a].feed, firstRun)]
                           /\ req' = [req EXCEPT ![a].pc = "started", ![a].runner = c]
    BY DEF Build
  <1>5. /\ crawler' \in [Slots -> Crawler]
        /\ crawler'[c].at = "starting" /\ crawler'[c].cfg = req[a].feed.cfg /\ crawler'[c].cancelled = FALSE
        /\ crawler'[c].tracked = Expected(firstRun)
        /\ \A e \in Slots \ {c} : crawler'[e] = Free
    BY <1>2, <1>3, <1>4, Launches DEF TypeOK
  <1>6. /\ req' \in [Admins -> Request] /\ req'[a].pc = "started" /\ req'[a].runner = c
        /\ req'[a].op = req[a].op /\ req'[a].feed = req[a].feed
    <2> DEFINE q == [req[a] EXCEPT !.pc = "started", !.runner = c]
    <2>1. q \in Made /\ q.pc = "started" /\ q.runner = c /\ q.op = req[a].op /\ q.feed = req[a].feed
      BY <1>2 DEF Made
    <2>2. req' = [req EXCEPT ![a] = q]
      BY <1>4
    <2> HIDE DEF q
    <2> QED BY <2>1, <2>2 DEF TypeOK, Request, Made
  <1>7. /\ row' \in Row /\ row' # None /\ row'.enabled = TRUE
        /\ row'.syncing => row # None /\ row.syncing
    BY <1>1, <1>2, RowIsRegistered
  <1>8. TypeOK'
    <2>1. banner' \in {"none", "reading", "over"}
      BY <1>1 DEF TypeOK, Expect
    <2> QED BY <1>1, <1>5, <1>6, <1>7, <2>1 DEF TypeOK
  <1>9. Crawlers' /\ Phases'
    <2>1. c # None /\ Live(c)'
      BY <1>5, ConstantsOK DEF Live
    <2>2. \A e \in Slots \ {c} : crawler'[e].at = "free"
      BY <1>5 DEF Free
    <2>3. Taken(c)'
      BY <1>6 DEF Taken, In
    <2>4. In(a, {"started"})' /\ ~In(a, {"wait"})' /\ \A b \in Admins : b = a
      BY <1>6 DEF In
    <2>5. Crawlers'
      BY <1>1, <1>2, <1>5, <1>6, <2>1, <2>2, <2>3, <2>4 DEF Crawlers
    <2> QED BY <1>1, <1>2, <2>5 DEF Phases
  <1>10. Requests' /\ Stored'
    BY <1>1, <1>2, <1>6 DEF Requests, Stored, In
  <1>11. Configured'
    BY <1>1, <1>2, <1>7 DEF Configured
  <1>12. Screen'
    <2>1. row' # None => config' # None
      BY <1>1, <1>2, NoneIsNothing
    <2>2. ~row'.syncing
      BY <1>3, <1>7 DEF Screen, Free
    <2>3. banner' = "reading" => crawler'[c].tracked
      <3>1. banner # "reading"
        BY <1>3 DEF Screen, Free, Writing
      <3> QED BY <1>1, <1>5, <3>1 DEF Expect
    <2> QED BY <1>5, <2>1, <2>2, <2>3 DEF Screen
  <1> QED BY <1>8, <1>9, <1>10, <1>11, <1>12

LEMMA StartedStep == ASSUME IInv, Serial, NEW a \in Admins, Started(a) PROVE IInv'
  <1> USE DEF IInv
  <1> USE Alone
  <1>1. /\ UNCHANGED <<phase, saved, config, crawler, row, firstRun, banner, last>>
        /\ In(a, {"started"}) /\ running' = req[a].runner /\ Goto(a, "enable")
    BY DEF Started, At, In
  <1>2. /\ phase \in {"up", "draining"} /\ req[a] \in Made /\ last = None /\ running = None
        /\ req[a].runner \in Slots
        /\ config = req[a].feed /\ req[a].feed # None /\ req[a].feed.on
        /\ Live(req[a].runner) /\ ~crawler[req[a].runner].cancelled
        /\ crawler[req[a].runner].cfg = req[a].feed.cfg
    <2>1. phase \in {"up", "draining"} /\ req[a] \in Made
      BY <1>1, Serving, InProgress DEF At, In
    <2>2. /\ running = None /\ req[a].runner # None
          /\ Live(req[a].runner) /\ ~crawler[req[a].runner].cancelled
          /\ crawler[req[a].runner].cfg = req[a].feed.cfg
      BY <1>1 DEF Crawlers, Between, In
    <2>3. req[a].feed # None /\ config = req[a].feed /\ req[a].feed.on
      BY <1>1 DEF Requests, In
    <2> QED BY <2>1, <2>2, <2>3 DEF Made, Phases
  <1>3. /\ req' \in [Admins -> Request] /\ req'[a].pc = "enable"
        /\ req'[a].op = req[a].op /\ req'[a].feed = req[a].feed
    BY <1>1, Goes DEF Became, At, In, Steps
  <1>4. TypeOK'
    BY <1>1, <1>2, <1>3 DEF TypeOK
  <1>5. Crawlers' /\ Phases'
    <2>1. \A c \in Slots : Taken(c) <=> Taken(c)'
      BY <1>1, <1>2, <1>3, ConstantsOK DEF Taken, In
    <2>2. ~In(a, Between)' /\ \A b \in Admins : b = a /\ ~In(b, {"wait"})' /\ ~In(b, {"started"})'
      BY <1>3 DEF In, Between
    <2>3. Live(running)' /\ ~crawler'[running'].cancelled
      BY <1>1, <1>2 DEF Live
    <2> HIDE DEF IInv
    <2>4. Crawlers'
      BY <1>1, <1>2, <2>1, <2>2, <2>3 DEF IInv, Crawlers
    <2> QED BY <1>1, <1>2, <2>4 DEF IInv, Phases
  <1>6. Requests' /\ Stored'
    BY <1>1, <1>3 DEF Requests, Stored, In
  <1>7. Configured'
    BY <1>1, <1>2, <1>3 DEF Configured, In
  <1>8. Screen'
    BY <1>1, <1>3 DEF Screen, In
  <1> QED BY <1>4, <1>5, <1>6, <1>7, <1>8

LEMMA SyncNowStep == ASSUME IInv, Serial, NEW a \in Admins, SyncNow(a) PROVE IInv'
  <1> USE DEF IInv
  <1> USE Alone
  <1>1. /\ UNCHANGED <<phase, saved, config, running, row, firstRun, banner, last>>
        /\ In(a, {"sync"}) /\ Return(a)
        /\ crawler' = IF running = None THEN crawler ELSE [crawler EXCEPT ![running].trigger = TRUE]
    BY DEF SyncNow, At, In
  <1>2. /\ phase \in {"up", "draining"} /\ last = None /\ running \in Slots \cup {None}
        /\ running # None => crawler[running] \in Used
    BY <1>1, Serving, InUse DEF At, In, TypeOK, Phases, Crawlers, Live
  <1>3. req' \in [Admins -> Request] /\ req'[a].pc = "idle"
    BY <1>1, Returns DEF Became
  <1>4. /\ crawler' \in [Slots -> Crawler]
        /\ \A c \in Slots : /\ crawler'[c].at = crawler[c].at
                            /\ crawler'[c].at = "free" => crawler'[c] = Free
                            /\ crawler[c].at # "free" =>
                                  /\ crawler'[c].cancelled = crawler[c].cancelled
                                  /\ crawler'[c].cfg = crawler[c].cfg
                                  /\ crawler'[c].tracked = crawler[c].tracked
    <2>1. CASE running = None
      BY <1>1, <2>1, InUse DEF TypeOK
    <2>2. CASE running # None
      <3> DEFINE u == [crawler[running] EXCEPT !.trigger = TRUE]
      <3>1. crawler[running] \in Used /\ crawler' = [crawler EXCEPT ![running] = u] /\ running \in Slots
        BY <1>1, <1>2, <2>2
      <3>2. /\ u \in Used /\ u.at = crawler[running].at /\ u.cfg = crawler[running].cfg
            /\ u.cancelled = crawler[running].cancelled /\ u.tracked = crawler[running].tracked
        BY <3>1 DEF Used
      <3>3. crawler[running].at # "free"
        BY <3>1 DEF Used, Writing
      <3> HIDE DEF u
      <3>4. /\ crawler' \in [Slots -> Crawler] /\ crawler'[running] = u /\ u.at # "free"
            /\ \A e \in Slots \ {running} : crawler'[e] = crawler[e]
        BY <3>1, <3>2, <3>3, Changed
      <3> QED BY <3>1, <3>2, <3>4, InUse
    <2> QED BY <2>1, <2>2
  <1>5. TypeOK'
    BY <1>1, <1>3, <1>4 DEF TypeOK
  <1>6. Crawlers' /\ Phases'
    <2>1. \A c \in Slots : Taken(c) => c = running
      BY <1>1, <1>2, ConstantsOK DEF Taken, In
    <2>2. \A c \in Slots : crawler'[c].at # "free" => Taken(c)'
      BY <1>1, <1>4, <2>1 DEF Crawlers, Taken
    <2>3. \A c \in Slots : crawler'[c].at = "done" => crawler'[c].cancelled
      BY <1>4 DEF Crawlers
    <2>4. running # None => Live(running)' /\ ~crawler'[running].cancelled
      BY <1>1, <1>2, <1>4 DEF Crawlers, Live
    <2>5. ~In(a, Between)' /\ \A b \in Admins : b = a /\ ~In(b, {"wait"})' /\ ~In(b, {"started"})'
      BY <1>3 DEF In, Between
    <2>6. Crawlers'
      BY <1>1, <1>2, <2>2, <2>3, <2>4, <2>5 DEF Crawlers
    <2> QED BY <1>1, <1>2, <2>6 DEF Phases
  <1>7. Requests' /\ Stored'
    BY <1>1, <1>3 DEF Requests, Stored, In
  <1>8. Configured'
    <2>1. running # None => crawler'[running].cfg = crawler[running].cfg
      BY <1>2, <1>4 DEF Crawlers, Live
    <2>2. ~Replacing /\ ~Some({"started"})'
      BY <1>1, <1>3 DEF Replacing, In
    <2> QED BY <1>1, <2>1, <2>2 DEF Configured
  <1>9. Screen'
    <2>1. banner' = "reading" =>
              \E c \in Slots : crawler'[c].at \in {"starting"} \cup Writing /\ crawler'[c].tracked
      <3> SUFFICES ASSUME banner = "reading"
                   PROVE \E c \in Slots : crawler'[c].at \in {"starting"} \cup Writing /\ crawler'[c].tracked
        BY <1>1
      <3>1. PICK c \in Slots : crawler[c].at \in {"starting"} \cup Writing /\ crawler[c].tracked
        BY DEF Screen
      <3>2. crawler'[c].at = crawler[c].at /\ crawler'[c].tracked
        BY <1>4, <3>1 DEF Writing
      <3> QED BY <3>1, <3>2
    <2>2. row' # None => config' # None
      BY <1>1 DEF Screen, In
    <2> QED BY <1>1, <1>4, <2>1, <2>2 DEF Screen
  <1> QED BY <1>5, <1>6, <1>7, <1>8, <1>9

-----------------------------------------------------------------------------
(* The process.                                                            *)

LEMMA NothingIsUsed ==
    ASSUME IInv, phase \in {"down", "closed"}, NEW c \in Slots PROVE crawler[c] = Free /\ crawler[c].at = "free"
  BY DEF IInv, Phases, Free

\* A process starts with what the store has, and the requests come after it.
LEMMA RestoreStep == ASSUME IInv, NEW first \in BOOLEAN, Restore(first) PROVE IInv'
  <1> USE DEF IInv
  <1>1. /\ phase = "down" /\ phase' = "up" /\ config' = saved /\ firstRun' = first
        /\ UNCHANGED <<saved, req, last>>
        /\ Quiet /\ running = None /\ config = None /\ row = None /\ banner = "none" /\ last = None
        /\ \A c \in Slots : crawler[c] = Free
    BY DEF Restore, RestoreNothing, RestoreOff, RestoreOn, RestoreFails, Boot, Phases
  <1>2. \A a \in Admins : req[a].pc = "idle"
    BY <1>1 DEF Quiet, At
  <1>3. \A P : "idle" \notin P => ~Some(P) /\ ~Some(P)'
    BY <1>1, <1>2 DEF Some, In
  <1>4. Requests' /\ Stored' /\ ~Replacing'
    BY <1>1, <1>2, <1>3 DEF Requests, Stored, In, Replacing
  <1>5. \A c \in Slots : ~(c = None)
    BY ConstantsOK
  <1>6. CASE RestoreNothing(first) \/ RestoreFails(first)
    <2>1. UNCHANGED <<running, crawler, row, banner>>
      BY <1>6 DEF RestoreNothing, RestoreFails
    <2>2. TypeOK'
      BY <1>1, <2>1 DEF TypeOK
    <2>3. Crawlers' /\ Phases'
      BY <1>1, <1>2, <2>1 DEF Crawlers, Phases, Free, In
    <2>4. Configured' /\ Screen'
      BY <1>1, <1>3, <2>1 DEF Configured, Screen
    <2> QED BY <1>4, <2>2, <2>3, <2>4
  <1>7. CASE RestoreOff(first)
    <2>1. UNCHANGED <<running, crawler, banner>> /\ Register(FALSE) /\ saved # None
      BY <1>7 DEF RestoreOff
    <2>2. row' \in Row /\ row' # None /\ ~row'.syncing
      BY <1>1, <2>1, RowIsRegistered
    <2>3. TypeOK'
      BY <1>1, <2>1, <2>2 DEF TypeOK
    <2>4. Crawlers' /\ Phases'
      BY <1>1, <1>2, <2>1 DEF Crawlers, Phases, Free, In
    <2>5. Configured' /\ Screen'
      BY <1>1, <1>3, <2>1, <2>2 DEF Configured, Screen
    <2> QED BY <1>4, <2>3, <2>4, <2>5
  <1>8. CASE RestoreOn(first)
    <2>1. saved \in Feed /\ saved.on /\ saved # None /\ Register(TRUE) /\ Expect(first)
      BY <1>8 DEF RestoreOn, TypeOK
    <2>2. PICK c \in Slots : crawler' = [crawler EXCEPT ![c] = New(saved, first)] /\ running' = c
      BY <1>8 DEF RestoreOn
    <2>3. /\ crawler' \in [Slots -> Crawler]
          /\ crawler'[c].at = "starting" /\ crawler'[c].cfg = saved.cfg /\ crawler'[c].cancelled = FALSE
          /\ crawler'[c].tracked = Expected(first)
          /\ \A e \in Slots \ {c} : crawler'[e] = Free
      BY <1>1, <2>1, <2>2, Launches, ZenonT(40)
    <2>4. row' \in Row /\ row' # None /\ row'.enabled = TRUE /\ ~row'.syncing
      BY <1>1, <2>1, RowIsRegistered
    <2>5. TypeOK'
      <3>1. banner' \in {"none", "reading", "over"}
        BY <2>1 DEF TypeOK, Expect
      <3> QED BY <1>1, <2>2, <2>3, <2>4, <3>1 DEF TypeOK
    <2>6. Crawlers'
      <3>1. \A e \in Slots \ {c} : crawler'[e].at = "free"
        BY <2>3 DEF Free
      <3>2. Taken(c)' /\ Live(running)' /\ ~crawler'[running'].cancelled
        BY <2>2, <2>3 DEF Taken, Live
      <3>3. ~Some(Between)' /\ \A a \in Admins : ~In(a, {"wait"})' /\ ~In(a, {"started"})'
        BY <1>1, <1>2, <1>3 DEF Between, In
      <3> QED BY <1>1, <2>2, <2>3, <3>1, <3>2, <3>3 DEF Crawlers
    <2>7. Phases'
      BY <1>1 DEF Phases
    <2>8. Configured'
      BY <1>1, <2>1, <2>2, <2>3, <2>4 DEF Configured
    <2>9. Screen'
      <3>1. banner' = "reading" => crawler'[c].tracked
        BY <1>1, <2>1, <2>3 DEF Expect
      <3> QED BY <1>1, <2>1, <2>3, <2>4, <3>1 DEF Screen
    <2> QED BY <1>4, <2>5, <2>6, <2>7, <2>8, <2>9
  <1> QED BY <1>6, <1>7, <1>8 DEF Restore

\* stop takes the runner over from the map; nobody else has one by then.
LEMMA StopStep == ASSUME IInv, Serial, StopAll PROVE IInv'
  <1> USE DEF IInv
  <1>1. /\ phase = "draining" /\ phase' = "stopping" /\ Quiet /\ Cancel(running)
        /\ last' = running /\ running' = None /\ last = None
        /\ UNCHANGED <<saved, config, row, firstRun, banner, req>>
    BY DEF StopAll, Serial, Phases
  <1>2. \A a \in Admins : req[a].pc = "idle" /\ req'[a].pc = "idle"
    BY <1>1 DEF Quiet, At
  <1>3. running \in Slots \cup {None} /\ (running # None => crawler[running].at # "free" /\ running \in Slots)
    BY DEF TypeOK, Crawlers, Live
  <1>4. /\ crawler' \in [Slots -> Crawler]
        /\ \A c \in Slots : /\ crawler'[c].at = crawler[c].at
                            /\ crawler'[c].at = "free" => crawler'[c] = Free
                            /\ crawler[c].at # "free" =>
                                  /\ crawler'[c].cancelled <=> c = running \/ crawler[c].cancelled
                                  /\ crawler'[c].cfg = crawler[c].cfg
                                  /\ crawler'[c].tracked = crawler[c].tracked
    BY <1>1, <1>3, Cancels
  <1>5. TypeOK'
    BY <1>1, <1>4 DEF TypeOK
  <1>6. Crawlers'
    <2>1. \A c \in Slots : crawler'[c].at # "free" => Taken(c)'
      BY <1>1, <1>2, <1>4, ConstantsOK DEF Crawlers, Taken, In
    <2>2. \A c \in Slots : crawler'[c].at = "done" => crawler'[c].cancelled
      BY <1>4 DEF Crawlers
    <2>3. last' # None => crawler'[last'].at # "free" /\ crawler'[last'].cancelled
      BY <1>1, <1>3, <1>4
    <2>4. \A a \in Admins : ~In(a, {"wait"})' /\ ~In(a, {"started"})'
      BY <1>2 DEF In
    <2> QED BY <1>1, <2>1, <2>2, <2>3, <2>4 DEF Crawlers
  <1>7. Phases'
    BY <1>1, <1>2 DEF Phases, Quiet, At
  <1>8. Requests' /\ Stored'
    BY <1>1, <1>2 DEF Requests, Stored, In, Some
  <1>9. Configured'
    BY <1>1, <1>2 DEF Configured, Some, In
  <1>10. Screen'
    <2>1. banner' = "reading" =>
              \E c \in Slots : crawler'[c].at \in {"starting"} \cup Writing /\ crawler'[c].tracked
      <3> SUFFICES ASSUME banner = "reading"
                   PROVE \E c \in Slots : crawler'[c].at \in {"starting"} \cup Writing /\ crawler'[c].tracked
        BY <1>1
      <3>1. PICK c \in Slots : crawler[c].at \in {"starting"} \cup Writing /\ crawler[c].tracked
        BY DEF Screen
      <3>2. crawler'[c].at = crawler[c].at /\ crawler'[c].tracked
        BY <1>4, <3>1 DEF Writing
      <3> QED BY <3>1, <3>2
    <2>2. row' # None => config' # None
      BY <1>1, <1>2 DEF Screen, Some, In
    <2> QED BY <1>1, <1>4, <2>1, <2>2 DEF Screen
  <1> QED BY <1>5, <1>6, <1>7, <1>8, <1>9, <1>10

LEMMA StoppedStep == ASSUME IInv, Stopped PROVE IInv'
  <1> USE DEF IInv
  <1>1. /\ phase = "stopping" /\ phase' = "closed" /\ Quiet /\ Waited(last) /\ running = None /\ last' = None
        /\ UNCHANGED <<saved, config, running, row, firstRun, banner, req>>
    BY DEF Stopped, Phases
  <1>2. \A a \in Admins : req[a].pc = "idle" /\ req'[a].pc = "idle"
    BY <1>1 DEF Quiet, At
  <1>3. /\ crawler' \in [Slots -> Crawler]
        /\ \A c \in Slots : c # last => crawler'[c] = crawler[c]
        /\ last # None => crawler[last].at = "done" /\ crawler'[last] = Free
    BY <1>1, LetsGo DEF TypeOK
  <1>4. \A c \in Slots : crawler[c].at # "free" => c = last
    BY <1>1, <1>2, ConstantsOK DEF Crawlers, Taken, In
  <1>5. \A c \in Slots : crawler'[c] = Free /\ crawler'[c].at = "free"
    <2> TAKE c \in Slots
    <2>1. Free.at = "free"
      BY DEF Free
    <2>2. CASE c = last
      BY <1>3, <2>1, <2>2, ConstantsOK
    <2>3. CASE c # last
      BY <1>3, <1>4, <2>1, <2>3, InUse
    <2> QED BY <2>2, <2>3
  <1>6. TypeOK'
    BY <1>1, <1>3 DEF TypeOK
  <1>7. Crawlers' /\ Phases'
    <2>1. \A a \in Admins : ~In(a, {"wait"})' /\ ~In(a, {"started"})'
      BY <1>2 DEF In
    <2>2. Crawlers'
      BY <1>1, <1>5, <2>1 DEF Crawlers
    <2> QED BY <1>1, <1>2, <1>5, <2>2 DEF Phases, Quiet, At
  <1>8. Requests' /\ Stored' /\ Configured'
    BY <1>1, <1>2 DEF Requests, Stored, Configured, In, Some
  <1>9. Screen'
    <2>1. \A c \in Slots : crawler[c].at \in {"free", "done"}
      BY <1>3, <1>4, ConstantsOK
    <2>2. row # None => config # None
      BY <1>2 DEF Screen, Some, In
    <2> QED BY <1>1, <2>1, <2>2 DEF Screen, Writing
  <1> QED BY <1>6, <1>7, <1>8, <1>9

LEMMA DieStep == ASSUME IInv, Die PROVE IInv'
  <1> USE DEF IInv
  <1>1. /\ phase' = "down" /\ config' = None /\ running' = None /\ row' = None /\ banner' = "none"
        /\ firstRun' = FALSE /\ last' = None /\ saved' = saved
        /\ crawler' = [c \in Slots |-> Free] /\ req' = [a \in Admins |-> Idle]
    BY DEF Die
  <1>2. \A c \in Slots : crawler'[c] = Free /\ crawler'[c].at = "free"
    BY <1>1 DEF Free
  <1>3. \A a \in Admins : req'[a] = Idle /\ req'[a].pc = "idle"
    BY <1>1 DEF Idle
  <1>4. TypeOK'
    BY <1>1 DEF TypeOK, Crawler, Request
  <1>5. Crawlers' /\ Phases'
    BY <1>1, <1>2, <1>3 DEF Crawlers, Phases, Quiet, At, In
  <1>6. Requests' /\ Stored' /\ Configured' /\ Screen'
    BY <1>1, <1>3 DEF Requests, Stored, Configured, Screen, In, Some
  <1> QED BY <1>4, <1>5, <1>6

LEMMA StillStep == ASSUME IInv, Signal \/ UNCHANGED vars PROVE IInv'
  <1> USE DEF IInv
  <1>1. /\ UNCHANGED <<saved, config, running, crawler, row, firstRun, banner, req, last>>
        /\ phase' = phase \/ (phase = "up" /\ phase' = "draining")
    BY DEF Signal, vars
  <1>2. TypeOK'
    BY <1>1 DEF TypeOK
  <1>3. Crawlers' /\ Requests' /\ Configured' /\ Screen'
    BY <1>1 DEF Crawlers, Requests, Configured, Screen, Some, In, Live, Taken, Replacing
  <1>4. Phases' /\ Stored'
    BY <1>1 DEF Phases, Stored, Quiet, At, Some, In
  <1> QED BY <1>2, <1>3, <1>4

-----------------------------------------------------------------------------
(* The invariant, and what follows.                                        *)

LEMMA InvInit == Init => IInv
  <1> SUFFICES ASSUME Init PROVE IInv
    OBVIOUS
  <1>1. /\ \A c \in Slots : crawler[c] = Free /\ crawler[c].at = "free"
        /\ \A a \in Admins : req[a] = Idle /\ req[a].pc = "idle"
    BY DEF Init, Free, Idle
  <1>2. TypeOK
    BY DEF Init, TypeOK, Crawler, Request
  <1>3. Crawlers /\ Phases
    BY <1>1 DEF Init, Crawlers, Phases, Quiet, At, In
  <1>4. Requests /\ Stored /\ Configured /\ Screen
    BY <1>1 DEF Init, Requests, Stored, Configured, Screen, In, Some
  <1> QED BY <1>2, <1>3, <1>4 DEF IInv

LEMMA InvStep == ASSUME Serial, IInv, [Next]_vars PROVE IInv'
  <1>1. CASE \E a \in Admins : Request_(a) \/ Step(a)
    BY <1>1, ThinkStep, WriteStep, RowStep, HaltStep, WaitStep, BuildStep, StartedStep, SyncNowStep DEF Step
  <1>2. CASE \E c \in Slots : Crawl(c)
    BY <1>2, CrawlStep
  <1>3. CASE \E first \in BOOLEAN : Restore(first)
    BY <1>3, RestoreStep
  <1>4. CASE Signal \/ UNCHANGED vars
    BY <1>4, StillStep
  <1>5. CASE StopAll \/ Stopped \/ Die
    BY <1>5, StopStep, StoppedStep, DieStep
  <1> QED BY <1>1, <1>2, <1>3, <1>4, <1>5 DEF Next

\* No two places name a crawler at once.
LEMMA OneHand ==
    ASSUME IInv, Serial, NEW c \in Slots, NEW e \in Slots, Taken(c), Taken(e) PROVE c = e
  <1>1. running # None => last = None /\ ~Some({"wait", "started"})
    BY DEF IInv, Crawlers, Phases, Between, Some, In
  <1>2. last # None => ~Some({"wait", "started"})
    BY DEF IInv, TypeOK, Phases, Quiet, At, Some, In
  <1>3. c # None /\ e # None
    BY ConstantsOK
  <1> QED BY <1>1, <1>2, <1>3, Alone DEF Taken, Some, In

\* halt, stop: "a source that is being replaced has to have stopped writing
\* before the replacement starts", and no crawler writes once the store closes.
THEOREM OneWriterAtATime == ASSUME Serial PROVE Spec => []WritersAreOrderly
  <1>1. IInv => WritersAreOrderly
    <2> SUFFICES ASSUME IInv PROVE WritersAreOrderly
      OBVIOUS
    <2>1. TypeOK
      BY DEF IInv
    <2>2. OneWriter
      BY OneHand DEF OneWriter, Live, IInv, Crawlers
    <2>3. StopsBeforeClose
      BY NothingIsUsed DEF StopsBeforeClose, Live
    <2> QED BY <2>1, <2>2, <2>3 DEF WritersAreOrderly
  <1>2. IInv /\ [Next]_vars => IInv'
    BY InvStep
  <1> QED BY <1>1, <1>2, InvInit, PTL DEF Spec

\* Add, Remove, Start, Stop, restore: once a request is over, what runs is what
\* is configured, and what is configured is what a restart would run.
THEOREM WhatIsAskedRuns == ASSUME Serial PROVE Spec => []ConfigurationHolds
  <1>1. IInv => ConfigurationHolds
    <2> SUFFICES ASSUME IInv PROVE ConfigurationHolds
      OBVIOUS
    <2>1. RunningIsWanted
      BY DEF IInv, Crawlers, RunningIsWanted
    <2>2. RestartChangesNothing
      BY DEF IInv, Stored, RestartChangesNothing, Quiet, At, Some, In
    <2>3. RunsAsConfigured
      <3> SUFFICES ASSUME phase = "up", Quiet, NEW c \in Slots, Live(c)
                   PROVE  c = running /\ config # None /\ config.on /\ crawler[c].cfg = config.cfg
        BY DEF RunsAsConfigured
      <3>1. Taken(c) /\ last = None
        BY DEF IInv, Crawlers, Phases, Live
      <3>2. c = running /\ running # None
        BY <3>1, ConstantsOK DEF Taken, Quiet, At, In
      <3>3. ~Replacing
        BY DEF Replacing, Quiet, At, In
      <3> QED BY <3>2, <3>3 DEF IInv, Configured
    <2> QED BY <2>1, <2>2, <2>3 DEF ConfigurationHolds
  <1>2. IInv /\ [Next]_vars => IInv'
    BY InvStep
  <1> QED BY <1>1, <1>2, InvInit, PTL DEF Spec

\* operations, indexing: a row stands for a connector that is configured, it says
\* syncing only while a sync is, and a first read that is reported as going on has
\* a crawler that will report its end.
THEOREM TheScreenIsTrue == ASSUME Serial PROVE Spec => []ScreenTells
  <1>1. IInv => ScreenTells
    <2> SUFFICES ASSUME IInv PROVE ScreenTells
      OBVIOUS
    <2>1. ScreenIsTrue
      BY DEF IInv, Screen, Configured, ScreenIsTrue, Quiet, At, Some, In
    <2>2. SyncingIsTrue
      BY DEF IInv, Screen, SyncingIsTrue
    <2>3. BannerComesDown
      BY DEF IInv, Screen, BannerComesDown, Live, Writing
    <2> QED BY <2>1, <2>2, <2>3 DEF ScreenTells
  <1>2. IInv /\ [Next]_vars => IInv'
    BY InvStep
  <1> QED BY <1>1, <1>2, InvInit, PTL DEF Spec
=============================================================================
