----------------------------- MODULE Supervisor -----------------------------
(***************************************************************************)
(* The connector supervisor of cmd/genbad: administration requests that    *)
(* add, remove, start, stop and hurry a connector, the crawlers they start *)
(* and wait for, the row of the administration screen, and what a restart  *)
(* restores.                                                               *)
(*                                                                         *)
(* net/http serves every request on a goroutine of its own, and the        *)
(* supervisor's mutex is held around each look at its maps and released    *)
(* between them, so a request is one step per lock, store call or wait.    *)
(*                                                                         *)
(* One source name is modelled: requests about two names share nothing but *)
(* the mutex.  A name on the command line is refused by owns before        *)
(* anything else happens and skipped by restore, so it takes no step here. *)
(*                                                                         *)
(* Data abstraction: a stored feed is whether it is enabled and a member   *)
(* of Settings.  A crawler is a member of Slots, one that nobody waits for *)
(* any more may be used again.                                             *)
(***************************************************************************)
EXTENDS FiniteSets

CONSTANTS
    Admins,     \* requests in progress at once
    Asked,      \* bound: the requests that are made, a subset of Ops
    Settings,   \* what a connector can be configured with
    Slots,      \* bound: crawlers at once, wanted or not
    None,       \* no feed, no crawler, no row
    Faults,     \* what may fail: a subset of {"build", "save", "drop", "grace"}
    Refreshes   \* whether the feed has a refresh interval

Ops == {"add", "remove", "start", "stop", "sync"}

ASSUME ConstantsOK ==
    /\ Asked \subseteq Ops
    /\ None \notin Slots
    /\ Faults \subseteq {"build", "save", "drop", "grace"}
    /\ Refreshes \in BOOLEAN

VARIABLES
    phase,    \* the process: "down", "up", "draining", "stopping", "closed"
    saved,    \* the feed in the store
    config,   \* supervisor.config
    running,  \* supervisor.running
    crawler,  \* what runFeed started
    row,      \* operations.sources
    firstRun, \* indexing.firstRun
    banner,   \* indexing.runs: "none", "reading" or "over"
    req,      \* the administration requests
    last      \* the runner stop waits for

vars == <<phase, saved, config, running, crawler, row, firstRun, banner, req, last>>

Feed == [on: BOOLEAN, cfg: Settings]
Writing == {"syncing", "sweeping"}
Free == [at |-> "free"]
Idle == [pc |-> "idle"]

Crawler ==
    {Free} \cup [at: {"starting", "waiting", "done"} \cup Writing, cfg: Settings,
                 cancelled: BOOLEAN, trigger: BOOLEAN, tracked: BOOLEAN]

\* runs is whether the row has a run to report on.
Row == [enabled: BOOLEAN, syncing: BOOLEAN, runs: BOOLEAN]

Request ==
    {Idle} \cup
    [pc: {"known", "read", "save", "config", "halt", "wait", "disable", "drop", "delete",
          "forget", "build", "started", "enable", "sync"},
     op: Ops, feed: Feed \cup {None}, runner: Slots \cup {None}]

ASSUME NoneIsNothing == None \notin Feed /\ None \notin Row

\* Type invariant of the maps, the requests and the crawlers.
TypeOK ==
    /\ phase \in {"down", "up", "draining", "stopping", "closed"}
    /\ saved \in Feed \cup {None}
    /\ config \in Feed \cup {None}
    /\ running \in Slots \cup {None}
    /\ crawler \in [Slots -> Crawler]
    /\ row \in Row \cup {None}
    /\ firstRun \in BOOLEAN
    /\ banner \in {"none", "reading", "over"}
    /\ req \in [Admins -> Request]
    /\ last \in Slots \cup {None}

Init ==
    /\ phase = "down"
    /\ saved = None
    /\ config = None
    /\ running = None
    /\ crawler = [c \in Slots |-> Free]
    /\ row = None
    /\ firstRun = FALSE
    /\ banner = "none"
    /\ req = [a \in Admins |-> Idle]
    /\ last = None

Live(c) == crawler[c].at \notin {"free", "done"}

-----------------------------------------------------------------------------
(* operations and indexing: what a sync writes down about itself.          *)

\* register keeps the history and the syncing flag of a row it finds.
Register(on) ==
    row' = [enabled |-> on,
            syncing |-> row # None /\ row.syncing,
            runs |-> row # None /\ row.runs]

EnableRow(on) ==
    row' = IF row = None THEN None
           ELSE [row EXCEPT !.enabled = on, !.syncing = on /\ @]

Starting == row' = IF row = None THEN None ELSE [row EXCEPT !.syncing = TRUE, !.runs = TRUE]

Finished == row' = IF row = None \/ ~row.runs THEN row ELSE [row EXCEPT !.syncing = FALSE]

\* expect: a source already seen by this process is not tracked again.
Expected(first) == first /\ banner = "none"
Expect(first) == banner' = IF Expected(first) THEN "reading" ELSE banner

-----------------------------------------------------------------------------
(* A crawler: the goroutine of runFeed.                                    *)

Crawls(c, at, next) ==
    /\ crawler[c].at = at
    /\ crawler' = [crawler EXCEPT ![c].at = next]
    /\ UNCHANGED <<phase, saved, config, running, firstRun, req, last>>

FirstSync(c) ==
    /\ Crawls(c, "starting", "syncing")
    /\ Starting
    /\ UNCHANGED banner

\* The select of the loop picks any case that is ready, a cancelled context or not.
Tick(c) ==
    /\ Refreshes
    /\ Crawls(c, "waiting", "syncing")
    /\ Starting
    /\ UNCHANGED banner

Hurried(c) ==
    /\ crawler[c].at = "waiting"
    /\ crawler[c].trigger
    /\ crawler' = [crawler EXCEPT ![c].at = "syncing", ![c].trigger = FALSE]
    /\ Starting
    /\ UNCHANGED <<phase, saved, config, running, firstRun, banner, req, last>>

\* pipeline.Run has returned.
SyncEnds(c) ==
    /\ Crawls(c, "syncing", "sweeping")
    /\ Finished
    /\ UNCHANGED banner

\* Mutant of SweepEnds: a first read that is over is not reported.
SweepEndsSilently(c) ==
    /\ Crawls(c, "sweeping", "waiting")
    /\ UNCHANGED <<banner, row>>

\* The sweep, or the early return of a sync that failed or is not due for one.
SweepEnds(c) ==
    /\ Crawls(c, "sweeping", "waiting")
    /\ banner' = IF crawler[c].tracked THEN "over" ELSE banner
    /\ UNCHANGED row

\* Mutant of Leave: the goroutine reads its trigger and its ticker and never its
\* context.
LeaveNever(c) == FALSE /\ UNCHANGED vars

Leave(c) ==
    /\ crawler[c].at = "waiting"
    /\ crawler[c].cancelled
    /\ Crawls(c, "waiting", "done")
    /\ UNCHANGED <<row, banner>>

Crawl(c) ==
    \/ FirstSync(c) \/ Tick(c) \/ Hurried(c) \/ SyncEnds(c) \/ SweepEnds(c) \/ Leave(c)

-----------------------------------------------------------------------------
(* launch and halt.                                                        *)

New(f, first) ==
    [at |-> "starting", cfg |-> f.cfg, cancelled |-> FALSE, trigger |-> FALSE,
     tracked |-> Expected(first)]

\* Cancelling the crawler r, if there is one.
Cancel(r) == crawler' = IF r = None THEN crawler ELSE [crawler EXCEPT ![r].cancelled = TRUE]

\* wait: the goroutine is gone, and what it held is released.
Waited(r) ==
    /\ r # None => crawler[r].at = "done"
    /\ crawler' = IF r = None THEN crawler ELSE [crawler EXCEPT ![r] = Free]

At(a, pc) == req[a].pc = pc
Goto(a, pc) == req' = [req EXCEPT ![a].pc = pc]
Return(a) == req' = [req EXCEPT ![a] = Idle]

AfterHalt(q) ==
    CASE q.op = "remove" -> "drop"
      [] q.op = "stop"   -> "disable"
      [] q.op = "add"    -> IF q.feed.on THEN "build" ELSE "disable"

Halt(a) ==
    /\ At(a, "halt")
    /\ Cancel(running)
    /\ running' = None
    /\ req' = [req EXCEPT ![a].pc = "wait", ![a].runner = running]
    /\ UNCHANGED <<phase, saved, config, row, firstRun, banner, last>>

Wait(a) ==
    /\ At(a, "wait")
    /\ Waited(req[a].runner)
    /\ Goto(a, AfterHalt(req[a]))
    /\ UNCHANGED <<phase, saved, config, running, row, firstRun, banner, last>>

BuildFails(a) ==
    /\ At(a, "build")
    /\ "build" \in Faults
    /\ Return(a)
    /\ UNCHANGED <<phase, saved, config, running, crawler, row, firstRun, banner, last>>

\* build and runFeed, as far as the goroutine that is now going.
Build(a) ==
    /\ At(a, "build")
    /\ \E c \in Slots :
          /\ crawler[c] = Free
          /\ crawler' = [crawler EXCEPT ![c] = New(req[a].feed, firstRun)]
          /\ req' = [req EXCEPT ![a].pc = "started", ![a].runner = c]
    /\ Register(TRUE)
    /\ Expect(firstRun)
    /\ UNCHANGED <<phase, saved, config, running, firstRun, last>>

Started(a) ==
    /\ At(a, "started")
    /\ running' = req[a].runner
    /\ Goto(a, "enable")
    /\ UNCHANGED <<phase, saved, config, crawler, row, firstRun, banner, last>>

Enable(a) ==
    /\ At(a, "enable")
    /\ EnableRow(TRUE)
    /\ Return(a)
    /\ UNCHANGED <<phase, saved, config, running, crawler, firstRun, banner, last>>

-----------------------------------------------------------------------------
(* The requests.                                                           *)

Ask(a, pc, op, f) ==
    /\ op \in Asked
    /\ phase = "up"
    /\ At(a, "idle")
    /\ req' = [req EXCEPT ![a] = [pc |-> pc, op |-> op, feed |-> f, runner |-> None]]
    /\ UNCHANGED <<phase, saved, config, running, crawler, row, firstRun, banner, last>>

\* Add, once the feed has been built for a try and released again.
Add(a, f) == Ask(a, "save", "add", f)

\* Remove, Start, Stop and Sync begin with known.
Remove(a) == Ask(a, "known", "remove", None)
Start(a) == Ask(a, "known", "start", None)
Stop(a) == Ask(a, "known", "stop", None)
Sync(a) == Ask(a, "known", "sync", None)

Known(a) ==
    /\ At(a, "known")
    /\ IF config = None THEN Return(a)
       ELSE Goto(a, CASE req[a].op = "remove" -> "halt"
                      [] req[a].op = "sync" -> "sync"
                      [] OTHER -> "read")
    /\ UNCHANGED <<phase, saved, config, running, crawler, row, firstRun, banner, last>>

\* switchTo reads the feed under a lock of its own.  A feed removed since known
\* reads as the zero feed: switched off already, and refused by SaveFeed.
Read(a) ==
    LET on == req[a].op = "start"
    IN /\ At(a, "read")
       /\ IF config = None \/ config.on = on THEN Return(a)
          ELSE req' = [req EXCEPT ![a].pc = "save", ![a].feed = [config EXCEPT !.on = on]]
       /\ UNCHANGED <<phase, saved, config, running, crawler, row, firstRun, banner, last>>

\* A store that is closed refuses the write.
SaveFails(a) ==
    /\ At(a, "save")
    /\ "save" \in Faults \/ phase = "closed"
    /\ Return(a)
    /\ UNCHANGED <<phase, saved, config, running, crawler, row, firstRun, banner, last>>

\* Mutant of SaveFeed: the feed is kept in memory and written down later.
SaveFeedLater(a) ==
    /\ At(a, "save")
    /\ phase # "closed"
    /\ Goto(a, "config")
    /\ UNCHANGED <<phase, saved, config, running, crawler, row, firstRun, banner, last>>

SaveFeed(a) ==
    /\ At(a, "save")
    /\ phase # "closed"
    /\ saved' = req[a].feed
    /\ Goto(a, "config")
    /\ UNCHANGED <<phase, config, running, crawler, row, firstRun, banner, last>>

\* Mutant of SetConfig: an edited connector is started beside the one it replaces.
SetConfigNoHalt(a) ==
    /\ At(a, "config")
    /\ config' = req[a].feed
    /\ Goto(a, IF req[a].feed.on THEN "build" ELSE "halt")
    /\ UNCHANGED <<phase, saved, running, crawler, row, firstRun, banner, last>>

SetConfig(a) ==
    /\ At(a, "config")
    /\ config' = req[a].feed
    /\ Goto(a, IF req[a].op = "start" THEN "build" ELSE "halt")
    /\ UNCHANGED <<phase, saved, running, crawler, row, firstRun, banner, last>>

\* The end of a Stop, and of an Add of a connector that is switched off.
Disable(a) ==
    /\ At(a, "disable")
    /\ IF req[a].op = "add"
       THEN row' = [enabled |-> FALSE, syncing |-> FALSE, runs |-> row # None /\ row.runs]
       ELSE EnableRow(FALSE)
    /\ Return(a)
    /\ UNCHANGED <<phase, saved, config, running, crawler, firstRun, banner, last>>

DropFails(a) ==
    /\ At(a, "drop")
    /\ "drop" \in Faults \/ phase = "closed"
    /\ Return(a)
    /\ UNCHANGED <<phase, saved, config, running, crawler, row, firstRun, banner, last>>

Drop(a) ==
    /\ At(a, "drop")
    /\ phase # "closed"
    /\ saved' = None
    /\ Goto(a, "delete")
    /\ UNCHANGED <<phase, config, running, crawler, row, firstRun, banner, last>>

Delete(a) ==
    /\ At(a, "delete")
    /\ config' = None
    /\ Goto(a, "forget")
    /\ UNCHANGED <<phase, saved, running, crawler, row, firstRun, banner, last>>

Forget(a) ==
    /\ At(a, "forget")
    /\ row' = None
    /\ Return(a)
    /\ UNCHANGED <<phase, saved, config, running, crawler, firstRun, banner, last>>

\* The trigger has room for one; a crawler that is off has none.
SyncNow(a) ==
    /\ At(a, "sync")
    /\ crawler' = IF running = None THEN crawler
                  ELSE [crawler EXCEPT ![running].trigger = TRUE]
    /\ Return(a)
    /\ UNCHANGED <<phase, saved, config, running, row, firstRun, banner, last>>

Step(a) ==
    \/ Known(a) \/ Read(a) \/ SaveFails(a) \/ SaveFeed(a) \/ SetConfig(a) \/ Halt(a)
    \/ Wait(a) \/ Disable(a) \/ DropFails(a) \/ Drop(a) \/ Delete(a) \/ Forget(a)
    \/ BuildFails(a) \/ Build(a) \/ Started(a) \/ Enable(a) \/ SyncNow(a)

Request_(a) ==
    \/ \E f \in Feed : Add(a, f)
    \/ Remove(a) \/ Start(a) \/ Stop(a) \/ Sync(a)

-----------------------------------------------------------------------------
(* The process: restore, stop, and a kill.                                 *)

\* The listener opens when restore has returned.  first says whether the index
\* was empty when this process came up.
Boot(first) ==
    /\ phase = "down"
    /\ phase' = "up"
    /\ config' = saved
    /\ firstRun' = first
    /\ UNCHANGED <<saved, req, last>>

RestoreNothing(first) ==
    /\ Boot(first)
    /\ saved = None
    /\ UNCHANGED <<running, crawler, row, banner>>

RestoreOff(first) ==
    /\ Boot(first)
    /\ saved # None /\ ~saved.on
    /\ Register(FALSE)
    /\ UNCHANGED <<running, crawler, banner>>

RestoreOn(first) ==
    /\ Boot(first)
    /\ saved # None /\ saved.on
    /\ \E c \in Slots :
          /\ crawler' = [crawler EXCEPT ![c] = New(saved, first)]
          /\ running' = c
    /\ Register(TRUE)
    /\ Expect(first)

\* The failed launch is logged and the next connector restored.
RestoreFails(first) ==
    /\ Boot(first)
    /\ saved # None /\ saved.on
    /\ "build" \in Faults
    /\ UNCHANGED <<running, crawler, row, banner>>

\* A signal: Shutdown closes the listener.
Signal ==
    /\ phase = "up"
    /\ phase' = "draining"
    /\ UNCHANGED <<saved, config, running, crawler, row, firstRun, banner, req, last>>

Quiet == \A a \in Admins : At(a, "idle")

\* stop takes the runners once Shutdown has seen the requests out, or has run
\* out of grace.
StopAll ==
    /\ phase = "draining"
    /\ Quiet \/ "grace" \in Faults
    /\ phase' = "stopping"
    /\ Cancel(running)
    /\ last' = running
    /\ running' = None
    /\ UNCHANGED <<saved, config, row, firstRun, banner, req>>

\* The last runner is gone, stop returns, and the store is closed.
Stopped ==
    /\ phase = "stopping"
    /\ Waited(last)
    /\ phase' = "closed"
    /\ last' = None
    /\ UNCHANGED <<saved, config, running, row, firstRun, banner, req>>

\* The process is gone, on its own or killed.
Die ==
    /\ phase # "down"
    /\ phase' = "down"
    /\ config' = None
    /\ running' = None
    /\ crawler' = [c \in Slots |-> Free]
    /\ row' = None
    /\ firstRun' = FALSE
    /\ banner' = "none"
    /\ req' = [a \in Admins |-> Idle]
    /\ last' = None
    /\ UNCHANGED saved

Restore(first) ==
    RestoreNothing(first) \/ RestoreOff(first) \/ RestoreOn(first) \/ RestoreFails(first)

Next ==
    \/ \E a \in Admins : Request_(a) \/ Step(a)
    \/ \E c \in Slots : Crawl(c)
    \/ \E first \in BOOLEAN : Restore(first)
    \/ Signal \/ StopAll \/ Stopped \/ Die

Spec == Init /\ [][Next]_vars

(* Goroutines run: a request gets on with its steps, and a crawler with its    *)
(* syncs.  select chooses at random among the cases that are ready, so a       *)
(* cancelled context, or a trigger, that stays ready is chosen in the end.     *)
Fairness ==
    /\ \A a \in Admins : WF_vars(Step(a))
    /\ \A c \in Slots : /\ WF_vars(FirstSync(c) \/ SyncEnds(c) \/ SweepEnds(c))
                        /\ SF_vars(Hurried(c))
                        /\ SF_vars(Leave(c))

FairSpec == Spec /\ Fairness

-----------------------------------------------------------------------------
(* Correctness.                                                            *)

\* halt: "a source that is being replaced has to have stopped writing before
\* the replacement starts".  Two crawlers never write the same source.
OneWriter == \A c, e \in Slots : Live(c) /\ Live(e) => c = e

\* api.Supervisor: a method returns after the change has been written down.
\* When no request is in progress a restart would restore what is configured.
RestartChangesNothing == phase = "up" /\ Quiet => saved = config

\* launch, halt: a crawler that is going is the one the configuration asks for,
\* once the requests about it have returned; a connector switched off, removed
\* or edited has stopped reading what it used to.
RunsAsConfigured ==
    phase = "up" /\ Quiet =>
        \A c \in Slots : Live(c) =>
            c = running /\ config # None /\ config.on /\ crawler[c].cfg = config.cfg

\* stop: no crawler is writing when the process returns from run and the store
\* is closed.
StopsBeforeClose == phase = "closed" => \A c \in Slots : ~Live(c)

\* operations.enable, finished: the screen says syncing only while a sync is.
SyncingIsTrue == row # None /\ row.syncing => \E c \in Slots : crawler[c].at = "syncing"

\* indexing: the banner that says results are partial is up only while the
\* crawler that will take it down is going.
BannerComesDown ==
    banner = "reading" => \E c \in Slots : Live(c) /\ crawler[c].tracked

\* operations: the screen lists nothing that is not configured, and calls
\* a connector off only when it is not running.  (It may call one enabled that
\* failed to start.)
ScreenIsTrue ==
    phase = "up" /\ Quiet =>
        /\ row # None => config # None
        /\ running # None => row # None /\ row.enabled

\* running names a crawler that nobody has asked to stop, so Sync always asks
\* one that will answer.
RunningIsWanted == running # None => Live(running) /\ ~crawler[running].cancelled

\* Sync: a run asked for is a run that happens, unless the connector is stopped.
AskedForHappens ==
    \A c \in Slots : (Live(c) /\ crawler[c].trigger) ~> (crawler[c].at \in {"syncing", "done", "free"})

\* A request returns: no crawler keeps the one that stops it waiting for ever.
RequestsReturn == \A a \in Admins : ~At(a, "idle") ~> At(a, "idle")

\* One crawler at a time writes a source, it is stopped before the store closes,
\* and the maps and requests keep their types (launch, halt, stop).
WritersAreOrderly == TypeOK /\ OneWriter /\ StopsBeforeClose

\* What runs is what was asked for and what a restart would run: the store, the
\* map and the crawlers agree once a request is over (Add, Remove, Start, Stop,
\* restore).
ConfigurationHolds ==
  /\ RunsAsConfigured
  /\ RestartChangesNothing
  /\ RunningIsWanted

\* The screen tells the truth: its rows, its syncing flags and the banner of the
\* first read (operations.go, indexing.go).
ScreenTells == ScreenIsTrue /\ SyncingIsTrue /\ BannerComesDown

\* A sync that was asked for happens, and every request returns (Sync, halt).
RequestsTakeEffect == AskedForHappens /\ RequestsReturn
=============================================================================
