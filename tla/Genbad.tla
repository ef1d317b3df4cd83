------------------------------- MODULE Genbad -------------------------------
(***************************************************************************)
(* The life of the server process: run of cmd/genbad, from opening the     *)
(* audit trail to closing it.  run opens what it needs in order and defers *)
(* the opposite of each, starts a feed for every source on the command     *)
(* line and the supervisor's connectors, and serves until a signal or      *)
(* until a listener falls over.                                            *)
(*                                                                         *)
(* Data abstraction: the connectors of the supervisor are one feed, which  *)
(* only stop cancels.  Flags and settings are whether a step can fail.     *)
(***************************************************************************)
EXTENDS Naturals, Sequences, FiniteSets

CONSTANTS
    Listeners,   \* the API's, and the metrics endpoint's where there is one
    Refreshing   \* the flag configured feeds with a refresh interval

Flagged == {"corpus", "bucket"}
Feeds == Flagged \cup {"supervisor"}

ASSUME ListenersOK ==
    /\ IsFiniteSet(Listeners)
    /\ Listeners # {}
    /\ Refreshing \subseteq Flagged

VARIABLES
    pc,         \* where run is
    deferred,   \* its deferred calls, the last one first
    signal,     \* whether the context it was given is cancelled
    failed,     \* whether it is on its way out with an error
    open,       \* what is open: the audit trail, the store and the searcher
    feed,       \* the feeds' goroutines
    stopped,    \* whether the supervisor has cancelled its connectors
    listener,
    errc,       \* how many listeners have reported and not been heard
    awaited     \* serve's running: how many have still to be heard

gbVars == <<pc, deferred, signal, failed, open, feed, stopped, listener, errc, awaited>>

Opened == <<"audit", "store", "searcher", "corpus", "bucket", "supervisor">>
Things == {"audit", "store", "searcher"}
Pcs == {Opened[i] : i \in DOMAIN Opened}

\* Type invariant of the process and what it has opened.
GbTypeOK ==
    /\ pc \in Pcs \cup {"serve", "shutdown", "collect", "return", "exited"}
    /\ deferred \in Seq(Pcs)
    /\ signal \in BOOLEAN
    /\ failed \in BOOLEAN
    /\ open \subseteq Things
    /\ feed \in [Feeds -> {"none", "syncing", "waiting", "done"}]
    /\ stopped \in BOOLEAN
    /\ listener \in [Listeners -> {"none", "serving", "closing", "reported"}]
    /\ errc \in 0..Cardinality(Listeners)
    /\ awaited \in 0..Cardinality(Listeners)

GbInit ==
    /\ pc = "audit"
    /\ deferred = <<>>
    /\ signal = FALSE
    /\ failed = FALSE
    /\ open = {}
    /\ feed = [f \in Feeds |-> "none"]
    /\ stopped = FALSE
    /\ listener = [l \in Listeners |-> "none"]
    /\ errc = 0
    /\ awaited = 0

Defer(x) == deferred' = <<x>> \o deferred
Undefer == deferred' = Tail(deferred)

\* The place after the one that opens x.
After(x) ==
    LET i == CHOOSE i \in DOMAIN Opened : Opened[i] = x
    IN IF i = Len(Opened) THEN "serve" ELSE Opened[i + 1]

-----------------------------------------------------------------------------
(* Coming up.                                                              *)

Open(x) ==
    /\ pc = x
    /\ x \in Things
    /\ open' = open \cup {x}
    /\ Defer(x)
    /\ pc' = After(x)
    /\ UNCHANGED <<signal, failed, feed, stopped, listener, errc, awaited>>

\* A feed runs in the background from here; a source that is not configured
\* has none, and the wait for it returns at once.
StartFeed(x) ==
    /\ pc = x
    /\ x \in Feeds
    /\ \E going \in BOOLEAN :
          feed' = IF going THEN [feed EXCEPT ![x] = "syncing"] ELSE feed
    /\ Defer(x)
    /\ pc' = After(x)
    /\ UNCHANGED <<signal, failed, open, stopped, listener, errc, awaited>>

\* The audit directory, the database, the directory files, a bad corpus or
\* bucket, or the configured connectors cannot be read: run returns.
ComingUpFails ==
    /\ pc \in Pcs
    /\ failed' = TRUE
    /\ pc' = "return"
    /\ UNCHANGED <<deferred, signal, open, feed, stopped, listener, errc, awaited>>

Serve ==
    /\ pc = "serve"
    /\ \A l \in Listeners : listener[l] = "none"
    /\ listener' = [l \in Listeners |-> "serving"]
    /\ awaited' = Cardinality(Listeners)
    /\ UNCHANGED <<pc, deferred, signal, failed, open, feed, stopped, errc>>

\* A listener that could not bind, or stopped accepting.
ListenerFails(l) ==
    /\ listener[l] = "serving"
    /\ listener' = [listener EXCEPT ![l] = "reported"]
    /\ errc' = errc + 1
    /\ failed' = TRUE
    /\ UNCHANGED <<pc, deferred, signal, open, feed, stopped, awaited>>

SignalArrives ==
    /\ pc # "exited"
    /\ ~signal
    /\ signal' = TRUE
    /\ UNCHANGED <<pc, deferred, failed, open, feed, stopped, listener, errc, awaited>>

-----------------------------------------------------------------------------
(* Going down.                                                             *)

ServingEnds ==
    /\ pc = "serve"
    /\ awaited > 0
    /\ \/ /\ errc > 0
          /\ errc' = errc - 1
          /\ awaited' = awaited - 1
       \/ /\ signal
          /\ UNCHANGED <<errc, awaited>>
    /\ pc' = "shutdown"
    /\ UNCHANGED <<deferred, signal, failed, open, feed, stopped, listener>>

\* Shutdown of every server, in time or out of grace.
Shutdown ==
    /\ pc = "shutdown"
    /\ listener' = [l \in Listeners |-> IF listener[l] = "serving" THEN "closing" ELSE listener[l]]
    /\ pc' = "collect"
    /\ UNCHANGED <<deferred, signal, failed, open, feed, stopped, errc, awaited>>

ListenerCloses(l) ==
    /\ listener[l] = "closing"
    /\ listener' = [listener EXCEPT ![l] = "reported"]
    /\ errc' = errc + 1
    /\ UNCHANGED <<pc, deferred, signal, failed, open, feed, stopped, awaited>>

Collect ==
    /\ pc = "collect"
    /\ \/ /\ awaited = 0
          /\ pc' = "return"
          /\ UNCHANGED <<errc, awaited>>
       \/ /\ awaited > 0
          /\ errc > 0
          /\ errc' = errc - 1
          /\ awaited' = awaited - 1
          /\ UNCHANGED pc
    /\ UNCHANGED <<deferred, signal, failed, open, feed, stopped, listener>>

Returning(x) == pc = "return" /\ deferred # <<>> /\ Head(deferred) = x

CloseDeferred(x) ==
    /\ Returning(x)
    /\ x \in Things
    /\ open' = open \ {x}
    /\ Undefer
    /\ UNCHANGED <<pc, signal, failed, feed, stopped, listener, errc, awaited>>

\* stop: the connectors are cancelled, and then waited for.
StopDeferred ==
    /\ Returning("supervisor")
    /\ ~stopped
    /\ stopped' = TRUE
    /\ UNCHANGED <<pc, deferred, signal, failed, open, feed, listener, errc, awaited>>

\* Mutant of WaitDeferred: the wait gives up on a feed that is going.
WaitDeferredNot(x) ==
    /\ Returning(x)
    /\ x \in Feeds
    /\ x = "supervisor" => stopped
    /\ Undefer
    /\ UNCHANGED <<pc, signal, failed, open, feed, stopped, listener, errc, awaited>>

WaitDeferred(x) ==
    /\ Returning(x)
    /\ x \in Feeds
    /\ x = "supervisor" => stopped
    /\ feed[x] \in {"none", "done"}
    /\ Undefer
    /\ UNCHANGED <<pc, signal, failed, open, feed, stopped, listener, errc, awaited>>

Exit ==
    /\ pc = "return"
    /\ deferred = <<>>
    /\ pc' = "exited"
    /\ UNCHANGED <<deferred, signal, failed, open, feed, stopped, listener, errc, awaited>>

-----------------------------------------------------------------------------
(* The goroutine of a feed.                                                *)

Cancelled(f) == IF f = "supervisor" THEN stopped ELSE signal

FeedSyncEnds(f) ==
    /\ feed[f] = "syncing"
    /\ feed' = [feed EXCEPT ![f] = IF f \in Flagged \ Refreshing THEN "done" ELSE "waiting"]
    /\ UNCHANGED <<pc, deferred, signal, failed, open, stopped, listener, errc, awaited>>

SyncAgain(f) ==
    /\ feed[f] = "waiting"
    /\ feed' = [feed EXCEPT ![f] = "syncing"]
    /\ UNCHANGED <<pc, deferred, signal, failed, open, stopped, listener, errc, awaited>>

\* Mutant of FeedEnds: the loop does not look at its context.
FeedEndsNever(f) == FALSE /\ UNCHANGED gbVars

FeedEnds(f) ==
    /\ feed[f] = "waiting"
    /\ Cancelled(f)
    /\ feed' = [feed EXCEPT ![f] = "done"]
    /\ UNCHANGED <<pc, deferred, signal, failed, open, stopped, listener, errc, awaited>>

GbFinished == pc = "exited" /\ UNCHANGED gbVars

Main ==
    \/ \E x \in Pcs : Open(x) \/ StartFeed(x) \/ CloseDeferred(x) \/ WaitDeferred(x)
    \/ ComingUpFails \/ Serve \/ ServingEnds \/ Shutdown \/ Collect \/ StopDeferred \/ Exit

GbNext ==
    \/ Main
    \/ \E l \in Listeners : ListenerFails(l) \/ ListenerCloses(l)
    \/ \E f \in Feeds : FeedSyncEnds(f) \/ SyncAgain(f) \/ FeedEnds(f)
    \/ SignalArrives \/ GbFinished

GbSpec == GbInit /\ [][GbNext]_gbVars

(* Goroutines run.  A sync ends, whatever it has to read, and a select that    *)
(* finds a cancelled context and a tick ready takes the context in the end.    *)
GbFairness ==
    /\ WF_gbVars(Main)
    /\ \A l \in Listeners : WF_gbVars(ListenerCloses(l))
    /\ \A f \in Feeds : WF_gbVars(FeedSyncEnds(f)) /\ SF_gbVars(FeedEnds(f))

GbFairSpec == GbSpec /\ GbFairness

-----------------------------------------------------------------------------
(* Correctness.                                                            *)

\* The order of the defers: a feed writes only to a store that is open, and what
\* a feed or a request does is recorded in an audit trail that is open.
StoreOutlivesFeeds ==
    /\ (\E f \in Feeds : feed[f] \in {"syncing", "waiting"}) => "store" \in open
    /\ "store" \in open => "audit" \in open

\* errc: every report of a listener finds room and is heard once, so no listener
\* goroutine is left behind and run never waits for a report that was read.
ReportsAreCounted ==
    pc \in {"shutdown", "collect", "return", "exited"} /\ awaited > 0 =>
        awaited = errc + Cardinality({l \in Listeners : listener[l] \in {"serving", "closing"}})

\* A signal takes the process down: every wait of the defers ends.
SignalExits == signal ~> (pc = "exited")

\* run: a flag that is wrong is "an error the process exits on", and a listener
\* that falls over takes the process with it.
ErrorExits == failed ~> (pc = "exited")

\* The process comes down in the order of its defers: feeds are gone before the
\* store closes, and every listener is heard once (run, serve).
ComesDownInOrder == GbTypeOK /\ StoreOutlivesFeeds /\ ReportsAreCounted
=============================================================================
