------------------------------- MODULE Audit -------------------------------
(* The append only audit log: handlers queue records, one writer drains the  *)
(* queue into a file per day through a buffer, old days are pruned, and a    *)
(* reader streams the files of a window.                                     *)
(*                                                                           *)
(* A line is two pieces, because the buffer is cut where it is full and not  *)
(* where a line ends; a process that dies leaves whatever pieces had gone.   *)
(* Time is counted in half days.                                             *)
EXTENDS Integers, Sequences, FiniteSets, SequencesExt

CONSTANTS AuHandlers,    \* requests that write a record
          AuQueueSize,   \* Log.queue
          AuBufSize,     \* pieces bufio.Writer holds
          AuRetention,   \* File.retention, in half days; 0 keeps everything
          AuMaxTime, AuMaxFaults, AuMaxStarts
\* The buffer holds a line.
ASSUME AuAssumption ==
  /\ AuBufSize \in Nat /\ AuBufSize >= 2
  /\ AuQueueSize \in Nat /\ AuRetention \in Nat
  /\ AuMaxTime \in Nat /\ AuMaxFaults \in Nat /\ AuMaxStarts \in Nat

VARIABLES auNow, auFaults, auStarts,
          auQueue, auQuit, auRun,        \* Log: queue, quit, where run is
          auHandler,                     \* what each handler's Write has done
          auSync,                        \* a call of Sync
          auFile,                        \* File: day, file, buf
          auDisk,                        \* the directory
          auFailed,                      \* Log.failed, as the set of records
          auLost,                        \* records a crash or a stop took from memory
          auPruned                       \* records prune took, and when
auVars == <<auNow, auFaults, auStarts, auQueue, auQuit, auRun, auHandler, auSync, auFile, auDisk, auFailed, auLost, auPruned>>

-----------------------------------------------------------------------------
\* rec.At.UTC().Format(Layout): the day a time is in.
auDayOf(t) == t \div 2
auDays == 0..auDayOf(AuMaxTime)
auRec(h) == [by |-> h, at |-> auHandler[h].at]
auLine(rec) == <<[rec |-> rec, end |-> FALSE], [rec |-> rec, end |-> TRUE]>>
auNoFile == [day |-> 0, fd |-> "nil", buf |-> <<>>, err |-> FALSE]

\* A file write that accepts the first n of what it is given.
auWrite(disk, day, pieces, n) == [disk EXCEPT ![day] = @ \o SubSeq(pieces, 1, n)]
\* What one write may do: all of it, or on a full disk part of it; a closed file
\* takes nothing.
auWrites(f, pieces) ==
  IF f.fd = "closed" THEN {0}
  ELSE {Len(pieces)} \cup (IF auFaults < AuMaxFaults THEN 0..(Len(pieces) - 1) ELSE {})

\* What has happened so far in one call: the file, the directory, faults, pruned.
auAt(f, disk, ok) == [f |-> f, disk |-> disk, ok |-> ok, faults |-> auFaults, pruned |-> auPruned]

\* bufio.Writer.Flush: a failure is remembered, and every later write and flush
\* answers with it.  No buffer is nothing to do.
auFlushes(w) ==
  IF w.f.fd = "nil" \/ (~w.f.err /\ w.f.buf = <<>>) THEN {w}
  ELSE IF w.f.err THEN {[w EXCEPT !.ok = FALSE]}
  ELSE {IF n = Len(w.f.buf)
        THEN [w EXCEPT !.disk = auWrite(@, w.f.day, w.f.buf, n), !.f.buf = <<>>]
        ELSE [w EXCEPT !.disk = auWrite(@, w.f.day, w.f.buf, n), !.f.buf = SubSeq(@, n + 1, Len(@)),
                       !.f.err = TRUE, !.ok = FALSE, !.faults = @ + 1]
          : n \in auWrites(w.f, w.f.buf)}

\* bufio.Writer.Write: fill the buffer, flush when it is full, keep the rest.
auBuffers(w, line) ==
  LET room == AuBufSize - Len(w.f.buf)
      full == [w EXCEPT !.f.buf = @ \o SubSeq(line, 1, room)] IN
  IF w.f.err THEN {[w EXCEPT !.ok = FALSE]}
  ELSE IF Len(line) <= room THEN {[w EXCEPT !.f.buf = @ \o line]}
  ELSE {IF x.ok THEN [x EXCEPT !.f.buf = SubSeq(line, room + 1, Len(line))] ELSE x : x \in auFlushes(full)}

auRecordsIn(pieces) == {pieces[i].rec : i \in {j \in DOMAIN pieces : pieces[j].end}}

\* Mutant of auPrune: a day is as old as its first record.
auPruneFromStart(w) ==
  IF AuRetention = 0 THEN w
  ELSE LET old == {d \in DOMAIN w.disk : 2 * d <= auNow - AuRetention} IN
       [w EXCEPT !.disk = [d \in (DOMAIN w.disk) \ old |-> w.disk[d]],
                 !.pruned = @ \cup UNION {{[rec |-> r, when |-> auNow] : r \in auRecordsIn(w.disk[d])} : d \in old}]
\* File.prune: the end of the day has left the window.
auPrune(w) ==
  IF AuRetention = 0 THEN w
  ELSE LET old == {d \in DOMAIN w.disk : 2 * (d + 1) <= auNow - AuRetention} IN
       [w EXCEPT !.disk = [d \in (DOMAIN w.disk) \ old |-> w.disk[d]],
                 !.pruned = @ \cup UNION {{[rec |-> r, when |-> auNow] : r \in auRecordsIn(w.disk[d])} : d \in old}]

\* File.open: append to the day's file, creating it; it may be refused.
auOpens(w, day) ==
  {[w EXCEPT !.f = [day |-> day, fd |-> "open", buf |-> <<>>, err |-> FALSE],
             !.disk = IF day \in DOMAIN @ THEN @ ELSE [d \in DOMAIN @ \cup {day} |-> IF d = day THEN <<>> ELSE @[d]]]}
  \cup (IF w.faults < AuMaxFaults THEN {[w EXCEPT !.ok = FALSE, !.faults = @ + 1]} ELSE {})

\* The file a roll leaves behind is flushed and closed first.  A close that is
\* refused leaves the writer with a file it can no longer use.
auLeaves(w) ==
  IF w.f.fd = "nil" THEN {w}
  ELSE UNION {IF ~x.ok THEN {x}
              ELSE (IF x.f.fd = "open" THEN {[x EXCEPT !.f.fd = "nil", !.f.buf = <<>>]} ELSE {[x EXCEPT !.ok = FALSE]})
                   \cup (IF x.f.fd = "open" /\ x.faults < AuMaxFaults
                         THEN {[x EXCEPT !.f.fd = "closed", !.ok = FALSE, !.faults = @ + 1]} ELSE {})
              : x \in auFlushes(w)}
\* File.roll
auRolls(w, day) ==
  UNION {IF x.ok THEN {IF y.ok THEN auPrune(y) ELSE y : y \in auOpens(x, day)} ELSE {x} : x \in auLeaves(w)}

\* File.Append: the results of writing one record.  With no file for the day it
\* believes is open, the write dereferences nil and the process dies.
auAppends(rec) ==
  LET w == auAt(auFile, auDisk, TRUE) IN
  UNION {IF x.ok THEN (IF x.f.fd = "nil" THEN {} ELSE auBuffers(x, auLine(rec))) ELSE {x}
         : x \in IF auDayOf(rec.at) = auFile.day THEN {w} ELSE auRolls(w, auDayOf(rec.at))}
auPanics(rec) == auFile.fd = "nil" /\ auDayOf(rec.at) = auFile.day

-----------------------------------------------------------------------------
auIdle == [at |-> 0, did |-> "idle"]
auNoSync == [did |-> "idle", owes |-> {}]
AuInit ==
  /\ auNow = 0 /\ auFaults = 0 /\ auStarts = 1
  /\ auQueue = <<>> /\ auQuit = FALSE /\ auRun = "run"
  /\ auHandler = [h \in AuHandlers |-> auIdle] /\ auSync = auNoSync
  /\ auFile = [auNoFile EXCEPT !.fd = "open"] /\ auDisk = [d \in {0} |-> <<>>]
  /\ auFailed = {} /\ auLost = {} /\ auPruned = {}

auUp == auRun \in {"run", "sync", "quit", "exited"}
\* Log.Write stamps the record and then waits for room in the queue.
AuStamp(h) ==
  /\ auUp /\ auHandler[h].did = "idle"
  /\ auHandler' = [auHandler EXCEPT ![h] = [at |-> auNow, did |-> "waiting"]]
  /\ UNCHANGED <<auNow, auFaults, auStarts, auQueue, auQuit, auRun, auSync, auFile, auDisk, auFailed, auLost, auPruned>>
AuWrite(h) ==
  /\ auUp /\ auHandler[h].did = "waiting"
  /\ \/ Len(auQueue) < AuQueueSize /\ auQueue' = Append(auQueue, auRec(h)) /\ auHandler' = [auHandler EXCEPT ![h].did = "queued"]
     \/ auQuit /\ auHandler' = [auHandler EXCEPT ![h].did = "reported"] /\ UNCHANGED auQueue
  /\ UNCHANGED <<auNow, auFaults, auStarts, auQuit, auRun, auSync, auFile, auDisk, auFailed, auLost, auPruned>>

auQueued == {auRec(h) : h \in {g \in AuHandlers : auHandler[g].did = "queued"}}
\* Log.Sync: the writer takes the request, or a closing log answers nil.
AuSync ==
  /\ auUp /\ auSync.did = "idle"
  /\ \/ auRun = "run" /\ auRun' = "sync" /\ auSync' = [did |-> "asked", owes |-> auQueued]
     \/ auQuit /\ auSync' = [did |-> "closing", owes |-> {}] /\ UNCHANGED auRun
  /\ UNCHANGED <<auNow, auFaults, auStarts, auQueue, auQuit, auHandler, auFile, auDisk, auFailed, auLost, auPruned>>
\* Log.Close closes quit and waits for the writer.
AuClose ==
  /\ auUp /\ ~auQuit /\ auQuit' = TRUE
  /\ UNCHANGED <<auNow, auFaults, auStarts, auQueue, auRun, auHandler, auSync, auFile, auDisk, auFailed, auLost, auPruned>>

auKeep(w) == auFile' = w.f /\ auDisk' = w.disk /\ auFaults' = w.faults /\ auPruned' = w.pruned
\* Log.run flushes when nothing else is waiting; Log.drain does not.
auFlushed(w) == IF auRun = "run" /\ Len(auQueue) = 1 THEN auFlushes(w) ELSE {w}
\* Log.append: what the sink refuses is counted and dropped.
AuTake ==
  /\ auRun \in {"run", "sync", "quit"} /\ auQueue # <<>>
  /\ LET rec == Head(auQueue) IN
     /\ ~auPanics(rec)
     /\ \E x \in auAppends(rec) :
          /\ auFailed' = IF x.ok THEN auFailed ELSE auFailed \cup {rec}
          /\ \E y \in auFlushed([x EXCEPT !.ok = TRUE]) : auKeep(y)
  /\ auQueue' = Tail(auQueue)
  /\ UNCHANGED <<auNow, auStarts, auQuit, auRun, auHandler, auSync, auLost>>

\* The queue was seen empty: Sync's flush is its answer.
AuSynced ==
  /\ auRun = "sync" /\ auQueue = <<>>
  /\ \E w \in auFlushes(auAt(auFile, auDisk, TRUE)) :
       auKeep(w) /\ auSync' = [auSync EXCEPT !.did = IF w.ok THEN "ok" ELSE "error"]
  /\ auRun' = "run"
  /\ UNCHANGED <<auNow, auStarts, auQueue, auQuit, auHandler, auFailed, auLost>>
auBuffered(f) == {f.buf[i].rec : i \in DOMAIN f.buf}
\* run sees quit and drains; then it flushes, closes the sink and is gone.  What
\* that flush could not write is gone too.
AuQuits ==
  /\ auRun = "run" /\ auQuit /\ auRun' = "quit"
  /\ UNCHANGED <<auNow, auFaults, auStarts, auQueue, auQuit, auHandler, auSync, auFile, auDisk, auFailed, auLost, auPruned>>
AuExits ==
  /\ auRun = "quit" /\ auQueue = <<>>
  /\ \E w \in auFlushes(auAt(auFile, auDisk, TRUE)) :
       auKeep([w EXCEPT !.f.fd = "nil", !.f.buf = <<>>]) /\ auLost' = auLost \cup auBuffered(w.f)
  /\ auRun' = "exited"
  /\ UNCHANGED <<auNow, auStarts, auQueue, auQuit, auHandler, auSync, auFailed>>

\* What is queued or buffered when a process dies is gone with it.
auInMemory == Range(auQueue) \cup auBuffered(auFile)
auDie ==
  /\ auRun' = "down" /\ auLost' = auLost \cup auInMemory /\ auQueue' = <<>>
  /\ auFile' = [auNoFile EXCEPT !.day = auFile.day]
  /\ UNCHANGED <<auNow, auFaults, auStarts, auQuit, auHandler, auSync, auDisk, auFailed, auPruned>>
\* The process is killed; or the write of Append has no buffer.
AuCrash == auUp /\ auRun # "exited" /\ auStarts < AuMaxStarts /\ auDie
AuPanic == auRun \in {"run", "sync", "quit"} /\ auQueue # <<>> /\ auPanics(Head(auQueue)) /\ auDie
\* The process starts again: Open opens today's file and prunes, New runs the
\* writer.  Handlers that were waiting died with the process.
AuRestart ==
  /\ auRun \in {"down", "exited"} /\ auStarts < AuMaxStarts /\ auStarts' = auStarts + 1
  /\ \E w \in auOpens(auAt(auNoFile, auDisk, TRUE), auDayOf(auNow)) : w.ok /\ auKeep(auPrune(w))
  /\ auRun' = "run" /\ auQuit' = FALSE /\ auQueue' = <<>> /\ auSync' = auNoSync
  /\ auLost' = auLost \cup Range(auQueue)
  /\ auHandler' = [h \in AuHandlers |-> IF auHandler[h].did = "waiting" THEN auIdle ELSE auHandler[h]]
  /\ UNCHANGED <<auNow, auFailed>>
\* A record waits for the writer for less than a retention window, if there is one.
AuTick ==
  /\ auNow < AuMaxTime /\ auNow' = auNow + 1
  /\ AuRetention = 0 \/ \A r \in auInMemory \cup {auRec(h) : h \in {g \in AuHandlers : auHandler[g].did = "waiting"}} : auNow - r.at < AuRetention
  /\ UNCHANGED <<auFaults, auStarts, auQueue, auQuit, auRun, auHandler, auSync, auFile, auDisk, auFailed, auLost, auPruned>>

AuWriter == AuTake \/ AuSynced \/ AuQuits \/ AuExits
AuNext ==
  \/ \E h \in AuHandlers : AuStamp(h) \/ AuWrite(h)
  \/ AuSync \/ AuClose \/ AuWriter \/ AuCrash \/ AuPanic \/ AuRestart \/ AuTick
\* The writer runs, and a handler whose select can go on does.
AuFairness == WF_auVars(AuWriter \/ \E h \in AuHandlers : AuWrite(h))
AuSpec == AuInit /\ [][AuNext]_auVars /\ AuFairness

-----------------------------------------------------------------------------
\* The lines of a file: the scanner cuts at line ends, and the rest is a line.
auLines(pieces) ==
  LET ends == {i \in DOMAIN pieces : pieces[i].end} \cup (IF pieces = <<>> THEN {} ELSE {Len(pieces)})
      from(i) == 1 + (IF \E j \in ends : j < i THEN CHOOSE j \in ends : j < i /\ \A k \in ends : k < i => k <= j ELSE 0)
  IN [n \in 1..Cardinality(ends) |->
        LET i == CHOOSE i \in ends : Cardinality({j \in ends : j <= i}) = n IN SubSeq(pieces, from(i), i)]
auParses(line) == Len(line) = 2 /\ line = auLine(line[1].rec)
\* readFile: a line that does not parse is an error unless it is the last.
auRefused(lines) == \E n, last \in DOMAIN lines : n < last /\ ~auParses(lines[n])
auGoodIn(lines) == {lines[n][1].rec : n \in {m \in DOMAIN lines : auParses(lines[m])}}
auReadFile(pieces, from, to) ==
  LET lines == auLines(pieces) IN
  [ok |-> ~auRefused(lines), recs |-> {r \in auGoodIn(lines) : from <= r.at /\ r.at <= to}]
\* files: a day is skipped only when the window cannot reach into it.
auFiles(from, to) == {d \in DOMAIN auDisk : 2 * (d + 1) >= from /\ 2 * d <= to}
\* Records and Export, of a window
auRecords(from, to) ==
  LET read == [d \in auFiles(from, to) |-> auReadFile(auDisk[d], from, to)] IN
  [ok |-> \A d \in DOMAIN read : read[d].ok, recs |-> UNION {read[d].recs : d \in DOMAIN read}]

\* The log's state is what its types allow, and it holds no file only after a
\* refused roll or a stop.
AuTypeOK ==
  /\ auRun \in {"run", "sync", "quit", "exited", "down"} /\ Len(auQueue) <= AuQueueSize
  /\ \A h \in AuHandlers : auHandler[h].did \in {"idle", "waiting", "queued", "reported"}
  /\ auSync.did \in {"idle", "asked", "closing", "ok", "error"}
  /\ DOMAIN auDisk \subseteq auDays /\ Len(auFile.buf) <= AuBufSize /\ auFile.fd \in {"open", "nil", "closed"}
  /\ auFile.fd = "nil" => auFile.buf = <<>>

auOnDisk == (UNION {auRecordsIn(auDisk[d]) : d \in DOMAIN auDisk}) \cup {p.rec : p \in auPruned}
\* Sync waits for everything written so far to reach the sink: when it answers
\* without an error, every record queued before it is in a file or was counted
\* as failed.
SyncReaches == auSync.did = "ok" => auSync.owes \subseteq auOnDisk \cup auFailed \cup auLost
\* A quiet process has its last record on disk: with nothing queued and no write
\* refused, every record that Write accepted is in a file, was counted as
\* failed, or died with a process.
QuietIsWritten ==
  auQueue = <<>> /\ auRun = "run" /\ ~auFile.err => auQueued \subseteq auOnDisk \cup auFailed \cup auLost
\* One file per UTC day: a record is in the file of the day it was stamped with,
\* however late it was written.
RightDay == \A d \in DOMAIN auDisk : \A i \in DOMAIN auDisk[d] : auDayOf(auDisk[d][i].rec.at) = d
\* Retention: what prune deleted was older than the retention window.
RetentionHonest == \A p \in auPruned : p.when - p.rec.at > AuRetention
\* A line that another one was written behind before it had ended.
auTorn(d) == \E i \in 1..(Len(auDisk[d]) - 1) : ~auDisk[d][i].end /\ auDisk[d][i + 1] # [auDisk[d][i] EXCEPT !.end = TRUE]
\* What is in the directory is read: a window answers every whole record in it
\* unless a file is refused, also while the writer is half way through a line.
WindowIsWhole ==
  (\A d \in DOMAIN auDisk : ~auTorn(d)) =>
    LET there == auOnDisk \ {p.rec : p \in auPruned} IN
    \A from, to \in 0..AuMaxTime :
      LET answer == auRecords(from, to) IN answer.ok /\ answer.recs = {r \in there : from <= r.at /\ r.at <= to}
\* A record that was accepted is in the file of its day as soon as the log says so,
\* stays as long as retention has it, and is read back (audit).
RecordsAreKept ==
  /\ AuTypeOK
  /\ SyncReaches
  /\ QuietIsWritten
  /\ RightDay
  /\ RetentionHonest
  /\ WindowIsWhole

\* The half record of a process that died is not corruption worth refusing the
\* history over: the whole history can be read after any restart.
HistoryIsReadable == auRecords(0, AuMaxTime).ok
\* A handler is never left waiting: its record is queued, or it is told that the
\* log is closed, unless the process dies.
HandlersGoOn == \A h \in AuHandlers : []<>(auHandler[h].did # "waiting" \/ auRun = "down")
=============================================================================
