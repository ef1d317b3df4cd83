# genba: TLA+ models, checks and proofs

genba is a permission-aware search server. Connectors read documents and their access lists
out of other systems, an ingestion pipeline writes them to a store, and a search answers a
reader with what that reader may see. The parts of it that are hard to get right are the ones
that survive a crash, that run while something else is running, or that must never let a
document be seen under a list it no longer has. Those are the parts this directory models.

Every module is translated from the Go source. `PROJECT.json` maps each definition to the lines
it stands for. A definition marked external stands for something the repository only uses (the
file system, the source a connector reads).

## Running it

    tlc -workers 2 -config SegDir_power.cfg SegDir
    tlapm SegDirProofs.tla

Every run is a line of `PROJECT.json`: its module, its configuration, whether it is expected to
pass, and what it shows. A run expected to be violated states something a comment or a document
of the repository says, and its counterexample is how the code disagrees.
Definitions whose comment begins "Mutant of" are plausible mistakes: substituting one for the
definition it names must break the property `PROJECT.json` lists with it.
A property of a run is often a conjunction of named ones that speak of one subject; the sections
below give the parts of each, and every part has its own definition and comment in its module.

## Inventory

The system's parts, the state each keeps, its operations, whom it talks to, and what makes it
hard.

| Part | State | Operations | Talks to | Hard because |
|---|---|---|---|---|
| Segment directory (`store/segdir`) | live set and next sequence in memory; segment files and a manifest on disk | Open, Next, Publish, Remove, Read, Close | the file system | a kill or a power cut between any two system calls, a system call that fails, a reader between its lookup and its read |
| Ingestion pipeline (`ingest`) | a batch of puts, deletes and permission changes, a pending cursor | Run, emit, flush, Reconcile, repair | connector, store, checkpoint | errors and crashes between store and checkpoint, batches applied by kind, a source that changes under a sweep |
| Checkpoints (`connector/checkpoint.go`) | one small file per tenant and source | Load, Save | pipeline | rename, collisions of file names |
| Filesystem connector (`connector/fssource`) | a root, a permission policy, a watcher | Sync, Enumerate, Fetch, Check | pipeline, watcher | a cursor that is a time over a walk that is in path order |
| Filesystem watcher (`watch.go`) | pending paths, a generation, watched directories | collect, record, mark, lose, pending, caughtUp | fssource | events lost or arriving during a walk |
| Connector supervisor (`cmd/genbad`) | configured feeds, running crawlers, rows of the screen | Add, Remove, Start, Stop, Sync, restore, stop | api, feed, store | administration requests run concurrently and the lock covers the maps, not the requests |
| Permission model (`acl`) | none | VisibleTo, keys | every store | deny against allow, what an unresolved list means, keys that differ in case |
| Stores (`memstore`, `sqlitestore`, `pgstore`) | documents, postings and statistics, verifications, corrections, reports, answers, feeds, opens | Put, Delete, SetPermissions, every read, and the desks people work at | pipeline, search, api | three drivers of one contract, statistics kept by increments, retries of a commit that happened, several servers on one database |
| Store notifications (`store/notify.go`) | subscribers | Subscribe, changed | api, search cache | told after the commit, in any order with later writes |
| Cache (`cache`) | shards of entries, order of use, calls in flight | Get, Do, Put, Delete, Clear | search, directories | a load that is in flight when the entry is dropped |
| Search (`index`) | four layers of cache | Search, Recent, Filters | store, cache, directory | orderings, bodies and numbers reused across people and writes |
| Directories (`directory`) | cached group sets | Expand, Forget | identity providers | cycles, an answer that outlives an edit, callers that share a walk and leave |
| Directory clients (`directory/google`, `entra`, `okta`, `provider`) | a token, a buffer of groups | Open, Subject, Group, Token | HTTP | paging while people move, refusals, expiry noticed by several lookups |
| Rate limits (`connector/limit`) | bucket, pause, breaker | Wait, RoundTrip | HTTP clients | many callers, retries, refusals that arrive late |
| Object storage connector (`connector/objectsource`) | two part cursor, the bucket's list | Sync, Enumerate, Fetch | pipeline | a listing in key order, a cursor that is a time, a list that changes meanwhile |
| Conversation connectors (`threadsource`, `thread`, Slack, Jira, Confluence) | a cursor with a container and a time, caches of rules | Sync, Enumerate, Fetch | pipeline | interrupted walks, products that change under a listing, rules on several levels |
| Permission mapping (`connector/aclmap`) | none | Normalize | connectors | statements that overlap or have no place in the model |
| Recheck (`recheck`) | remembered answers, counters | Check | source, api | one deadline over several sources, answers reused |
| Audit trail (`audit`) | queue, buffer, day files | Write, Sync, Close, Records | api | a full queue, a half written line, retention at midnight |
| HTTP handlers (`api`) | pictures, event streams | about thirty routes | everything | several calls to the driver with nothing held between them |

What makes each part correct is in `PROJECT.json` under "hazards": what can go wrong, at the
line where it would, and the property that would catch it.

## Modules, and what is left to do

| Modules | What they are about |
|---|---|
| `SegDir`, `SegIndex`, `SegDirProofs` | the segment directory, the promise it implements, the proofs |
| `Ingest`, `IngestProofs` | the pipeline, its checkpoint and the sweep that repairs what the feed missed |
| `Supervisor`, `SupervisorProofs`, `Genbad` | the administration requests and their crawlers; the process around them (proofs of `Genbad` in `StoreProofs`) |
| `FsSource`, `FsSourceProofs` | the filesystem connector and its watcher |
| `Acl`, `Store`, `MemStore`, `SqliteStore`, `PgStore`, `Stores`, `StoreProofs` | the permission rule, the storage contract, the reference store, the two SQL drivers that implement it, what the three promise together, the proofs; also those of `Genbad`, which closes the store |
| `Cache`, `Directory`, `Tokens`, `Providers`, `Recheck`, `Search`, `Audit`, `Api`, `ApiProofs`, `SearchProofs` | what answers a request; the proofs about the handlers and the audit log, and about the search, its cache and the recheck |
| `ThreadSource`, `Thread`, `Slack`, `Jira`, `Confluence`, `ObjectSource`, `AclMap`, `Checkpoint`, `Connectors`, `Limit`, `ConnectorProofs` | the other connectors and what connectors share |
| `MC*` | small instances of several modules for TLC; a run of one module alone may name that module |

How they compose. `Genbad` starts and stops what `Supervisor` and `Ingest` model; a crawler of
`Supervisor` is a `Feed` of `Ingest`; the abstract source of `Ingest` hands changes over in an
order where each is safe to resume after, which is what `connector.Connector` asks for, and what
`FsSource`, `ObjectSource` and `ThreadSource` examine for their connectors. A flush of `Ingest`
is one `Put`, `Delete` and `SetPermissions` of a store. `SqliteStore` and `PgStore` are shown to
implement `MemStore`, which is therefore the abstract store `Search` and `Api` read from; what a
store tells its subscribers (`MemChanged`) is what `Search` drops from its caches. `Api` puts a
page to the sources by what `Recheck` promises, and `Directory` walks what `Providers` answers.

Left to prove: that the SQLite driver implements `MemStore`, that every read of the SQL drivers
agrees with the rule (`ReadsAgree`), the parts of the reading path that answer who somebody is
(`Directory`, `Tokens`, `Providers`), and that a conversation is stored whole
(`ConversationsAreWhole`).

## The segment directory: `SegDir`, `SegIndex`, `SegDirProofs`

`live`, `next` are the fields of `Dir`; `op` is the Publish or Remove that holds the write lock,
and its `step` is the system call that comes next. `seg`, `man`, `tmp` are the directory as a
process reads it; `dseg`, `dman`, `dtmp` are everything a power cut may leave of it: a name may come
back as any entry it has had since the directory was last flushed, and a file whose bytes were
not flushed may come back short or with other bytes. `Kill` loses memory, `PowerCut` chooses from
the second set. `Fail` is any system call returning an error, with the clean-up the code does.
`Open` is `OpenRead`, the sweep one file at a time, and `Check`. `Publish` is `Publish` (write and
flush the temporary file), `PublishRename`, `PublishSyncDir`, and the three manifest steps;
`Remove` is the manifest steps and then one `Unlink` per file. `Read` is `ReadLookup` and
`ReadFile`, because the lock is released between them.

`SegIndex` is what a caller is promised: an acknowledged publish or removal survives, and one in
doubt is there or not and nothing in between. `KeepsPromise` is that `SegDir` implements it.

Runs:

- `segdir_kill`: nothing is flushed, any call may fail, the process may die between any two. Two
  sequences and two builds are enough for a publish beside a removal, a failed publish tried
  again, and a name that could be reused with other bytes. `CleansUp` is `RecoveryLeavesNothing`
  (the next `Open` sweeps what a crash left) and `NameNeverReused`.
- `segdir_power`: `SyncFull` and power cuts, three sequences; a caller may rebuild a segment.
  `Recovers` is `OpenNeverRefused` and `ServedWhole`.

Kills and power cuts are apart because together they break it. With `Sync = "full"`,
`Crashes = {"kill", "power"}`, `MaxSeq = 2`, one build, no I/O errors and no rebuilds, TLC refutes
`OpenNeverRefused`: a kill between the rename of the manifest and the flush of the directory
(manifest.go:185-193), an `Open` that sweeps on its word without flushing first (segdir.go:201),
and a power cut that undoes the rename and keeps the unlinks. The next `Open` returns `ErrMissing`,
where segdir.go:69 says of `SyncFull` that "An index written this way survives the machine losing
power at any instant." A flush of the directory before the sweep would close it.

Two more disagreements were met and have no run of their own. After `writeManifest` fails past its rename,
a second `Publish` of the sequence with bytes of another length, killed after the segment rename,
leaves a manifest and a file that disagree (`Rebuilds` with `IOErrors`). And under
`SyncManifest` without `Verify` a power cut can leave a segment of the right length with other
bytes, which `check` accepts, where segdir.go:78-80 promises a loud failure.

Proved, for every `MaxSeq` and every set of builds: `TypeCorrect` in every setting; and, under
`Safe`, that `Open` never refuses (`NeverRefused`), that what is served is whole
(`AlwaysServedWhole`, and both as `RecoversAlways`), that a reader never gets another segment's
bytes (`ReadsNeverMixed`), that an open sweeps what a crash left and no sequence is used twice
(`CleansUpAlways`), and that `SegDir` implements `SegIndex` (`Refinement`: an initial state maps
to an initial state, each action to one of the caller's or to a stutter). `Safe` is no rebuilding
beside failing calls, and either no power cuts (any `Sync`) or power cuts with `SyncFull`, no kills and no
failing calls; the disagreements above are what it leaves out. None of the properties is inductive: they
speak of the files there are and a crash chooses among files there might be. `IInv` adds that, of
which the heart is `ManifestsCovered`: every manifest that may come back names only segments
certain to come back. Publish keeps it by making the segment certain before a manifest names it
(`PublishStep`), Remove by unlinking only what no manifest that may come back names
(`RemoveStep`), Open by sweeping when there is only one manifest left (`OpStep`). There is a lemma
per action, and under it one step per conjunct the action can disturb.

## The pipeline: `Ingest`

`puts`, `dels`, `perms`, `queued` and `pending` are the fields of `run`; `saved` is the
checkpoint; `pc`, `kind` and `tail` say where `runFeed`'s goroutine is: in `Run` or in
`Reconcile`, and inside a flush at which of its writes. `EmitDoc`, `EmitDelete`, `EmitPerms` and
`EmitNoID` are the branches of `emit`; `FlushPut`, `FlushDelete`, `FlushPerms`, `FlushSave` the
writes of `flush`, each of which may fail and between any two of which the process may die;
`Enumerate`, `Inventory`, `RepairGone`, `RefetchDoc`, `RefetchGone`, `RefetchFails`, `RepairDone`
are `Reconcile` and `repair`. The source is external: a log of changes, where a cursor is a place
in the log, and documents that are read when the walk reaches them, so later than they were
listed. A list that does not resolve stores the document as `Held`.

- `ingest_feed`: two documents, batches of two, three changes and two faults, which is what it
  takes to fail one write of a batch, retry it, and die. `CheckpointCovers` says that a document
  whose last change is at or before the checkpoint is in the index as the source has it.
- `ingest_live`: deletions the feed does not report, a paged walk that meets a document twice,
  and a fault. A sweep deletes only what is gone or was touched since it was listed
  (`RemovedOnlyIfGone`), leaves everything else at its revision (`SweepRepairs`), together `SweepIsSafe`, and once the
  source is quiet the index becomes the source (`Converges`).

Fairness: the feed's goroutine runs (weak, on `Feed`), and a sweep that is due infinitely often
is taken (strong, on `StartSweep`: `runFeed` sweeps on a schedule of its own, and skipping is only
for the turns in between). Nothing is assumed of the source or of the faults, which are bounded.

Met while modelling, and described here only: `emit` moves the pending cursor before it refuses a
permission change to a store without `Maintenance` (ingest.go:356), and the flush at the end of
the failed run saves it; and a flush applies every put of a batch, then every delete, then every
permission change, so a document reported deleted and created again within one batch is deleted
(ingest.go:424). Both leave the checkpoint past a change the index does not have; the runs avoid
them by a store that has `Maintenance` and, in `ingest_feed`, a feed without repeats.

Proved (`IngestProofs`), for any documents, batch size and number of changes and faults:

- `TypeCorrect`.
- `CheckpointIsHonest`, of a source that lists its log once (`~Repeats`, the setting of
  `ingest_feed`). With repeats a removal and a later put of one document can be in one batch, the
  second disagreement above, and the property is false. `IInv`: `saved` <= `horizon` <= the
  length of the log; in a run `saved` <= `pos` <= `horizon` and `pending` <= `pos`, in a sweep
  `pending` = 0 (`Places`); what is queued for a document that has not changed since is the
  source's state (`QueueIsTrue`, `PlanIsTrue`); the store is right about everything at or before
  `saved`, and the store with the queue applied, stage by stage of the flush, about everything at
  or before `pos` (`StoreCovers`, `WalkCovers`).
- `SweepsAreSafe`, in every setting: what a sweep holds for a document untouched since the
  listing is what the source has of it (`SweepIsTrue`), so the flush it ends with can neither
  remove nor turn back anything.

`Converges` needs fairness and is model-checked.

## The supervisor: `Supervisor`

`config` and `running` are the supervisor's maps at one name, `saved` the feed in the store,
`row` the line of the screen, `banner` and `firstRun` the first-read report, `crawler` the
goroutines `runFeed` started. A request is a program counter: one step per lock taken, store call
or wait, because net/http runs requests concurrently and the mutex covers one look at a map, not
a request. `Restore*` is what a starting process does with the stored feeds, `StopAll` and
`Stopped` are `stop`, `Die` a process gone at any moment.

- `server` (its part "supervisor"; the other is the process): one request at a time, any build or store call failing, the process dying
  anywhere, both settings a connector can be edited between, and two crawler slots (a second
  crawler is what would be wrong). One crawler writes; it is the configured one; a restart
  restores what is configured; it has stopped when the store closes; the flags on the screen are
  true; a sync asked for happens; a request returns. `WritersAreOrderly` is the types,
  `OneWriter` and `StopsBeforeClose`; `ConfigurationHolds` is `RunsAsConfigured`,
  `RestartChangesNothing` and `RunningIsWanted`; `ScreenTells` is `ScreenIsTrue`, `SyncingIsTrue`
  and `BannerComesDown`; `RequestsTakeEffect` is `AskedForHappens` and `RequestsReturn`.

With `Admins = {a1, a2}` TLC refutes `OneWriter`: Add halts and launches without holding anything
between the two, and launch puts its runner in the map without looking (supervisor.go:375), so two
requests for one connector both find nothing to halt and both start a crawler, and the one
overwritten in the map cannot be stopped. supervisor.go:377-380 says "A source that is being
replaced has to have stopped writing before the replacement starts".

Fairness: a request gets on with its steps and a crawler with its sync (weak); `select` picks at
random among the ready cases, so a trigger, or a cancelled context, that is ready again and again
is picked in the end (strong, on `Hurried` and `Leave`).

With two requests at once, or with a request that outlives the grace of `Shutdown`, more of the
code's comments do not hold, and these have no run of their own: the store and the map can be
written in opposite orders, so that a restart changes the configuration
(api/connectors.go:54-56); a request that outlives the grace starts a crawler after `stop` has
taken the runners, and the store closes under it (supervisor.go:152-155). With one request, a
connector that cannot be built at restore has no row (supervisor.go:115-116), and `Start` of one
whose launch failed finds it enabled and does nothing (supervisor.go:261). `ScreenIsTrue` is
stated so that it leaves a failed launch out.

Proved (`SupervisorProofs`), for any number of slots and builds, failures and deaths, under
`Serial` (one administrator, and no request that outlives the grace; the two paragraphs above are
the counterexamples without it): `OneWriterAtATime`, `WhatIsAskedRuns` and `TheScreenIsTrue`, which
are the three safety properties of the run. The invariant has four parts: a crawler that is not
the one in the map is on its way out and waited for (`Crawlers`); where a request is says what it
has found and what is still running (`Phases`, `Requests`); the store, the map of configurations
and the crawler agree, but for the step the request is in the middle of (`Stored`); and the row
and the banner follow the crawler (`Screen`).

## The process: `Genbad`

`run`'s defers are `deferred`, a stack: what was opened and has to be closed or waited for.
`Open`, `StartFeed` and `Serve` bring the process up, any of them may fail; `ServingEnds`,
`Shutdown`, `Collect` and the deferred steps bring it down.

- `server` (its part "run"): two listeners and a corpus that refreshes. Feeds are gone before the store
  closes, each listener is heard once (`ComesDownInOrder`: the types, `StoreOutlivesFeeds` and
  `ReportsAreCounted`), and a signal at any moment ends the process (`SignalExits`).
- `genbad_hang` (violated): when `run` returns because of an error, nothing cancels the context a
  refreshing feed waits for, and the deferred wait never ends.

Fairness: goroutines run, a sync ends, and a `select` with a cancelled context ready takes it in
the end.

Proved (in `StoreProofs`), for any listeners and feeds: `ComesDown`, that `ComesDownInOrder` always
holds. The invariant: what is open, running or serving has its defer on the stack, in the order
that closes the audit trail last and the store before it (`InOrder`), and the reports `run` still waits
for are those of the listeners it started and has not heard (`Counted`).

## The filesystem connector: `FsSource`

`tree` is the directory people work in, `events` and `overflow` the backend's queue, `seen` and
`lost` the watcher's fields, `stale` whether `lostAt` has moved since the sync in progress was
given its generation, `naming` what `recordTree` has still to mark, and `sync` the sync: by walk
or by record, at which path, between which stat and read. People, the collect goroutine and the
sync interleave freely. A tick of the clock is the second `settled` waits for and the coarsest a
modification time is kept to. Every change is flushed as it is emitted, which is the batch size at
which the saved cursor is most exposed; batches are `Ingest`'s subject.

- `fs_watch`: two files, one in a directory that appears while running, a record and a queue with
  room for one path (so both overflow), both kinds of permission policy, three edits, two ticks,
  one failed walk or restart. `CursorHonest`: a saved cursor claims only files that were read.
  `NothingForgotten`: a file the index does not have right is named by the record, or by a walk
  that will happen. Their liveness is `IndexFollows`: `CatchesUp` and
  `DeletionsLeave`.

Two of the constant `Faults` are left out of the run, and each refutes a property:

- "interrupt" refutes `CursorHonest`. The walk is in path order and each change carries its own
  file's modification time as the cursor (fssource.go:482). Interrupted, the sync has saved a
  cursor past files it did not reach, and later walks pass them over; connector.go:66 asks for "an
  order where every change is safe to resume after".
- "unwatched" refutes `NothingForgotten`. A new directory that could not be watched makes the
  record untrusted once (watch.go:338); the walk that follows makes it trusted again, with the
  directory still unwatched, where watch.go:31-33 says the failure mode is "a slow sync".

`fs_watch` assumes what these two drop: a failed sync has saved no cursor, and a new
directory can be watched. It also assumes that an event is recorded within the tick it happened in
(fault "late" drops this): the second that `settled` allows is the only slack there is between an
event and a cursor that passes its file. Two relatives were met and have no instance: a watched sync
that fails has taken the record with it and leaves the watcher trusted (watch.go:432); and after
`Close`, one walk is enough for `caughtUp` to trust a watcher that is closed, where
watch.go:204-205 says the source goes back to walking.

Proved (`FsSourceProofs`), for any number of files, edits and failures and any bounds on the
record, the queue and the clock, with none of the three faults (`Faults = {}`; each of them alone refutes
`CursorHonest` in TLC): `TypeCorrect`, `CursorIsHonest` and `NothingIsForgotten`. The invariant says
who knows of a file the index has wrong: while the record is trusted, the record, the backend's
queue or the sync that took it (`RecordIsTrue`, `SyncCovers`); a directory nobody watches yet has an
event that says so (`DirIsHeard`); otherwise the walk under way or to come reaches it, because the
cursor is behind it (`CursorCovers`, `SyncIsFresh`). TLC checks it on larger instances than the run's
(two paths of record and queue, four edits).

Fairness: the collect goroutine runs, the refresh loop syncs again, a sync gets on with its steps.
A sync that fails does so finitely often, by the bound.

Left out: files that are not in the corpus or cannot be read, the removal of an `OWNERS` file,
files restored with an old modification time, and the sweep, which is in `Ingest`.

## The stores: `Acl`, `Store`, `MemStore`, `SqliteStore`, `PgStore`, `Stores`

`Acl` is the rule that decides who sees a document, over abstract names with a folding of case.
`Store` is what the drivers share: filters, terms, the keys people are found under.

`MemStore` is the reference store and the abstract specification of a store: every operation is
one action under its mutex, and the change it reports afterwards is an action of its own.
`memSeen` is what a subscriber that reads again whatever it is told of has seen, `memSaid` what
the source last said of an owner.

`SqliteStore` has the tables (`document`, `data`, `posting`, `fts`, `termStat`, `corpus` and the
desks'), one deferred transaction with its statements as steps, and the statements that run beside
it without the mutex; a first write behind another commit fails and the call rolls back. `PgStore`
is several servers on one database: a writing call takes the advisory lock, reads, writes and
commits, may break at any point and run again, also when the commit had happened and only its
acknowledgement was lost; streamed reads break in the middle; builds with different migrations
start at once. Both are mapped onto `MemStore` (`Ref`, `PgRef`). `Stores` states what the three
promise together. The constants are finite sets of documents, principals and answers, non-empty
batches of documents handed over under ids, and a `None` that is none of them (`StoreAssumption`,
`SqAssumption`, `PgAssumption`): that is what the types of `store.Document` and SQL's NULL give.

- `stores_drivers`: two documents in two tenants, four descriptors that between them deny, name a
  group, hold back and give to an owner, three principals one of whom differs from another in the
  tenant alone, batches that write one id twice, two servers and two attempts. One behaviour is
  about one driver and one desk, because the desks meet only through the documents. Each SQL
  driver implements the reference store (`SqImplementsMem`, `PgImplementsMem`); every read,
  whichever form of the permission predicate it uses, agrees with the rule (`SqReadsAgree`,
  `PgReadsAgree`); the counts a scorer reads never drift (`StatisticsTrue`, `PgStatisticsTrue`);
  a correction stands and can be undone, nothing said outlives its document, a phrasing leads to
  an answer that claims it, a subscriber catches up, the history is bounded, no row is streamed
  twice and the schema is a prefix of the migrations. `ReadsAgree` is the two about reads,
  looked at with no call going on, which every state of the tables is met with (a call may fail);
  `TablesHold` the types, the counts, the bounded history and the migrations; `SaidStands` is
  `CorrectionStands`, `NothingAboutTheGone` and `PhrasingsAnswer`; `ChangesReach` is
  `SubscribersCatchUp`, `ChangesAreTold` and `RowsOnce`.

The instance leaves out two things the code does not keep:

- with `"delete"` in `LostAckOps`, `ChangesAreTold` fails: Delete forgets what it removed and runs
  again (pgstore.go:266), finds nothing, and no subscriber hears of the document, where
  pgstore.go:186-187 says "running one twice produces what running it once would have";
- `ReadsAreWhole` instead of the invariants of the run, with `Desks = {"stream"}`: once a row was
  delivered, the attempt after a broken connection returns nil (pgstore.go:446), so the read
  succeeds with part of its match set; the comment above it (pgstore.go:440-442) means the error
  to be returned.

Proved (`StoreProofs`):

- `SaidIsKept`: `SaidStands` of the reference store. `SaidStands` is inductive once the tables are
  known to have their types (`MemTyped`): what is corrected is what the document carries, and the
  `was` of a correction is what the source said last.
- `ChangesAreHeard`: `ChangesReach`, for the reference store and the servers of PostgreSQL. The
  invariant says that a subscriber differs from the store only in documents of a change still
  pending (`ToldOrPending`), that what a server owes its subscribers is among what its call is
  going to report, in whichever attempt (`CallHolds`), and that what a stream handed over are the
  first rows of a sequence that names nobody twice (`StreamHolds`). Its hypothesis is `LostAckOps \cap {"delete", "perms"} = {}`, the first of the two
  things above: every other call reports the same ids when it runs a second time.
- `PgImplements`: `PgImplementsMem`, with no hypothesis on which acknowledgements are lost. The
  invariant `PgInv` has two parts. `PgAgrees`: the row of a document, its references and its stored
  data say the same, and a document that is gone left nothing behind. `PgServes`: whoever is at
  work holds the advisory lock, and what the call read is still what the tables hold; that is why
  a call computed from its `priors` does to the tables what the operation of `MemStore` does to
  documents. The lemmas go operation by operation: the permission predicate in SQL over rows and
  references is the rule of `Acl` over documents (`PgSees`), and `Put`, `Delete`,
  `SetPermissions`, `SetOwner`, `ClearOwner`, `Curate`, `Retract` and the statements of the desks
  are each one operation (`PgPutIs`, `PgDeleteIs`, `PgPermsIs`, `PgSetOwnerIs`, ...).

Only model-checked: `SqImplementsMem`; `ReadsAgree`, whose rankings and counts range over every
query; `TablesHold`, because the statistics are sums and what a fold returns for every finite set
is an induction over data.

Left out: scoring and the order of a page, the spelling lookup, the upgrade of an older SQLite
database, fingerprints and bitmaps (data structures over the same rule).

## Answering a request: `Cache` to `Api`

One behaviour of `reading` is about one of these parts, because they meet through values they
pass and not through state they share. The parts are those of the constant `Parts`.

- `Cache` is one shard as operators: a list in order of use, expiry, capacity. `Directory` and
  `Search` and `Recheck` step it.
- `Directory` ("walks", "lifetimes"): the walk of expand.go level by level, one lookup a step,
  over two directories at once that change meanwhile; the cache and the single flight before it,
  with callers that leave. An expansion is the closure or is refused (`ExpandsToClosure`), one
  version means one group set, staleness is bounded by the lifetime, what was forgotten is not
  handed out, and nobody waits for ever (`CallersAreAnswered`). Corp has a cycle and a group it
  does not define; one edit is enough to change a directory under a walk.
- `Tokens` ("tokens"): the shared bearer token of two providers, whose life is counted from too
  late a moment. `ArrivesAlive` is the reason for the early margin. `Providers` ("providers"):
  how a directory is described, opened and probed, and the two lookups of each of the three
  clients request by request, with paging and refusals, while somebody is deleted or moved.
  `ListingWhole` and `ExpansionWhole` say that nothing is answered as absent because it could not
  be read, `VersionMoves` that whatever is cached by version notices.
- `Recheck` ("recheck"): pages of rows of two sources under one deadline, checkers that come, go,
  answer late or in part, and answers reused. `RevocationSeen` bounds how long a withdrawn row is
  shown: less than the lifetime of an answer and two deadlines.
- `Search` ("search"): the four layers of the search cache beside a writer whose change is told
  in two steps after it is committed, and a driver that tells nothing. A result shows only what
  its asker could read at some moment since the request began (`RevokedNotShown`), what was told
  before is found, the numbers are current.
- `Audit` ("audit"): the queue, the writer, a buffer cut where it is full, day files, retention,
  faults, a death and a restart. `SyncReaches`, `QuietIsWritten`, `RetentionHonest`,
  `WindowIsWhole`, and no handler is left waiting (`HandlersGoOn`).
- `Api` ("api"): each handler that shows a document or takes a claim about one, call by call, with
  other requests, the crawl and the sources in between; what cannot be parsed, a claim the driver
  does not keep and an empty typeahead are answered before any call. The recheck is off but for the
  sources somebody wired a checker for (`ApRechecked`), and what one answered is used again for its
  lifetime (`apHeard`). Nothing of those sources that was withdrawn longer ago than that when the
  request came in is in any response (`WithdrawnNotShown`), a total gives nothing away, the trail
  names the rows shown, somebody who cannot see a document cannot tell it from one that is not
  there, what stands after a claim is later than it, and the picture of a document whose source names versions
  (`ApVersioned`) is never old. What the handlers do without when a read fails is in the model: the
  written answer or its sources, the count of the reports, the correction about to be cleared.

Four statements of the passing run are narrower than what the code says of itself. `StalenessBounded`
and `ForgottenNotServed` (part of `GroupsAreTrue`) take a walk by when it ended. A walk in flight
outlives a `Forget`, which only drops what is stored (cached.go:221, cache.Do): read before it, it
is stored after it and served for a lifetime, where cached.go:211-212 says "the next request for
one of them asks the directory"; and a group set may be out of date by the lifetime and the walk
that read it, where cached.go:158 calls the lifetime "the most out of date any group set this
returns can be". `ClaimAnswersReports` says that what stands after a claim was reported later; a
report made between the claim and its clearing is cleared unseen and is not excluded
(verify.go:150). `TrailIsWhole` compares a record with the rows: a search that a written answer
stands in front of also returns the documents it cites, with title and link (curate.go:188), and the
record holds the rows alone (api.go:628), where docs/audit.md:40 calls `documents` "the ids and
sources of what was actually returned" and docs/audit.md:51 says they "are the ones that came back".

`MCReading` puts the invariants together: `GroupsAreTrue` is what `Directory`, `Tokens` and
`Providers` say together, and `RequestsEnd` the three that say nobody waits for ever. The others are
stated where they are proved: `RevocationsAreSeen` in `Recheck`, `ResultsArePermitted` in `Search`,
`RecordsAreKept` in `Audit` and `HandlersAnswerTrue` in `Api`.

Bounds: two callers or readers where the question is one meeting another, one where it is not;
the clock runs past every lifetime it is compared with; one fault, except where restarts are the
subject. Where two dimensions do not meet (edits and the clock in `Directory`, faults and
restarts in `Audit`) the constraints of `MCReading` take them one at a time.

Fairness: a walk, a page's deadline and the writer of the log run. Nothing is assumed of a checker
or a caller.

Proved (`ApiProofs`): `HandlersAlwaysTrue`, which is `HandlersAnswerTrue` for any people, documents
and requests, with the limits just named and no more: withdrawals only of checked sources and past
an answer's lifetime, rows and not citations on the trail, pictures only of versioned sources. The invariant `ApInv` was checked by TLC first. It says of what the handlers share
(`WorldHolds`) that the index lists at least whom the source allows, that a document carries its
correction and the correction remembers what the source says, and that every claim and report is
numbered no later than the clock; and of each request (`Holds`) where it can be and what it cannot
hold yet (`Placed`), that what the recheck and the index would still allow is within what they
allowed when it came in (`Allowed`), that a search whose matches fit counts its rows (`Counted`), and
what a claim, a cleared correction and a picture must remember between two calls (`Claimed`,
`Cleared`, `Pictured`). None of it is inductive without the rest: a claim that is answered is only
true of the reports because what is written later is numbered later. The argument has two halves. A
request's own step establishes `Holds` of what it becomes; and whatever anybody does to the world is
one of `Moves` (permissions and readable documents only shrink, versions and numbers only grow),
of which a waiting request `Hears` at most a new owner from the source or that a correction was
undone, and `Keeps` says `Holds` survives that. The theorem assumes that people and documents are
finite and that `None` is nobody's record (`ApAssumption`).

Also in `ApiProofs`: `RecordsKept`, which is `RecordsAreKept` for any handlers, queue, buffer and
retention that hold a line (`AuAssumption`). A quiet process has written what it took only because
nothing is lost on the way, and the pieces of a line travel apart, so the invariant `AuInv` follows
a record from the handler to the disk. `Sound` says what a file and the buffer in front of it hold:
pieces of the file's own day, an end only right after its own beginning (`Paired`, which is why a
reader never makes one record of two), the buffer shorter than it may be, nothing left in it once
the file is closed, and nothing pruned but what was older than the retention. `QueueHolds`,
`HandlersHold` and `RunHolds` say what the queue, each handler and the writer may be holding, and
the two inclusions that everything ever queued is in the queue, kept by the file or pruned from it,
failed, or lost with a process that died holding it, and that nothing else is anywhere.

Proved (`SearchProofs`), first, what a shard of the cache holds after each of its operations
(`RemoveWell`, `GetWell`, `PutWell`, `EntryFound`): it never grows past its capacity, an entry found
is one that is held under that key, and an operation adds at most the entry it was given. Then:

- `ResultsPermitted`, which is `ResultsArePermitted` for any people, documents, capacity and
  readers. A request remembers what its asker could read at some moment since it began (`may`) and
  all along (`must`); the theorem is that what it shows is between the two. That is inductive only
  with what the cache may hold: `IxFresh` says that a value under a key of the present generation is
  what the driver answers now or answered before the one write that is committed and not yet told,
  and that a key of an earlier generation may hold anything, since nobody who begins now asks for it.
  `IxFits` ties each held value, and each that is about to be kept, to every request that waits
  for its key, whenever that one began; `IxGranted` says how much of the ordering and of the bodies
  a request has at each stage; `IxFlightHolds` that a flight is exactly the one reader who leads it.
  A write only adds to `may` and `counts` and takes from `must` (`IxGrown`), and every request
  survives that; the other steps change one request and one layer and leave the world alone. The page
  is filled document by document (`IxDocument`, `IxPutDocument`), in any order.
- `RevocationsSeen`, which is `RevocationsAreSeen` for any pages, askers, sources, lifetime and
  deadline. The bound of `RevocationSeen` is a sum of three waits, and the invariant `RcInv` gives each place
  where a yes may rest its share: a yes on its way from a checker was true one deadline ago at most
  (`RcAnswers`), one in the shard a deadline before it was put there (`RcEntry`), one on a page that
  took it from the shard a lifetime more (`RcAllow`). `RcWithin` is the comparison they all make: the
  row was revoked no earlier than that, or its source has had no checker at some time. The half about counters
  (`NoQuietRefusal`) counts per source the rows that are refused on a page and not shown yet
  (`RcRefused`): a row enters that set only as a counter goes up, and `rcReturn` moves it to
  `rcHidden`.

What the code does not keep, each with the invariant that shows it in place of the run's:

- `ContentIsCurrent` (`Parts = {"search"}`): fetch reads, and putDocuments stores for ever, with
  nothing between to notice an edit told meanwhile (index/index.go:575); index/cache.go:45 says
  the cache "cannot serve stale content".
- `HistoryIsReadable` (`Parts = {"audit"}`, four handlers and `AuMaxTime = 0`): a restart appends behind a half record
  (audit/file.go:185), so the bad line is no longer the last one and the file is refused, where
  audit/read.go:113 says this "is not corruption worth refusing a year of history over".
- `BadMomentCostsNothing` (`Parts = {"tokens"}`): for the last minutes of a live token a refused
  sign in fails every lookup (entra/token.go:187, and google's copy), where the comment on that
  return says it "costs nothing at all".

Met and described here only. `readable` and `mayCurate` do not put the document to its source, so somebody withdrawn there is
told of no document by the document endpoint and is answered by report, withdraw and the claims.
The second of two concurrent handleClearOwner is answered with the corrected owner. A claimant who
loses the document between a claim and its resolveAfterVerify leaves the old reports. A picture drawn for several is drawn
with the first caller's context, so its failure refuses the others. Facet counts are not
corrected after the recheck. Okta and Entra answer an error, Google nobody, when somebody is
deleted between the account and the listing.

## The other connectors: `ThreadSource` to `Limit`

One behaviour of `connectors` is about one part; connectors share code and no state.

- `ThreadSource` ("threads"): the crawl three products share. Containers in order, a cursor that
  is a finished run's point and the progress of an interrupted one beside it, the refresh of rules
  on a schedule, and runs that stop anywhere. `NothingLost`: after a finished run everything that
  had changed is indexed as it is, except what changed where the walk had already been.
  `OwnRuleKept`, and `RevocationBounded`: no rule outlives its refresh interval, except in
  containers a resumed run began behind. Two containers,
  two conversations one with a rule of its own, two interruptions.
- `Thread`: a root and its replies made into one document; the body keeps the root and an unbroken
  end, pages and repeats do not matter, every edit moves the version.
- `Slack`, `Jira`, `Confluence`: what each adapter asks while its product changes between two
  requests. Slack pages back to a reply window (`WindowCovers`) and computes one version from two
  kinds of answer (`VersionsAgree`). Jira pages by offset with page sizes the site chooses
  (`PagesWhole`) and never guesses a security level (`LevelNeverGuessed`). Confluence finds a page
  through a comment (`CommentMovesPage`) and combines restrictions up the tree, with a cache that
  lasts one crawl (`CrawlSeesRestrictions`, `IntersectionQuarantined`).
- `ObjectSource`: a bucket listed in key order under a cursor in the store's seconds, an object
  that changes between listing and read, and the bucket's list. What is not indexed lies ahead of
  the cursor (`AheadOfCursor`); a tag is never newer than the content filed under it
  (`TagNeverAhead`); only a missing object deletes a document (`DropsOnlyGone`).
- `AclMap`: every order of overlapping statements gives the readers the source means, or nobody.
- `Checkpoint`: a save call by call, with kills and power cuts, and the names of the files. The
  instance has a name with a slash and one with a hyphen, which are escaped to one, and no name at
  all: `escape` (checkpoint.go:162) says its mapping
  "does not need to be" reversible because "the file records the tenant and source it belongs to
  inside itself", and `Load` does not look at them, so such sources resume from one another.
  `ResumesOwn` is that no others do. (`cmd/genbad` keeps its
  checkpoints in memory, feed.go:109.)
- `Limit`: the bucket, the pauses, retries and the breaker, several callers. The rate holds
  however many ask at once, a refused request is not repeated before the time it was told, an
  overflowing backoff still waits, an open circuit is left alone, and every call returns
  (`CallsReturn`). Time is counted as what is left of a wait, so the clock needs no bound.

The invariants are put together by subject: in `Connectors`, `CrawlsResume` (`NothingLost`,
`AheadOfCursor`, `TagNeverAhead`, and Checkpoint's) and `RulesAreTheSources` (every
property about a rule, of all five adapters); in `MCConnectors`, `ConversationsAreWhole` (what a product is
asked for), `LimitsHold` (Limit's),
`ChangesAreSeen` (`EveryChangeMovesRevision`, `DropsOnlyGone`) and `CallsEnd` (`LeftAlone`,
`CallsReturn`).

Fairness, for `CallsReturn` only: time passes and a request that may go on does. The source may
answer as it likes, as often as a call may be tried.

Proved (`ConnectorProofs`), for any policy and any finite number of callers: `LimitsAreHeld` (`LimitsHold`) and
`SourceIsLeftAlone` (`LeftAlone`). The invariant counts the room a policed quota has against those
who wait for the bucket: whoever is due within `t` ticks fits in what the quota gives by then
(`RoomForAll`), because every turn to come is one token further in debt than the one before, so no
two fall on one tick (`TurnsApart`). The hypothesis `NoShortWrap` is that a doubled backoff that
runs over the width of a duration does not come out positive and shorter than `MinBackoff`, which
the test in `backoff` (zero or less, or over the ceiling) would let through; TLC shows one that does with
a narrow width. In the 64 bits of a `time.Duration` it holds whatever `MaxRetries` is as long as
`MinBackoff` is under three seconds, since the bits a doubling leaves are then larger than it.

Proved in the same module, for any number of containers, conversations, objects, pages, sources and
interruptions: `CrawlsGoOn`, that `CrawlsResume` always holds, and `OnlyTheGoneAreDropped`
(`DropsOnlyGone`). Nothing in `NothingLost` speaks of a run under way, so it is not inductive; the
invariants are:

- threads: a conversation that is not indexed as it is, and did not change where the walk had
  been, is ahead of the saved cursor (`CursorIsBehind`) and, during a run, ahead of the walk
  (`WalkIsBehind`): in a container to come, or among those this one still has to read. The saved
  cursor counts by the later of its two times in the container it names and by the finished one
  elsewhere (`ToCome`). Marking a conversation keeps it because the walk reads the oldest first
  (`NextIsOldest`, the one place the proof needs that instants are well-founded). The misfiled
  refresh of `threads_resume` is excepted, as in the property.
- objects: a stale object is ahead of the cursor and, during a run, in the page being read, past
  the last key listed, or written since that page was listed (`OsListKeeps` for a page,
  `ObjectDone` for an object).
- checkpoints: a path holds nothing or a whole file of a source whose path it is, whatever was
  flushed (`CkRenameKeeps`, `CkPowerCutKeeps`), and two paths are one only if the names differ in
  characters that are escaped (`FiledAlike`).

And `RulesAreKept`, that `RulesAreTheSources` always holds, for any grants, levels, schemes, pages
in any tree, conversations and objects. It does not say that every revocation arrives in time. What
`RevocationBounded` and `ListApplied` leave out, theorem and run leave out: the containers a resumed
run began behind while their refresh was due (`tsPassed`); the keys a resumed run began behind, and
a list rewritten while no process remembered the one before (`osMissed`); objects that could not be
read and were reported (`osSkipped`) and objects written behind the listing (`osBehind`). Its invariants, one per adapter:

- permissions: as long as nothing was refused, the descriptor says what the statements folded in so
  far said, mode by mode and list by list (`AmBuilds`), so their order does not matter; hence whoever
  it lets in was let in by a statement, and a statement that cannot be expressed leaves nobody.
- Jira: a level in the cache or in the index is a membership the level had and that names people
  alone, or a quarantine (`Resolved`).
- Confluence: what is known of a page, in the cache, in a hit or in a thread already built, is a
  restriction the page had since the crawl began (`KnownSound`, `HitsSound`, `GivenSound`), and a
  page is written under one that is (`TreeStands`); two pages of a chain that stayed restricted
  leave no single rule.
- conversations: a run is held to the rules the sources had when its refresh interval began. What
  it has caught up on, the containers before the one it walks and what it has read there, is at
  least as new (`CaughtUp`, `RunRules`); when it finishes all of it is.
- objects: what lies behind the cursor is under a list no older than the one the last run that
  resolved it found, and under the one the policy remembers unless that moved since the cursor
  (`InForce`). During a run, whatever the listing has come past since it was last written is under
  the rule the policy answered with, if it was read or the list had moved (`PassedRight`). A list
  found moved is dated in a later second than the cursor's mark, because runs start in different
  seconds (`RunMarks`, `PolicySound`).

- `list_resumed` (violated): a run that resumes lists from the key it stopped at and returns a cursor
  that records the bucket's list as applied to all of it (objectsource.go:356). What lies before that
  key keeps the old list, and no later run looks, where policy.go:79-80 says that "when it differs
  every object in the bucket gets a permission change" and policy.go:124-125 that "the change is applied
  on the first sync after it was made". A restart has the same effect on the whole bucket, because
  the first list a process reads is no difference to it (policy.go:167-169).
- `threads_resume` (violated): `refresh` gives the conversations it emits a cursor that names the
  refreshed container beside the time an interrupted run had reached in another
  (threadsource.go:463). Stopped there, the next run begins that container too late and what
  changed in it is skipped, which is what `resume` says it avoids. `NothingLost` in the passing
  run leaves out just these.

What else the code does not keep: `UnresolvedQuarantines` (`Parts = {"objects"}`) fails, because
with a `BucketPolicy` whose list cannot be mapped the version of the list cannot be read either,
and the object is passed over before it is quarantined (objectsource.go:383), where
objectsource.go:380 says quarantining "is the only safe reading".

Met and described here only. Object storage: a failed read of a list quarantines and nothing lifts it. Slack: an edited reply moves no version; a private
channel the bot was removed from keeps its rule. Jira: a change in the middle of a listing shifts
the offsets past a live issue, which the sweep then deletes; levels are cached for the life of the
process. Confluence: the page kept from an earlier hit of one crawl is handed over without the
comment that moved the cursor; an empty page with a next link ends a listing. Limits: a time named
by the source is cut to the ceiling although its comment says it is honoured exactly; once the
cooldown is over every caller passes until the first answer; a request already asleep ignores a
later pause. Conversations: one changed in a container already walked waits for the sweep; a
resuming run skips the refresh due in earlier containers and records it as done, so that a removed
member may keep seeing them for an interval more, and longer if that run is cut short as well, where
slacksource/service.go:28-31 (and jirasource/permissions.go:29-31,
confluencesource/permissions.go:25-29) say that the interval bounds it. Threads: without text in the root two
bytes too many are counted, so a last message that would just fit is left out.

## What is proved and what is only checked

Eight modules hold proofs: `SegDirProofs`, `IngestProofs`, `SupervisorProofs`, `FsSourceProofs`,
`ConnectorProofs`, `StoreProofs` (with `Genbad`), `ApiProofs` (with `Audit`) and `SearchProofs`
(`Cache`, `Search`, `Recheck`). Between them they prove, for every value of the constants that
their named hypotheses allow, every safety property of the runs `ingest_feed`, `ingest_live`,
`server`, `fs_watch`, `segdir_kill` and `segdir_power`, and `LimitsHold`,
`CrawlsResume` and `RulesAreTheSources` of `connectors`, and `SaidStands`, `ChangesReach` and `PgImplementsMem` of
`stores_drivers`, and all but one safety property of `reading`: `HandlersAnswerTrue`, `RecordsAreKept`,
`ResultsArePermitted` and `RevocationsAreSeen`. Each invariant was checked by TLC, on the constants of the run and larger ones,
before it was proved; the sections above give its argument. Only model-checked, on the bounded instances of the `.cfg` files, are `TablesHold`, `ReadsAgree` and
`SqImplementsMem` of `stores_drivers` (the tables of two drivers at once, and the reads as joins over
them), `ConversationsAreWhole` of `connectors` (a crawl over four APIs' pages), `GroupsAreTrue` of
`reading` (the closure of a group graph is a least set, which asks for induction over its levels),
`VersionMoves`, and the liveness of every run. A bound is a constant whose comment says so; no configuration replaces a definition,
so the runs and the proofs are about the same modules. Documents are interchangeable where a configuration
declares a symmetry, and only in a run without liveness properties.

Two kinds of statement stay with TLC, because the proof system does not reach them: liveness
under fairness and anything with ENABLED; and what a recursive definition computes for every input,
because the induction theorems take an operator as a parameter. No module declares a RECURSIVE
operator: the pages above a page (`Confluence`), for one, are the least set that is closed upwards.

## Not modelled, and why

- Text extraction (`extract`), document analysis (`doc`), query parsing, scoring and snippets
  (`index`): parsers and pure functions over text, whose cases are bytes and not orders of steps.
- The byte formats of segments, columns, graphs and vectors (`store/segment`, `store/column`,
  `store/graph`, `store/vector`): immutable once written. When a file may be read is `SegDir`.
- The binding of the Rust engine (`store/kura`): the engine is not in the repository.
- The administration screens, settings, statistics and event stream of `api`, `metric` and
  `thumb`: they read counters or resize pictures. What a picture's cache promises is in `Api`.
- Configuration (`config`) and flags: parsed once, before anything runs.
- The browser interface (`web`), and the conformance suites, recordings and corpora: not part of
  the running server.
