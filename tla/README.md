# A verification project for the rt-dataset viewer

`rt-dataset` builds radio-frequency datasets from city models and shows them. Its pipelines (scene
building, ray tracing, RF camera observation and development) are sequential, mostly numeric programs
that write directories of files. The part whose behaviour is hard to get right is the **viewer**
(`src/plateau_rt/viewer`): a server that stores uploaded dataset bundles under their digest, derives
data products from them in child processes, and serves both to a page in a browser. This directory
models the viewer in TLA+, from the check of an upload's first header to the page, with the build and
dataset commands that write what it reads; it checks the models with TLC on small instances and proves the
main invariants of the job manager, of the routes over it, of the store, of the derive cache, of the
requests with their staging, of the build and dataset commands, of the page and of its home panel with
TLAPS for every instance.

Paths below are relative to the repository root.

## 1. The system

### 1.1 Components

| Component | Source | State it keeps | Operations |
|---|---|---|---|
| job manager | `viewer/jobs.py` | under `_cond`: the heap, the active jobs, the dedup map `_by_key`, `_shutdown`; in SQLite: the `jobs` rows; worker threads; one spawn child and pipe per running job | `submit`, `submit_eager`, `cancel_bundle`, `recover`, `shutdown`, `get`/`latest`/`wait`, the threads' `_worker`/`_execute`, the children's `_child_main` |
| routes and eager hook | `viewer/api/app.py`, `routes_derived.py`, `routes_bundles.py` | none of their own; each handler is several steps on the event loop and its thread pool | start-up and lifespan, derive, retry, upload with the bundle-committed hook, delete, raw and derived files |
| bundle store | `viewer/store.py`, `ingest.py` | `store.lock` (flock), the SQLite index, `bundles/<digest>/{raw,derived}`, `staging/` | `stage_from_directory`, `commit`, `delete`, `discard_staging`, reads, schema migration |
| archive extraction | `viewer/extract.py` | the staging directory and an index of accepted paths, per call | `safe_extract`, the choice of the root |
| bundle kinds and validation | `viewer/kinds.py`, `application/scene_files.py` | none | `detect_members`, `validate_bundle` |
| dataset manifest | `application/rf_dataset_manifest.py` | none | parse and validate versions 2 and 3, load apertures, list pairs |
| safe loaders | `viewer/safeio.py` | none | `resolve_inside`, bounded reads of JSON, arrays and XML |
| derive cache and registry | `viewer/derive/__init__.py` | rows of `derived`, directories `derived/<member>/<deriver>/<params_key>`, the registry of derivers | `validate_params`, `lookup_cached`, `get_or_derive`, link resolution, key computation |
| overview deriver | `viewer/derive/overview.py` | none | from a manifest and the records of a bundle to `overview.json` |
| job status routes | `viewer/api/routes_jobs.py` | none | read-only views of the `jobs` rows |
| settings, HTTP security | `viewer/settings.py`, `api/security.py`, `api/errors.py`, `api/static_assets.py` | none | parsing of the environment, host and origin checks, error envelope, static files |
| command line of the viewer | `viewer/__main__.py` | a second process over the same store | `serve`, `ingest`, `derive` |
| frontend | `viewer/static/js/**` | the location hash and the store behind it, render generations, poll timers, the selection | router, derive polling, home panel, overview panel |
| RF camera datasets | `adapters/sionna/rf_camera_dataset.py`, `application/rf_camera_*.py`, `optical_reference.py` | the directories of a dataset and of a partial | multi-view, observe, optical, partial |
| scene build | `application/build_scene.py`, `scene_checks.py`, `adapters/plateau/`, `adapters/geometry/`, `adapters/sionna/scene_compiler.py` | the directory of a scene | from CityJSON to meshes, a scene file and a manifest |
| main command line | `cli/main.py` | none | the checks before a pipeline is called |
| other pipelines | `application/**`, `adapters/**`, `domain/**`, `experimental/`, `scripts/` | files of one run | simulate, calibrate, analyse, plot |

### 1.2 How they interact

* An upload is streamed to a spool file, extracted entry by entry into a staging directory,
  validated, and committed under its digest; then the hook queues the bundle's missing eager
  derivations. `ingest` on the command line does the same without the spool and the hook.
* A derive request is prepared (texts to typed values, canonical texts and a key), looked up in the
  derive cache, and when it is missing handed to `submit`, which answers with the active job of the
  same key, a sticky failure, or a new job.
* A worker thread takes the job from the heap, writes `running` to its row, starts a child and
  follows it over a pipe; the child prepares the canonical texts again, calls the deriver, and puts
  files under the bundle's `derived/` and a row into `derived`.
* A deletion cancels the bundle's jobs, waits a bounded time for its children, and then removes
  the rows and the directory under the store's lock.
* At start-up `recover` fails the unfinished rows of the previous process and queues every missing
  eager derivation; at the end of the application's lifespan `shutdown` fails what is active, kills
  the children it knows of and joins the workers for a bounded time.
* `ingest` and `derive` on the command line, and children that outlive a killed server, share the
  files and the index with a running server; only commit and delete take the flock.
* In the page the hash is the only source of truth: the router renders what it names, a panel polls
  the job of the overview, the home panel polls the derivations of all bundles.

### 1.3 What is hard

* *Interleavings.* A job's row is written outside `_cond`, and its child is started and attached
  in two steps, while `submit`, `cancel_bundle` and `shutdown` run in other threads; derivations,
  lookups and file requests share directories and rows without a lock; in the page, answers come to
  views that were left.
* *Several records of one fact.* A job is in the heap (perhaps twice), the active map, the dedup
  map, a row, and in a child; a result is a directory and a row, and its links may change.
* *Failure.* Any write of a row may fail; `process.start()` may fail; a child may hang, crash or
  end between its result and its report; the disk may be full at any byte; the server may be shut
  down or killed at any step; a dataset command may die between any two files.
* *Routes act on what they read earlier.* A request that found a bundle submits after its
  deletion; the hook of a second upload finds rows of the first.
* *Two programs look at one thing.* Extraction counts entries one by one what the limits say of the
  whole; validation accepts what a deriver must be able to read and the raw route must serve; the
  server and the child validate the same parameters one after the other.

The list of hazards, each at its line, is `hazards` in `PROJECT.json`.

### 1.4 What makes each component correct

* **Job manager:** one child per key; a child never without a worker, so never more children than
  workers; one worker per job; lazy requests before eager work; every unfinished row has somebody
  who will finish it; every job ends; recovery and shutdown lose and rewrite nothing.
* **Routes:** the same with bundles deleted and uploaded again; an answer tells what the store is.
* **Store:** a row implies its complete, unchanging bundle; commit and delete are atomic for their
  callers; staging stays clean; no caller can block the others for ever.
* **Extraction and validation:** the verdict is a property of the source, not of the order it is
  read in; what is stored fits together, can be served and can be derived.
* **Derive cache:** a result belongs to the requested values and to linked bundles that were stored
  during the call; a ready row has its files; two derivers of one key do not destroy each other's result.
* **Frontend:** what is shown is what the location names; loading ends; timers die with their views.
* **Build and dataset commands:** what they leave, whole or interrupted, is never read as something it
  is not: a scene is never ahead of its meshes, nor a manifest of its files.

## 2. Modules

| Module | Models | Depends on |
|---|---|---|
| `JobManager` | `jobs.py` with its threads, children, rows, and the server's life | |
| `ViewerServer` | the derive, retry, upload and delete routes and the hook, as steps over the job manager | extends `JobManager` |
| `BundleStore` | `Store.commit`, `Store.delete` and ingest step by step | |
| `ContentStore` | abstract specification: a set of digests with atomic commit and delete | |
| `DeriveCache` | lookup, derivation and file requests of one key in threads and processes without a lock | |
| `DeriveParams` | declarations of derivers, preparation of a request, canonical texts and keys | |
| `OrderedChecks` | the first fault of a sequence of checks | |
| `Json`, `DatasetManifest` | JSON values, and the parser of dataset manifests | `DatasetManifest` extends `Json` |
| `BundleKinds` | members of a bundle and their validation | extends `DatasetManifest` |
| `OverviewDeriver` | `overview.json` as a function of a stored bundle | extends `BundleKinds` |
| `SafeExtract` | archives and directories into staging, entry by entry | extends `OrderedChecks` |
| `SceneBuild` | from a CityJSON city to the files of its scene | extends `BundleKinds` |
| `DatasetPipeline` | the build and dataset commands, file by file, with deaths and reruns | extends `SceneBuild` |
| `ViewerSettings` | the environment, and the gate of every request | |
| `ViewerRequests` | upload, ingest, delete, raw, derive: from the first check to the store and the answer | extends the four before, uses `DeriveParams` |
| `HashStore` | the location hash and its store (`state.js`) | |
| `AppRouter` | `app.js`: renders, aborts, late answers | extends `HashStore` |
| `OverviewPanel` | the overview panel and the derive polling of `api.js` | |
| `Frontend` | router and overview panel together | extends `AppRouter`, instantiates `OverviewPanel` |
| `BundlesPanel` | the home panel | |
| `MC*` | constants of the instances TLC checks | the module of the name |
| `JobManagerProofs`, `BundleStoreProofs` | TLAPS proofs | the module of the name, `ContentStore` |
| `ViewerServerProofs` | TLAPS proofs about the server with its routes | extends `ViewerServer`, `JobManagerProofs` |
| `DeriveCacheProofs` | TLAPS proofs | the module of the name |
| `FrontendProofs` | TLAPS proofs about the page and the home panel | extends `Frontend`, `BundlesPanel` |
| `SafeExtractProofs` | TLAPS proofs about the steps of staging | extends `SafeExtract` |
| `DatasetPipelineProofs` | TLAPS proofs about what the commands leave | extends `DatasetPipeline`, `SafeExtractProofs` |
| `ViewerRequestsProofs` | TLAPS proofs about the requests | extends `ViewerRequests`, `DatasetPipelineProofs` |

### 2.1 JobManager

*Actions.* One action is one critical section of `_cond`, one write of a row outside it, one step
of a child or one clock event. `Join` and `Enqueue` are the two outcomes of `submit` (with its
promotion and the sticky failure). `CancelBundle`, `CancelReturn` and `CancelTimeout` are
`cancel_bundle` and its bounded wait. A worker goes through the control points

    idle -Pick-> begin -Begin-> spawn -Spawn-> attach -Attach-> loop -CheckOk-> poll -...-> loop
                                                        loop/poll -> end -EndChild-> write -Write-> drop -Drop-> idle

which are the places where `_worker` and `_execute` hold no lock: `begin` is before the write of
`running`, `attach` between `process.start()` and `active.process = process`, `loop` and `poll`
the two halves of the loop that follows the pipe, `end` the kill or reap with `_done`/`_fail`'s
change of the active map, `write` their write of the row, `drop` the `finally` block. Each write
may fail (`WriteError`); `rescued` tells a failure inside an exception handler, which is not
handled again; `PipeError` is a pipe or process that cannot be created. `Shutdown`, `Exit`,
`Crash`, `Start`, `RecoverCached`, `RecoverSubmit`, `RecoverError`, `Ready` are the life of the
process. `ShutdownError` is a `shutdown` whose write of a row fails: the loop ends there, the jobs
inserted later are neither failed nor killed and no worker is joined; the orphan sweep of the next
`Start` is what ends their rows.

*Data.* A dedup key is a model value; the job inserted n-th is the number n, which also stands for the
order of `created_at, rowid`; a message keeps its type; `cached` is the set of keys with a valid result.
A child that has sent its last message is still alive (`reported`) until it ends (`ChildExit`) or a
worker that has read the message reaps it. `asked` is auxiliary: the queued jobs a lazy `submit` has
returned. `memory_limit` is not told apart from `error`. A stage is not kept, only its write.

### 2.2 ViewerServer

Adds the stored bundles, the deletion of each, the requests between their look-up and their
`submit`, and the keys the hook has still to look at. A handler's look-up
(`PrepareGet`, `PrepareRetry`, `Upload`) and what it does with the answer (`AnswerGet`,
`AnswerRetry`, `Hook`) are different actions, because the handler gives up its thread in between.
`DeleteCancel`, `DeleteWaited` and `DeleteRows` are the three parts of `delete_bundle`.
`DeleteRows` is one step here; `BundleStore` has its steps. The retry of a key without a job asks for a
failed row in `derived`, which is not kept here: it may be there if a job of the key was inserted before
(`FailedRowLeft`). A stop of the server ends its requests.

### 2.3 BundleStore and ContentStore

Callers are threads and processes: each holds a `pc`, the flock is a variable with at most one
holder, and an action is one file-system operation or one transaction. The state of
`bundles/<digest>` is one of none, bare, derived, raw, frozen, in the order in which `commit` builds it.
An I/O error may come at every step and goes to the handler the code has there (`MkdirError`:
before the `try`; `CommitError`: rollback and removal; `TidyError`: after the `COMMIT`); `Die`
kills a caller at any step, which releases its flock and rolls its transaction back but leaves its
directories. `DeriveOpen`/`DeriveMakedirs`/`DeriveClose` are a derive child, which creates
directories without the lock.

`ContentStore` knows only the set of stored digests and one operation per caller that takes effect
at one instant between its call and its answer. The refinement maps `rows` to that set and each
control point to what the call has done by then (`Effect`).

### 2.4 DeriveCache and DeriveParams

`DeriveCache` follows one member, deriver and parameter combination of the bundle `Own`. A process
is a thread or a child with a program counter:

    lookup: open - space - record - rows - pick - { resolve - get } - files  (lookup_cached, get_or_derive)
    derive: context - { link - fetch } - compute - fail | stage - parents - swap - away - publish - index
    file:   url - row - meta - send                               (get_derived_file)

Each step is one query, one directory operation or one rename. A link is a file found by its hash in the
bundles that hold it, and looking it up is several queries (`_resolve_link`): `Find` is
`find_by_file_sha256`, `GetRecord` one `store.get` of what it found, in any order, and `ResolveNext` or
`Link` takes, of the bundles that could still be read, the own one or else the oldest (`Chosen`).
`Commit`, `DeleteRows` and `DeleteDir` come between any two of these, so that a lookup may end at a token
that the link had at no instant: of two holders the younger is read, then the younger and then the older
is deleted, so that the older is not found and the token names the younger. `seen` (auxiliary) has the
rows of `bundles` with their `created_at` at every instant of a call. The key of a result is the sequence
of tokens of its links. A result's bytes are determined by its key.

`DeriveParams` has no state: `ParamIsValid` and `DeriverIsValid` are the `__post_init__` checks,
`Prepare` is `prepare` with `validate_params`, in its order. A number is a whole number of ticks and a
text is a number in one of its spellings, so that `Written` (twelve significant digits), `Snapped`
(the grid, perhaps a few ticks off) and the tolerances are exact integer operations.
`ViewerRequests` drives it: a request is prepared, answered from `results`, or queued under its
canonical texts, which `ChildPrepares` prepares again.

### 2.5 From a source to a stored bundle

`ViewerRequests` runs sessions, each an environment and a sequence of requests; it is the
composition of the modules below, one request at a time.

* `ViewerSettings` turns the environment into settings or an error, and `Gate` answers a request
  by its host, method, header and origin. A raw value of the environment is described by what its
  text looks like.
* `SafeExtract`: paths are sequences of components. One action accepts or refuses one entry or reads
  one block (`RefuseEntry`, `MakeDirectory`, `OpenFile`, ...; for directories of the server
  `RefuseChild`, `CopyDirectory`, `CopyFile`, ...), with the running totals of the code;
  `ArchiveIsSafe` (`EntriesAreSafe` and the sum of the blocks) and `DirectoryIsSafe` say of the whole
  source whether it is safe.
* `BundleKinds`: members and their validation over an abstract tree. `Json` has values with NaN and
  infinity told apart from finite floats, because the parser, the encoder and the overview treat them
  differently. A text is its components; `Letters` gives the characters of the short ones, which only
  `bs_ids` given as a text needs (the keys of a map there are taken to be in the order of the stations),
  and `Slashed` the parts of those with a backslash, which `resolve_inside` and the member paths refuse
  or look into. `MaxMembers` stands for the limit of 1024 members. Several faults in one source are told
  apart by `First`, in the code's order.
* `OverviewDeriver` derives from what was stored; fractions are pairs of integers.
* `SceneBuild` has no state: which polygons of a city are surfaces of a roof, a wall or the ground, of
  what material (`ExtractSurfaces`), which parts become a mesh (`BuildingMeshes`), and the writes of a
  build in their order (`CityWrites`). A polygon is its surface and the number of its corners.
* `DatasetPipeline` writes what may then be ingested: a command is the sequence of its writes with the
  manifest last; `Write` does one, `Die` leaves a prefix and perhaps half a file, and a rerun overwrites
  what it finds. What a command reads or computes between two writes is a step of its own (`Check`), at
  which it may raise (`Abort`) and leave what it has written: the front hemisphere and the apertures of a
  partial, looked at when the old output is gone and the mask is written; the pose of a view, when its
  optical references are rendered; `observations` that are no map, when all observed files are written;
  frequencies that are not finite, and a station that is where a view is, within a pair. The floats of a
  setup may be NaN or infinite, which `SetupIsValid` compares as the code does. `BuildCommand` builds a
  city into the directory `scene`, where an earlier scene may be; the multi-view run and the optical
  references need a scene that can be parsed, and the former a carrier at which the materials of the
  scene are defined (`CarrierIsValid`). `suspect` (auxiliary) marks a directory in which a command died
  or raised after it had changed a file that the manifest of an earlier run names.
* `ViewerRequests` has the rest of the handlers: the header checks, `ReadChunk` with the cap, the
  disconnected client, `DiskFails` at every point, `Invalidated` and `Commit`, the deletion's body
  and confirmation, the raw route's look-ups, and the derive route and command.

### 2.6 The page

The page has one thread: an action is what runs between two awaits. `HashStore` is `state.js` with one
field of each kind (`view`, `hemisphere`, `path`, `pixel`); `events` counts the `hashchange` events that
are queued. `AppRouter` is `render` with its generation and abort controller, the answer of the bundle
request being a step of its own. `OverviewPanel` has a promise chain per mount or click on Retry
(`get - poll - sleep - ... - file`), of which the ones of an earlier mount may go on. `Frontend` joins
the two: a step of the router mounts, updates or unmounts the panel in the same action.
`BundlesPanel` has reloads, polls, deletions and uploads as chains over one timer and one table; a file is
chosen in the input, unless an upload has disabled it (`inputOff`), or dropped, and a choice in the input
may be taken back (`Unchoose`).

### 2.7 Mutants

A definition marked `\* Mutant:` is a plausible bug in the definition that follows it, for example
a missing kill or a dropped guard. `PROJECT.json` names, for each property of each passing run, the
mutant that violates it: this shows that the property depends on that piece of the code, within
the run's bounds.

## 3. Runs

| Run | Properties | Question and bounds |
|---|---|---|
| `jobs_dispatch` | `TypeOK`, `OneChildPerKey`, `ChildHasWorker`, `OneRunnerPerJob`, `LazyFirst` | Two workers, two eager keys, three jobs, one request. Two workers and a job with two heap entries are what the races in `_pop_queued` and `_drop` need; the third job lets a key be derived again while the old job is being dropped. |
| `jobs_faults` | `NoStrandedRow`, `CleanShutdown`, `FinalRowsKept`, `CancelLeavesNoChild` | One worker, two bundles with a key each, three jobs; one cancellation, one stop, one failed write or start, each at any point. Three jobs are needed for a recovery after the stop. |
| `jobs_liveness` | `JobsFinish`, `EagerRecovered` | The same machine under fairness, with one stop and one error, children that may hang. What is claimed is claimed of a server that keeps running: after the stop it may be started again or stay down. No cancellation: a cancelled job's row is left to the deletion. |
| `jobs_label` | `RestartNotRelabelled` | Finding 1 (violated). |
| `server` | `ServerTypeOK`, `RowsAreOwned` | One worker, one key, three jobs and one request's worth of lazy ones; one deletion with a second upload, one stop, one error, at any step. |
| `server_dedup` | `SameRequestSameJob` | Finding 2 (violated). Two workers and three jobs. |
| `store` | `TypeOK`, `RowHasBundle`, `StagingIsEmpty`, `BundleIsImmutable`, `IsContentStore`, `CallsEnd` | Two callers, two digests, four calls: enough for commit, delete and commit of one digest with a call of another caller inside any of them; one error, one death, derive children on both digests. |
| `cache` | `TypeOK`, `AnswerIsCurrent`, `ReadyIsThere`, `OneWins` | Two processes, two calls over an empty cache or one with a result of earlier links (`Cached`), a result with two links into two other bundles, one of which holds both files; two commits or deletions, one fault or death. Two processes and two links are what a stale or mixed sequence of tokens needs; two holders of one file and two deletions are what a lookup needs to end at a token the link had at no instant. |
| `requests` | `RequestsTypeOK`, `IndexIsDisk`, `VerdictIsOfTheSource`, `AnswerTellsTheStore`, `StoredIsConsistent`, `StoredMeansDerivable`, `SceneIsRead`, `WrittenIsRead`, `RequestsAreCanonical` | 2,663 sessions: all archives of up to three entries out of eight, in three formats, and those with one of thirteen odd entries beside another; directories; a dataset with one field changed to every odd value; bundles of members that collide; every refusal of a header, an origin or a setting; sessions of uploads, deletions and reads; scenes and workspaces after two commands and one death, over none or an earlier scene, from setups that are refused, that raise half-way or that have a NaN or infinite number, and over earlier datasets that make a partial, an optical or an observe command raise, with four cities (among them one without vertices, one with a polygon that no surface is given for, and one with a roof of two corners, which becomes no mesh) and with or without a ground; 56 declarations of derivers, the 22 valid ones asked in all spellings of 14 numbers and three words. Limits of two files and two blocks, one failure of the disk. |
| `frontend` | `FrontendTypeOK`, `PageIsLocation`, `OverviewIsRoutes`, `OverviewSettles` | Two stored bundles and a third that is not, two members, two panels, six hashes; the page is opened and navigated once, and one result is lost or bundle deleted. |
| `home` | `BundlesTypeOK`, `TimerIsMounted`, `ButtonComesBack`, `ListSettles` | Two bundles, two mounts, two commands: a reload, a poll and a command of one mount can each overtake those of the other. |
| `home_polls` | `PollsWhatIsShown` | Finding 3 (violated). One bundle, three commands. |

*Bounds.* `MaxJobs` bounds the jobs ever inserted, `MaxRequests` those inserted by requests, `MaxQueue`
the lazy part of the heap; `MaxCancels`, `MaxStops`, `MaxErrors`, `MaxCalls`, `MaxChanges`, `MaxFaults`,
`MaxDeaths`, `MaxCommands`, `MaxActions`, `MaxMounts` and `MaxLosses` bound the events of the name. They
appear in guards only. `Json` values are nested as deep as a manifest is. A workspace in which a command
died is ingested before the last of the commands ran (`Ingest`). `MaxMembers` is 4. `JsonValues` are the
values that the files of the sessions and of earlier runs hold. The three significant digits of
`DeriveParams` stand for twelve: what matters is how they compare with the step and the tolerance, and
both cases are in the run.

`CHECK_DEADLOCK FALSE`: once the bounds are used up and the work is done, the server, the page and
the sessions wait. `WorkerSymmetry` and `ProcSymmetry` are used in safety runs and nowhere else.

### 3.1 What the runs show

* With any interleaving of submissions, workers and children there is one child per key, as long
  as no row of an active job is deleted (`jobs_dispatch`; theorem `Deduplication`). When rows are
  deleted, it is not so: finding 2.
* A job whose row is not written because of *one* error is still finished or failed
  (`NoStrandedRow`, `JobsFinish`). With two errors the row can stay `running` until the next
  start; the properties say so by `used.errors <= 1`, and by `MaxErrors = 1`.
* While a server runs, every unfinished row is brought to an end, also those that the server before it
  left (`JobsFinish`), and its eager keys get a result or a failure of their own (`EagerRecovered`).
  Nothing in the repository starts a server that has ended, and nothing is claimed of one that is down.
* A shutdown that manages to join its workers leaves no unfinished row (`CleanShutdown`), although
  a worker may write `running` over the `failed` of `shutdown`: the worker's own end then
  writes the failure again.
* A cancellation that returns before its time-out has left no live child (`CancelLeavesNoChild`),
  also when it came between the start of a child and its attachment.
* A row of `bundles` always has its complete directory, although a delete, a commit, an orphaned
  child and a crash share it (`RowHasBundle`, `BundleIsImmutable`, `IsContentStore`).
* Without a lock, and with lookups of several queries, each bundle that an answer links to was stored when
  the lookup of that link began and at an instant after it, and whatever comes before it (the own bundle, an
  older holder) was gone at some instant since; where the answer has no link, every holder was
  (`AnswerIsCurrent`). It is *not* so that each link resolved to its token at some one instant of the call,
  let alone all of them at the same. And of two derivations of a key at once one leaves its result (`OneWins`),
  although the other may fail on a directory that it did not expect.
* The entry-by-entry accounting of `extract.py` accepts exactly the safe sources
  (`VerdictIsOfTheSource`), in any order of their entries and whatever they declare. A request
  stores what its source holds, all of it or nothing (`AnswerTellsTheStore`).
* What validation accepts, the raw route serves and the overview derives (`StoredIsConsistent`,
  `StoredMeansDerivable`), but for the two exceptions named there.
* A scene that can be parsed names only meshes that are there, also when its build died over an earlier
  scene of another city (`SceneIsRead`).
* A dataset of an interrupted command is a valid bundle unless the command spoilt a file of an
  earlier one (`WrittenIsRead`), provided that its carrier and its positions are finite: the multi-view
  command runs with NaN or infinite ones, and what it writes the reader refuses (3.3).
* The server and the child agree about the parameters of a job, in every spelling
  (`RequestsAreCanonical`), for parameters whose steps twelve digits can tell apart.
* Late answers of a view that was left never reach the page (`PageIsLocation`, `OverviewIsRoutes`).

### 3.2 Findings

1. `jobs_label`. `shutdown` fails a running job as `restart` and kills its child; the worker, if it
   has passed its check of the active map, reads the end of the pipe and records `crashed` over
   it. `crashed` is sticky, `restart` is not, so the interrupted derivation is not repeated by the
   next GET. (`recover` queues eager keys again in either case; lazy ones are affected.)
2. `server_dedup`. A job submitted during a deletion loses its row while it is active; the next
   request for its key does not find the row, and starts a second job for the key.
3. `home_polls`. Two reloads of one mount race; the rows of the older, whose table is gone, end last
   and put its refresh in the place of the visible table's, which is never refreshed again.

### 3.3 Observations without a run

Met while modelling; the models allow them, and no promise of the repository or no property is
contradicted, or the matter is outside what is modelled.

* *Routes.* Between `cancel_bundle` and `store.delete` a request that was under way can submit a job
  of the bundle, which is not cancelled. Its failure is sticky for the bundle uploaded after it, and
  the hook takes it for an answer. A versioned file URL goes on serving a result whose linked bundle
  is gone, since `get_derived_file` resolves no link.
* *Parameters.* `ParamSpec(min=-0.3, max=0, step=0.1)` accepts the request `0`, whose canonical text is
  `5.55111512313e-17`; the child's validation refuses it as out of range, and the job fails. The same
  happens where the maximum lies just off the grid, or needs more than twelve digits (`IsFine`).
* *Validation and overview.* A dataset whose `ray_directions` are in no `.npz`, or with an infinity in
  `camera_model.image_axes`, is accepted, and its overview always fails. Arrays other than apertures are
  validated by their headers. A name like `C:x` inside a member is accepted, and its raw route answers 400.
* *Exceptions.* `raw_observation.bs_ids` that cannot be iterated, an integer too large for a float, a malformed
  `Origin` and a client that leaves during the body of a deletion are answered with 500. A 500 and an
  unknown host are answered in plain text, where `src/docs/viewer.md` describes a JSON envelope.
* *Store.* Trees that differ only in empty directories share a digest. The error for an empty bundle
  cannot be reached.
* *Commands.* A multi-view run that dies over an earlier dataset leaves the old manifest over new
  arrays, which is valid when the shapes agree. `--overwrite` of a partial removes its files before its
  manifest, and before it has read an aperture or looked for the front hemisphere: a torn aperture
  destroys the old output, although the comments at `rf_camera_partial.py:147` and `:166` have it that all
  validation happens before. `RFMultiViewConfig.validate` and the ring of views accept a NaN or an infinity
  for the carrier and the radius, which the reader refuses in what is written. The `derive`
  command counts a job without a row as not failed.
* *Settings.* `VIEWER_READ_ONLY` is only reported, and `import_roots` is validated and not used.
* *Page.* The back-off of the home panel never grows, since scheduling stops the timer, which resets it.
  The retry URL is built by appending to a URL that may have a query. Integers from 10^21 do not survive
  the hash. A redirect may overwrite a hash whose `hashchange` is still queued. Dropping a file enables
  the upload button during an upload. A deletion that ends after its mount was left fails on the missing list.

## 4. Fairness

`FairSpec` of `JobManager`: the worker threads are scheduled (weak fairness of each one's steps);
a time-out that a worker checks again and again is found to have passed (strong fairness of
`CheckDeadline`: the loop's `poll(0.05)` brings it back to the check, so it is enabled infinitely
often but not continuously); `recover`, once a server was started (`RecoverNext`), the exit of a
process that was shut down, and the bounded wait of `cancel_bundle` run through. `Start` has no
fairness: nothing in the repository starts a server that has ended, so `JobsFinish` and `EagerRecovered`
are fulfilled, too, when the server goes down. *Nothing* is assumed of
the children; a child that hangs, before or after its last message, is ended by its worker. Errors and
kills are never forced.

`FairSpec` of `BundleStore`: a caller that can go on does (weak), and one that waits in `flock` is
not passed over for ever (strong, on taking the lock). The kernel queues blocked flock requests, so
this is what the code gets, although POSIX does not promise it.

`FrontendFairness` and `BundlesFairness`: the event loop runs what is queued, and a request is answered,
fails or is aborted, as `fetch` promises; a derivation on the server ends, which is `JobsFinish`.
Nothing is assumed of the user: clicks, visits, deletions and uploads are never forced.

`DeriveCache` and `ViewerRequests` state no liveness: their loops are bounded by the data.

## 5. Proofs

All theorems are checked by TLAPS from the assumptions on the constants only (`KeysAssumption`,
`BoundsAssumption`, `NobodyAssumption`, `LinksAssumption`, `CachedAssumption`, `PanelAssumption`, `HashAssumption`,
`RouterAssumption`, `FrontendAssumption`, `SceneAssumption`, `PipelineAssumption`, `RequestsAssumption`,
`SettingsAssumption`), which TLC evaluates in the runs of their modules. The inductive invariants were
checked by TLC on the instances of the runs before they were proved.

**`JobManagerProofs`.** `IInv` is inductive: `TypeOK`; a worker past `idle` has an inserted job and
otherwise none; that job is not queued, and is in the active map up to the point `poll`; a worker
that ends a job knows its outcome; an active job is the one the dedup map has for its key
(`ActiveIsIndexed`); every inserted job has its row (no deletion here); a live child is an active
job in the hands of a worker that follows it (`LiveIsFollowed`); no two workers hold one job.
`OneChildPerKey` alone is not inductive: that no second child is started for a key needs that the
dedup map knows the first job as long as it is active, and that the child's job is active as long
as the child lives. From it:
`TypeCorrect`, `OneRunner` (`OneRunnerPerJob`), `EveryChildHasAWorker` (`ChildHasWorker`) and
`Deduplication` (`OneChildPerKey`). `LazyGoesFirst` (`LazyFirst`) is about the order in which jobs are
taken. A job that was promoted has an entry of the heap for each time, and entries of jobs that are over
stay until they are popped; `WaitedIsQueued` says that nevertheless every entry with the priority of lazy
jobs is of a job that was asked for, and that every such job has one while it is queued. The worker
that pops an eager job has therefore seen no lazy one that it could have taken.

*The rows.* What the jobs table promises needs more than `IInv`: `RowInv` adds `EndsForAReason`
(a worker ends a job as cancelled only if it was, and drops a job whose row is unfinished only if that
job was cancelled or two writes failed), `NoStrandedRow` itself, `FinalIsOver` (a job with a final row is in
nobody's hands, except at the point `drop`), `LifeCycle` (a process that is down has no memory),
`BeforeStop` (until `shutdown`, a job that is over in memory is held by a worker, and `cancelled` is
`cancel_bundle`'s doing) and `CleanSoFar` (without errors, the unfinished rows of a stopping manager belong
to workers that will still write). `CleanShutdown` alone says nothing about the states in which a worker
holds a job, which is where a row is lost; `FinalRowsKept` rests on `FinalIsOver`, since a worker writes
a row long after it has looked at it. From it: `RowsAreNotStranded`, `ShutdownIsClean`, `FinalRowsStay` and,
with the fact that a live child's job is still marked as running (`LiveRuns`), `CancelIsComplete`.

**`BundleStoreProofs`.** `StoreInv` says what the holder of the lock relies on at each point: its
digest has no row from the check to the insert and after the erasure; the directory is frozen
before the insert; a call in progress has not answered; staging and trash directories belong to
calls at the points that own them; and the debris is bounded. Mutual exclusion is in `TypeOK` (a
caller is past its lock exactly while it holds it). From it: `StoreTypes`, `RowsHaveBundles`,
`BundlesAreImmutable`, `StagingIsCleared`, and `Refinement`: every step maps to a step of
`ContentStore` or to a stutter, action by action.

**`ViewerServerProofs`.** A deletion removes the rows of jobs that may still be active, and after that a second
job of the same key takes the first one's place in the dedup map (finding 2), so `ActiveIsIndexed` and
`InsertedHasRow` do not hold under `ServerSpec` and `IInv` is of no use. `ServerInv` keeps what does not
need them (`Core`: the workers, the active map and the children agree) and adds why a row is not lost:
until the manager stops only a deletion cancels, and it goes on to remove the rows (`CancelledIsDoomed`);
a worker that drops a job with an unfinished row leaves it to such a deletion, or failed twice to write
it (`WorkerKnows`). From it: `ServerTypes`, `RowsHaveOwners` and `ServerChildHasAWorker`.

**`DeriveCacheProofs`.** Nobody holds a lock here, so `CallsInv` is about each call by itself, at every
step of a lookup: each link that it has a token for was resolved (`Resolved`) among the instants in `seen`;
of the link under way there is an instant at which the query was made, what is still to be read was found
then, what was read has the `created_at` of a later instant, and every other holder was gone at some
instant since (`Fetched`); the tokens are as many as the point calls for, and the answer names such a
sequence. Two facts about time are part of it: the last instant is the present (`UpToNow`), and a bundle
whose `created_at` changed was gone in between (`Steady`), without which the order of two bundles read at
different instants would say nothing about either. From it: `CacheTypes` and `AnswersAreCurrent`. `CalmInv` holds
as long as no fault and no change to the bundles came: a key is `Secured` if its result is in place or in
the hands of a process that is about to publish it; a process that has moved the old result away, or has
been refused by another's directory, leaves its key secured; and an indexed row belongs to a secured key.
`ReadyIsThere` and `OneWins` are not inductive without the moments between the two renames, which
`Secured` names. From it: `ResultsAreSecured`, `ReadyResults` and `OneOfThemWins`.

**The home panel (`FrontendProofs`).** `PanelInv` is inductive because a chain asks `Aborts` before it touches the
page: the timer that a row or a poll schedules is that of the mount on show, although the chain may be
older than the list. `ButtonComesBack` rests on uploads of an earlier mount not counting, and on every
way an upload of this one ends enabling the button. From it: `PanelTypes`, `RefreshIsMounted`,
`UploadComesBack`.

**The page (`FrontendProofs`).** `WrittenRoute` is what everything about the URL rests on: a hash that the router
writes is read back as the route and the state it was written for. `FrontendInv` has the store (it agrees
with the location unless a `hashchange` is queued), the requests and abort signals by the render they
belong to, what the page shows against the route, the mounted panel against the render that mounted it
(`RouterInv`), and the chains of the overview: a chain is of the mounted panel, or of an earlier one whose
signal is aborted (`OverviewInv`). `PageIsLocation` alone does not say which answers are still to come,
and `OverviewIsRoutes` alone not why a chain of an earlier mount that goes on cannot show what it
fetched. From it: `FrontendTypes`, `PageFollowsLocation` and `OverviewFollowsRoute`.

**`SafeExtractProofs`, `DatasetPipelineProofs` and `ViewerRequestsProofs`.** The first has the lemmas
about staging, the second what a dataset directory may hold, the last the requests that start a staging,
run it and clear it away.

* `StagingInv`: the staging directory is a tree with one spelling of each path; what is on disk are the
  paths of the index and those of the open file, with the kinds of the index; a directory of the server
  that is under way has seen the name of everything in it, and no directory is under way twice. It is
  part of `RequestsInv`, from which `RequestsTypes` and `IndexFollowsDisk` (`IndexIsDisk`) follow: what
  the index lets pass is never in the way on disk, since two paths that fold to one key would have to
  share a spelling.
* `StoreIsValid`: `StoreInv` says that what is stored has passed validation as it is there, also when it was
  uploaded again with other empty directories; that a staging directory exists exactly while a request
  stages; and that an answer accounts for the change of the store, which is one of one bundle.
* `ArchiveVerdict`: `EntriesInv` relates the running state of the extraction to the set of entries taken
  so far: which are safe one by one, the keys, the paths that they leave with their kinds, and their number.
  An archive is accepted only if its entries are safe *as a set* (`EntriesAreSafe`, the first conjunct of
  `ArchiveIsSafe`), and refused, unless for its blocks, only if they are not. The second half is the
  harder one: `_PathIndex` compares with implicit parents and their spelling, so each of its refusals has to
  be traced to two entries that exclude each other in every order, and the cheap check of a zip
  archive's end record to the number of entries that count.
* `VerdictIsRight` (`VerdictIsOfTheSource`): exactly the safe sources are accepted, archives and
  directories, blocks included. Two things were missing above. *Blocks.* `BlocksInv` says that what was
  copied and what is left of the open file is the sum over the files among the entries taken so far
  (`BlocksTo`); a refusal for its blocks is right since a partial sum is no more than the whole.
  *Directories.* The model, like the code, walks with a stack of frames, each with a listing still to
  go through; the set of paths that are done is not an initial part of anything. `ItemsInv` says that
  every item of the tree is either done, or below a place where a frame of the stack still has to go
  (`Walk`), that no place is in two frames, and that the copied blocks are the sum over what is done
  (`BlocksIn`). When the stack is empty everything is done (`WalkEnds`), provided that the tree is
  finite and every item is below the top (`IsTreeOfItems`), which a directory of the server is by
  `RequestsAssumption`, and the directory of a dataset command by `PipelineIsWhole`.
* `PipelineIsWhole`: what the dataset commands leave, wherever they die and are run again, are finitely
  many files at paths, and what can be read of them is whole: lists are sequences, and so are the
  components of a text. It is not obvious because the names of files are read: a rerun takes the ids in
  them from the manifest that is there, whatever an earlier command left of it, and refuses one that it
  cannot parse; and a manifest that is written has parts of the one that was read. `PipelineInv` therefore
  has files, writes to come and manifest in one. `PipelineAssumption` asks that what files of an earlier time hold is
  in `JsonValues` (`IsReadable`), that the values of `JsonValues` are whole, and that a setup has at most two
  views and two stations; `RequestsAssumption` asks the former of the contents of an archive or a directory.
* `ScenesAreRead` (`SceneIsRead`): whatever cities are built into one directory, and wherever a build dies,
  every scene file there names only files that are there. `SceneIsRead` is not inductive: while a
  build is under way the meshes that its scene will name are partly on disk and partly among the writes
  to come. `SceneInv` says of these that none removes a file and that a scene comes after the files it
  names (`InOrder`), which `SceneLast` establishes, a `Write` moves from the one to the other, and a
  death, which leaves a prefix and perhaps a broken file, cannot disturb: a broken scene names nothing,
  a broken mesh is still there. `SceneAssumption` asks that the lists of a city are sequences, that the names of its
  meshes are plain file names (the ids of a city are used as they are), and that an earlier scene is whole.
* `AnswersTellTheStore` (`AnswerTellsTheStore`): the answer to every upload, ingest and delete tells what
  the store is now. It combines all of the above with what was looked at before staging began, which the code
  has forgotten when it answers: `AskedInv` says that a body is read only of a request whose headers were in
  order, that the spool holds the sum of the chunks read so far (`BytesTo`), so a chunk that is too much
  makes the whole body too much (`BodyIsOverWhole`), and that what is staged is the source that was asked
  for, for a workspace the directory as the commands left it. With `VerdictIsRight` an accepted source
  is a safe one, and what was staged of it is its tree, with the same root (`StagedIsTheTree` of an archive,
  `StagedDirectoryIsTheTree` of a directory). So a request that could have been met fails only if the disk
  does, which needs both halves of the verdict, and one that succeeds has stored exactly its source.
  `Succeeded` is a status of 200, 201 or an exit code of 0 for a commit or a deletion.
* `StoredFits` (`StoredIsConsistent`): the members of every stored bundle fit together. `StoreInv` has
  that the members stored are the ones detected in what is stored, and that they passed validation;
  `StoredIsSound` adds that the JSON in its files is whole, of an upload by `RequestsAssumption` and of a
  workspace by `PipelineInv`. The rest is about one bundle (`ValidMembersFit`), either with a
  `bundle.json`, whose checks exclude equal ids, nested directories, links that lead to no dataset and
  second scenes (`DeclaredAgree`), or without, where the shape of the detection does (`DetectedAre`).
  What a member names is there (`BundleIsThere`), below its directory, and `Resolve` of what is left of
  its path is that path (`PathIsProper`, `TailOfJoined`), so the raw route finds the file
  (`FileIsServed`); names like `C:x` or `\x` are the exception, as `Serves` states. The pairs are
  numbered by rows and columns (`RowAndColumn`), and `PairsAre` says that a manifest whose ids are unique
  gives each view and station exactly one.

**Model-checked only.**

* Liveness (`JobsFinish`, `EagerRecovered`, `CallsEnd`, `OverviewSettles`, `ListSettles`): TLAPS cannot treat
  it under fairness.
* `StoredMeansDerivable`: that no step of the overview fails on what validation accepts, a computation
  over the whole manifest and every array it names.
* `WrittenIsRead`: that a manifest the commands write of finite numbers passes every check of the reader.
* `RequestsAreCanonical`: numbers of a bounded number of digits, for which the run enumerates all spellings.
* The three violations.

*Induction over data.* The theorems of the library that take an operator as a parameter are of no use to
the provers, but a sum, a list of a set or a walk over a tree can still be treated: a set of natural
numbers has a least element (`LeastNat`), so a least counterexample has all smaller cases behind it
(`SumIsDefined`, `ListIsDefined`, `FewestElements`), and a recursive function that is the fold of the
community modules equals its own body for finite sets.

## 6. Not modelled

* The wall clock: `created_at` orders jobs by insertion, deadlines may pass at any check.
* Bytes: archive and array formats, digests, compression, floats. A conversion is modelled by what it
  accepts and yields. Migrations of the index schema, usage accounting, listings, ranges and ETags.
* The handler's `KeyboardInterrupt` and failures of `_kill_process` itself; a child that cannot be killed.
* What the dataset commands raise for the contents of arrays: NaN in an aperture, a value that a manifest
  written without NaN cannot hold, frequency offsets of an earlier dataset that are not uniform. They leave what
  `Die` leaves between two files.
* Two failed writes for one job (allowed by the model for larger `MaxErrors`, but `NoStrandedRow` is
  only claimed for one).
* A second process over the same `jobs` rows (`derive` on the command line beside a server).
* The job status routes, which only read; response headers, static files and the error envelope.
* Panels other than the overview and the home panel, which show what they are given; markup.
* The numeric pipelines (ray tracing, RF camera domain, calibration, delay estimation, development) and the
  geometry of the scene build (coordinates, triangulation), reports, plots and scripts: sequential, over
  floating-point arrays, out of TLC's reach. The order of the files they write is modelled for the
  commands whose output the viewer reads.

The status of each component is in `PROJECT.json`.

## 7. What could follow

Proofs: that a stored dataset can be shown (`StoredMeansDerivable`), for which `StoredFits` has the lemmas
about pairs, stations and the files of a member.
Models, in this order: a second job manager over the same rows; the job status routes as an operator of
`ViewerServer` with the home panel's polling against it instead of against its abstraction.
