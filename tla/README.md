# Ariad: a TLA+ verification project

Ariad turns source trees into graphs that tools and agents query. The
repository holds two implementations:

* `v1-reference/src`, in C: a server process that parses a repository, builds
  its graph in memory, writes it to a SQLite file per project, keeps it current
  with a watcher, and answers an MCP client with fifteen tools, Cypher among
  them;
* `v2/src`, in TypeScript: indexes into the same kind of database, publishes
  every index as an immutable *generation*, and serves a CLI, an MCP server and
  a web UI.

This directory holds a TLA+ model of the parts of both whose correctness
depends on the order of steps or on a computation that tests hardly reach, the
TLC configurations that check it, and proofs of its most important invariants
for every value of the constants. Paths below are relative to `src/`.

## 1. Inventory

### The C engine (`v1-reference/src`)

| Component | State | Operations | Interacts with | Hard behaviour | What makes it correct |
|---|---|---|---|---|---|
| Process `main.c`, `watcher/watcher.c`, `pipeline.c` (lock) | threads, `g_pipeline_busy`, `g_shutdown`, watched projects with their baseline, deferred frees | start, initialize, watch, unwatch, poll, auto-index, signal, join | every other thread; the repository; the database file | threads racing for one lock, state freed while it is polled, shutdown in any state | one pipeline at a time; nothing freed is used; a changed tree is indexed; every shutdown ends |
| HTTP server `ui/http_server.c` | job slots, child processes | index jobs, kill, reap, RPC, DELETE | children, MCP tools, database files | a child's exit, a kill and the status that is shown | a slot has one child; a failure is shown as one |
| Pipeline driver `pipeline/pipeline.c`, `pipeline_incremental.c` | the pipeline object, the database's graph and hash rows | full run, incremental run, dump, hash rows, cancel | graph buffer, passes, store, artifact | edits during a run, files that cannot be read, cancels, crashes, modes that see different files | rows say what the graph holds; a successful run is current; nothing of an unchanged file is lost |
| Repository artifact `pipeline/artifact.c` | content and metadata beside the sources | export, import, bootstrap | driver, git | two files replaced one after the other | no torn database is brought in |
| Graph buffer `graph_buffer/graph_buffer.c` | nodes, edges, indexes, id counter | upsert, insert, delete by file, merge, load, dump | workers, passes, store | buffers merged with ids remapped by name | ids and names stay unique, no edge dangles |
| Name resolution `pipeline/registry.c`, `lsp_resolve.h` | the registry | register, resolve, import lookup | per-file passes | strategies tried in order | a pure function of the registry |
| Per-file passes `pass_parallel.c`, `pass_calls.c`, `pass_usages.c`, `pass_semantic.c`, `worker_pool.c` | shared counters, results by file, retained text, skip list | claim, extract, admit, resolve, merge | graph buffer, registry | workers interleaving on counters and the memory budget | no file lost; budget kept; same edges as one thread finds |
| Graph passes `pass_tests.c`, `pass_githistory.c`, `pass_enrichment.c`, `pass_configlink.c`, `pass_route_nodes.c`, `pass_complexity.c` | graph and node properties | one pass each | graph buffer | repeated over a graph an incremental run purged in part | derived edges follow what they are derived from |
| Similarity and semantic edges `pass_similarity.c`, `pass_semantic_edges.c`, `semantic/semantic.c`, `simhash/minhash.c` | buckets, scores, per-node counts | tokens, vectors, signatures, scoring workers | graph passes | a count read before it is raised | caps and exclusions hold |
| Store `store/store.c` | tables of one database | upserts, deletes, search, BFS, schema, architecture, clusters | MCP, Cypher, driver | LIKE hints, limits, aggregation of partitions | answers are what the rows say |
| Cypher `cypher/cypher.c` | none between queries | lex, parse, plan, execute | store | WHERE asked of partly bound rows, clause order | a query means a set of rows |
| MCP tools `mcp/mcp.c` | one open connection and its project | the tools' calls, resolve, evict, delete | store, pipeline, files that others replace | a connection older than its file; a file replaced while a call writes to it | what is deleted is not answered from; pages cover a search |
| Cross-repository links, package and infrastructure scans, discovery and git, installer and command line, foundation | - | - | - | - | not modelled, section 8 |

### The TypeScript program (`v2/src`)

| Component | State | Operations | Interacts with | Hard behaviour | What makes it correct |
|---|---|---|---|---|---|
| Generation publisher `storage/generation-publisher.ts`, `storage/internal/generation-store-io.ts` | staging files in `tmp/`, final files and temps in `generations/`, `active-generation.json`, per-handle token and mutation flags | reserve, prepare, publish, discard | CAS store (transaction), file system (link, rename, fsync), readers (through the manifest) | processes racing for one store, crashes, power loss, failing calls | what the manifest names is complete and durable; no lost update; a handle is reusable only if nothing happened |
| CAS store `storage/internal/generation-cas-store.ts` | `publication_state`, `generation_catalog`, `publication_history` | transactions, upsert, status, history, `reconcileFromManifest`, dedup lookup | publisher, collector, manifest | rows behind the manifest after a crash | history explains the active generation; catalog rows name complete generations |
| Publication call `indexer/generation-publication.ts` | none of its own | `publishGenerationSnapshot`: backup, prepare, publish, collect, recover orphans | indexer above, everything above below | expected generation read outside the transaction | every run ends; the rows catch up with the manifest |
| Collector `storage/generation-gc.ts` | plans; statuses DELETING and DELETED | plan, apply, two-transaction delete, tmp sweep, orphan plan and recovery | CAS store, file system | plans made without the lock and applied later; deletions that stop halfway | never deletes what is active or pinned; deletions finish and stay finished |
| Generation readers `storage/generation-store.ts` | an open read-only database | `resolveActiveCodeDb`, `activeGenerationChanged` | manifest, generation files | deletion while a reader resolves | a whole snapshot or an error |
| Store registry `ui/project-store-registry.ts` | entries with reference counts and reader handles | acquire, release, refresh, evict | readers, routes | eviction against leases, reader swapped under a lease | a leased entry is never closed |
| Auto-index guard `cli/commands/auto-index.ts` | lock file, freshness markers | acquire, run, release | OS processes, indexer | check-then-write lock, stale takeover | at most one guarded run |
| Index jobs `ui/routes/index.ts` | job table, child processes, timers | start, timeout, terminate, exit, shutdown | child processes, server | timeout, kill and exit racing for one status | bounded concurrency, one final status |
| Caches `intelligence/{swr,ttl}-cache.ts`, hub and watcher `ui/notify-hub.ts`, `cli/commands/watch.ts` | entries, timers | get, refresh, evict; notify, flush | graph status; vault | background refresh after eviction; a debounced event replaced | nothing stale; every change is exported |
| Indexer, human store, Obsidian vault, MCP tools, reports, CLI, `graph-ui` | - | parsing, queries, formatting | - | computation, I/O or presentation | not modelled, section 8 |

## 2. Modules

| Module | Models |
|---|---|
| `ServerThreads` | The threads of the C server process: main loop, watcher, HTTP server, auto-index threads, children of index jobs, signals, parent watchdog; the pipeline lock, the watch list and the order of joins. |
| `IndexPipeline` | One project's pipeline runs, full and incremental in three modes, with edits, cancels, crashes, failed reads and failed writes between any two writes; the repository artifact. |
| `GraphBuffer` | The in-memory graph as a value: indexes, upsert, edges, delete by file, merge with remapped ids, load, dump. |
| `NameResolution` | The registry and its strategies; the language servers' answers. |
| `FileEdges` | The edges one extracted file contributes, pass by pass, sequential and parallel. |
| `ParallelPipeline` | The workers of the parallel run over `FileEdges`: claiming, admission to retained memory, merges, resolution. Refers to the sequential run as its reference. |
| `RouteNodes`, `SemanticEdges`, `GraphPasses` | Route matching; tokens, vectors, sketches and scores; and the sequence of passes over a whole graph with the racing scoring workers, in full runs and after one file was extracted again. |
| `Ordering`, `Store`, `Leiden`, `Architecture` | Sorted sequences; the rows of a database and the statements on them; the community search; schema, architecture and clusters. |
| `CypherParser`, `Cypher` | Lexer and parser; planner and executor. |
| `McpCalls`, `McpAnswers` | Calls and their answers from the rows: search and decision records; the other tools. |
| `McpConnections` | The server between client and files, whatever the other tools answer: cached connection, deletion, runs of the indexer from their start to their end, pages, records. |
| `McpServer` | Both together, and what traces and clusters are promised to be. |
| `QueryMeaning` | What a query means, without how it is run: the reference for `Cypher`. |
| `CasStore` | The SQLite rows of the generation store as a record, and the statements run on them. No variables. |
| `SnapshotStore` | The abstract promise of the generation store: readers are shown one whole snapshot or nothing; a power loss goes back only to a snapshot shown since the last acknowledged one, or to that one. |
| `GenerationPublication` | `publishGenerationSnapshot` and the publisher, run by `Procs`; the disk with what is and is not yet durable; crashes, power loss, failing calls, an operator removing the manifest. Shown to implement `SnapshotStore`. |
| `GenerationGc` | Extends `GenerationPublication` with the collector that every publication runs before it returns. |
| `ServerThreadsProofs`, `IndexPipelineProofs`, `IndexGraphProofs`, `ParallelPipelineProofs`, `McpConnectionsProofs`, `GenerationPublicationProofs`, `GenerationGcProofs`, `CasStoreProofs` | Theorems for all values of the constants (section 4). |
| `MC*` | The instances TLC checks. |

`PROJECT.json` gives the lines each definition stands for.

### `ServerThreads`: state and code

* `pc[t]` is where a thread is: waiting for the lock in `index_repository` or
  the auto-index thread (`lock`), in a run (`run`), in `delete_project`
  (`delete`, `unwatch`), at a step of the watcher's poll (`project`, `index`,
  `after`), at a join of `main` (`joinHttp`, `joinWatcher`, `joinAuto`).
* `lock` is `g_pipeline_busy`. `LockAndRead` is the atomic exchange of
  `cbm_pipeline_lock` and `cbm_pipeline_try_lock`; the spin of the former is a
  step that is not enabled, the refusal of the latter is `WatcherSkips`.
* `watched`, `pending`, `alive`, `polled` are sets of state objects: the
  watcher's table, its deferred frees, what is allocated, and what the poller's
  snapshot points at. `st` holds a state's last HEAD and baseline. A state
  object is an address: `NewState` is what lies at one nobody uses, `Places` the
  addresses a new state may get, a just freed one among them.
* `Watch` (`cbm_watcher_watch`) frees the entry it replaces at once
  (`watcher.c:309-314`), `Unwatch` defers it to the next poll. A poll whose state
  was freed under it goes on (`PollFreed`): it reads the old contents, those of
  the new state at the same address, or rubbish, which may end the process.
* `main` frees the watcher before it joins the auto-index thread (`main.c:672`,
  `674`), and that thread then registers the project with it
  (`mcp.c:5411`): `UseFreedWatcher` gets through, ends the process
  (`ProcessEnds`), or waits for ever on the destroyed mutex (`pc = "stuck"`).
* The repository is a version that grows by one with every edit; a run reads it
  at its start (`snap`) and publishes what it read at its end.
* A child of an index job excludes nobody, as the lock is its own process's;
  the lock is cleared by a signal whoever holds it (`RequestShutdown`).

### `IndexPipeline`: state and code

* A file is a version number, 0 when absent: it stands for content, mtime and
  size alike. A version of `Hollow` defines no symbol. A database is a record of a graph, hash rows, the decision
  record, the full-text index, and whether the file is missing, torn or whole.
* `pc` follows the code: `discover`, `route` (full or incremental), `classify`,
  `structure`, `extract` (one step per file), `history`, `predump`,
  `beforeDump`, `dump`, `dumping`, `clear`, `rows` (one step per row),
  `export`, `metadata`. `run` is the pipeline object.
* A graph has the File nodes (`has`), the version each file's definitions are of
  (`ver`), its edges, and one folder node, whose path is `root`: in a language
  whose module is its directory (`Packages`) the module has the folder's
  qualified name, and the upsert leaves the folder node with the path of the
  file (`Defined`, `graph_buffer.c:645-659`), with which it is purged.
* A file that cannot be read or parsed is put on a list of errors and the run
  goes on (`ExtractFails`, `run.failed`); its hash row is written all the same.
  Later passes read files again and may fail or succeed where extraction did not
  (`CallersFound`).
* Between any two steps a file may be edited or removed, the run cancelled, or
  the process killed. `DumpFails`, `PersistRowFails`, `LoadFails` and
  `ExportFails` follow what each route does with a failing call - the
  incremental one ignores the first.
* `db.open`, `touched` and `struck` are history: the files whose rows cannot be
  trusted because they were edited after the run had looked at them, a cancel
  or an error cut off their extraction, or a crash or a failed write left them
  without a row. Everything else is claimed.

### `ParallelPipeline` and `GraphPasses`: state and code

* A qualified name is a sequence of segments; parsing is an input (`Source`,
  `Defs`). `FileEdges` returns the commands a pass issues to a buffer.
* `wk[w]` is a worker with the file it holds, its buffer and its errors;
  `next`, `ids`, `retained` are the shared counters. Handling one file is one
  step except for admission to retained memory, which adds first and gives back
  after, and so is two.
* In `GraphPasses`, `todo` is the sequence of passes left; `work` the scoring
  phase, where `Look` reads the counts and `Emit` pushes an edge and raises
  them. `Reindex` purges one file, extracts it again and restores inbound
  edges, as the incremental run does.

### `McpConnections`: state and code

* `disk` maps the files of the cache directory to their rows (or `Broken`),
  `conn` is `srv->store` with the project it was opened for. A file that is
  replaced under the connection is still read through it (`replaced`).
* A call is one step, since the server has one thread for calls, and its
  `answer` another when the client reads it; other threads and processes index
  and delete in between.
* A run of the indexer, one a call waits for or another's, is two steps, and
  `indexing` is the run between them. `IndexBegins` takes what it needs from the
  old file: a full run saves the record of the file's own project (`OwnRecord`)
  and removes the file (`pipeline.c:963-985`). `IndexEnds` leaves one of
  `Outcomes`: the new file with the saved record (`done`) or without it
  (`unrestored`), nothing new (`failed`, or `skipped` by a cancel that is
  reported as success), or a file the dump did not finish (`torn`). Nothing
  keeps `manage_adr` from writing to the file in between.
* `page` is a client that reads a search page by page; `adr` and `gone` are the
  records and deletions that were acknowledged. `adr` is keyed by file and
  project: a record goes to the file that was open, whose name need not be the
  project's. `adr[k].kept` says whether every run since has kept it: a full run
  keeps the record of the file's own project if it was there when the run began
  and the run ends well; an incremental run that dumps keeps none (`AdrLost` is
  the run about it).
* `Handle` is what the tools other than the search and the records answer: a
  parameter here, `HandleTool` in the instances.
* `McpCalls`, `McpAnswers`, `Store`, `Architecture` and `Cypher` are what a call computes:
  names are sequences of characters and a query is a sequence of words, because
  patterns, LIKE hints and the lexer work on them.

### `GenerationPublication` and `GenerationGc`: state and code

* `cas` are the committed rows, `txn` the rows as seen by the process inside
  `BEGIN IMMEDIATE`, `lock` that process. SQLite is taken to keep what it
  commits and to roll back what it did not.
* `manifest` is what `active-generation.json` names. `onDisk` is the set of
  manifests a power loss now could leave: a rename adds to it, the fsync of the
  directory reduces it to one.
* `dbFile` and `metaFile` are the directory entries of the two final files of a
  generation: `linked` until an fsync of `generations/` makes them `durable`,
  `unlinked` until one makes them `absent`. `bytes` says whether the temp file
  was fsynced before it was linked. A power loss resolves each unsynced entry
  either way, independently.
* `staging`, `dbTemp`, `metaTemp` are the three kinds of temporary file.
* Per process: `pc` (where it is in `publishGenerationSnapshot`), `gen`,
  `target` (its own generation, or the one it deduplicates to), `expected`,
  `pin`, `mutated` (the flags of `PublicationMutationState`), `token` (the state
  of its reservation or prepared handle), and in `GenerationGc` the plan, what
  is left of it, and the generation being deleted.
* `acked` and `sinceAck` are history variables: the generation last reported as
  PUBLISHED, and the manifests written since.

Each action is one stretch of code between two points where another process,
the disk, a crash or a failing call can tell the difference. A failure is
`FailPromotion` or `FailPublish`, which follow the catch block: rollback, and a
token that depends on the mutation flags.

### Abstractions of the generation store

* A database is a *content*: two databases with equal SHA-256, size, root
  fingerprint and versions are the same content.
* `randomUUID` returns an id nothing refers to (`Fresh`).
* A database that was fsynced before its link is not corrupted later by the
  disk. The branches for a corrupt manifest, an unreadable sidecar or a
  tampered database all end in an error before anything is changed, and are not
  told apart.
* Ages are not modelled. A staging file is swept only if no running process
  reserved it, which is what 24 hours stand for; an orphan within its grace
  period is one `RetainOrphan` leaves alone, so TLC explores both.
* Temporary files are taken to survive a power loss; no code reads them again.

## 3. What the runs check

| Run | Instance | Shows |
|---|---|---|
| `ServerThreads` | main loop, watcher, HTTP thread, two auto-index threads, one job slot, two addresses; one edit; three events, each an `initialize`, a request, a job or a failing run; fairness | One pipeline at a time in the process (`OneRunner`); the state the watcher's snapshot points at is freed by nothing but a repeated `initialize` (`SnapshotFreedOnlyByWatch`); uncommitted edits of a watched project reach the database (`DirtyTreeIsIndexed`); end of input, signals and the parent's death end the process whoever holds the lock, unless a thread is caught in the freed watcher (`ShutdownCompletes`). |
| `IndexPipeline` | two files that call each other and change together, one in a directory only mode `full` visits, the other the package file of their folder; versions up to 3, version 2 defines no symbol; three runs, two edits, one fault (a cancel, a crash, a failed read or a failed write) | `RowsMatchGraph`, `SuccessIsCurrent`, `EdgesSurvive` (an incremental run loses no edge of a node it did not purge), `SimilarIsCurrent`, `OnlyDumpsTear` (no artifact brings in a torn database). |
| `ParallelPipeline` | two workers, three files whose references cross, each readable, partial, oversized or empty; a budget too small for all | `EveryFileIsAccounted`, `RetainedWithinBudget`, `OnlyChannelsClash`, and `SameEdges`: the edges are those of the sequential passes, but for the differences of section 7. |
| `GraphPasses` | sixteen definitions of six files, with a route, a page, a proto service, clones, a test and a configuration; four call graphs, with and without cycles; full and fast mode; one file extracted again; two scoring workers; a cancel | `TypeOK` (no edge dangles, across purges), `TestsMirrorCalls`, `FlowsAreJustified`, `CyclesAreFlagged`, `RelatedWithinRace`, `ClonesAreNotRelated`. |
| `ServerCalls` | two projects, one in a file of another name, a broken file; every tool; projects indexed again with other rows, by runs that may fail and during which calls go on, and deleted, among them the one in the file of another name | `DeletedStaysDeleted`, `PagesCoverTheAnswer`, `TraceListsTheNearest`, `AdrIsKept`, `ClustersAreConnected`. |
| `Queries` | every graph of three nodes over seven possible calls; patterns of one relationship in both directions, of one hop or two, with six conditions; seventeen questions of other shapes | `QueriesFindEveryMatch` and `QuestionsAreAnswered`: the answer is the meaning of the query. |
| `PublishRecover` | 2 processes, 3 ids, 2 contents, crash, power loss, failing call, manifest removal | `TypeOK`, `CatalogTargetsComplete`, `OneActivePerContent`, `AcknowledgedSurvives`, `HistoryExplainsActive`, `NoLostUpdate`, and refinement of `SnapshotStore` (`StoreKeepsPromise`). |
| `GcRace` | 2 processes, 3 ids, 2 contents, publications that may pin, one crash, power loss or manifest removal (`OneFailure`), nothing retained | `PinnedIsKept` and `NamedIsKept`: no collection, however old its plan, deletes what is pinned, or takes a durable file from what the manifest names or deduplication may offer. |
| `EverythingFinishes` | 1 process, 4 ids, a failing call, fairness | `PreparedIsUntouched`, `MetadataOutlivesDatabase`, `EveryRunFinishes`, `DeletionCompletes`, `StoreHeals`. |

Three runs end in a counterexample on purpose; each shows where the code departs
from a sentence of its own documentation.

| Run | The sentence | What happens |
|---|---|---|
| `StoreWedged` | "The next reconcileFromManifest (called by the next publish or GC) will fix the CAS" (`v2/tests/storage/r169b-crash-harness.test.ts:558`) | A crash between the manifest rename and COMMIT leaves the rows behind. `publishGenerationSnapshot` takes `expectedActiveGenerationId` from those rows; the publisher reconciles in its transaction, finds a mismatch and rolls the reconciliation back with it; the collector only runs after a success. Every later run repeats this. |
| `AdrLost` | "`manage_adr` persists architectural decisions across sessions" (`v1-reference/README-V1.md:157`) | A full run saves the project's record and restores it after the dump (`pipeline.c:963-976`, `1039-1044`). An incremental run unlinks the database, dumps the buffer and restores the hash rows only (`pipeline_incremental.c:646`). |
| `NegationIsHonoured` | "**WHERE**: `= <> < <= > >=`, `AND/OR/XOR/NOT`" (`v1-reference/README-V1.md:463`) | `execute_single` asks the whole WHERE while only the first node is bound (`cypher.c:4402`); a comparison of an unbound variable counts as true (`2434-2437`), its negation as false, and the row is dropped before the pattern is expanded. |

`StoreHeals` holds for a caller that reads the manifest (`ExpectedSource =
"manifest"`, as callers of `publishPreparedGeneration` may) and fails for the
one the indexer uses (`"cas"`). `QueriesFindEveryMatch` is `NegationIsHonoured`
for the conditions that negate nothing of the far end.

### Bounds

* `ServerThreads`: the server accepts `initialize` again and again
  (`mcp.c:5625-5629`), and `MaxEvents = 3` lets one be followed by a second one,
  or by a delete, while the watcher polls or an auto-index thread is at work; so
  an entry is replaced under a poll, and a thread's id is overwritten by the next
  thread's. Two addresses (`StateIds = {1, 2}`) hold a watched state beside one
  that is deferred or that a poll still points at; three events need no third.
  Requests, jobs and failing runs are events too, so a delete, a pipeline under
  the MCP loop, one under the watcher and one under an auto-index thread meet,
  and a failing run makes the watcher go back to polling. Of two auto-index threads
  that are not in use the model starts a fixed one (`Unused`): they do not differ.
* `IndexPipeline`: three runs are a full one, an incremental one over its
  result, and one that believes the rows the second wrote; two edits put one
  before and one within a run; one fault is a cancel, a crash, a failed
  read or a failed write. Two files suffice for an edge out of and into a purged
  file, for one that a mode skips, and for a package file whose purge takes the
  folder of the other with it.
* `ParallelPipeline`: three files and two workers let a worker that holds two
  files race with one; lengths 2, 3 and 9 against a budget of 4 and a file limit
  of 8 admit either of two files but not both, and never the third.
* `GraphPasses`: constants that are thresholds in the code (tokens kept, bucket
  size, neighbours, cap) are reduced until the instance crosses each.
* `ServerCalls`, `Queries`: three limits are reduced until they cut a result: the
  page of a search, the rows of a trace's walk (`HopLimit = 5`, for
  `MCP_BFS_LIMIT`), and a query's LIMIT. Version `P1` has a cycle of calls, so
  that a node takes several rows of a walk and the limit hides others, and two
  nodes of one name from which a third is at different distances. The growth
  limit of a query's rows (`cypher.c:4242-4248`) and the limit of paths
  (`PathLimit`) are in the model and never reached on these graphs: nothing is
  claimed about them. The inner limit of a ranked search is reached, and its
  answers are not compared with anything. Between the pages of a search, and
  while a run of the indexer is at work, a client makes the calls of `Interludes`
  only: every call that changes a file or the connection.
* Generation store: `MaxRevision` stops new runs once the catalog revision has
  reached it, except where there is something to mend; so a behaviour has two
  to four publications, the smallest numbers with a deduplication, a lost race
  and a collected generation. Failures are counted in `budget`: in
  `PublishRecover` one crash and one power loss reach every pair of "died here,
  power failed there". With the collector only one of the failures happens
  (`OneFailure`): what a power loss could bring back is in `onDisk` and in the
  state of each file before it strikes. The proofs of section 4 hold with any
  number of failures; what they leave out, and why, is said there.
* `McpConnections` takes what a tool answers, and `ParallelPipeline` what a worker
  writes for a file and the edges to compare with, as constant operators
  (`Handle`, `CommandsOf`, `Expected`). Their values are `HandleTool`,
  `FileCommands` and `SequentialEdges`.

The runs end in states where a bound forbids another step, so TLC's deadlock
check is off (`ParallelPipeline` has it on, for it ends in a step of its own);
that nothing gets stuck earlier is what `ShutdownCompletes` and
`EveryRunFinishes` say.

### Fairness

`ServerThreads` (`FairSpec`): weak fairness of each thread's own steps - the
operating system schedules them and a pipeline run ends - and strong fairness of
taking the pipeline lock for the threads that wait for it. They try every 100 ms
(`LOCK_SPIN_NS`), and the watcher, the only thread that could take it again and
again, sleeps at least 5 s between polls, so the flag is seen clear. The watcher
itself only tries once and is not given that. Nothing makes a client, a user or
a signal act. `DirtyTreeIsIndexed` assumes that the project stays watched and
the tree dirty; it is the poll after a skipped one that indexes.

`GcFairSpec`: weak fairness of each process's own steps (nothing in these
functions waits for another process except SQLite's bounded busy timeout, whose
expiry is an action) and of starting a new run (`watch`, `index-auto` and the
user index again and again). Failing calls, crashes and power loss are never
required to happen or to stop; they are bounded.

The other specifications state no fairness and claim safety only.

## 4. Proofs

Eight modules hold theorems; each says for every value of the constants what a
run shows on its instance, without the run's bounds. Hardly any of the
properties is inductive by itself: a proof rests on an invariant that TLC
checked on the run's instance first.

### Threads: `ServerThreadsProofs`

Any number of auto-index threads, job slots and state objects, edits, requests.

| Theorem | Property |
|---|---|
| `ThreadsTyped` | `TypeOK` |
| `RunsExclude` | `OneRunner` |
| `OnlyWatchFreesTheSnapshot` | `SnapshotFreedOnlyByWatch` |
| `SlotsExclude` | `SlotsAreExclusive` (in no run) |

`OneRunner` says nothing of the lock: a thread that takes it must know that
nobody is in a run. The invariant `Exclusion` adds that, until a shutdown
begins, a thread in a run means the flag is set. Each action that enters a run
tests the flag, each that leaves one clears it, and only the one thread in a run
can leave; the signal handler, which clears it for another thread, begins a
shutdown in the same step.

That a polled state is allocated (`PolledIsAlive`) is not true: a registration
frees the entry it replaces at once. What is true of any number of registrations,
and of whatever the watcher goes on to do with freed memory, is that nothing
*else* frees a state under a poll. `SnapshotInv` says why: at most one state is
watched at a time, and a watcher that is idle or has stopped points at nothing.
What `unwatch` deferred is released by the poll itself before it takes its
snapshot, and what the shutdown releases, after the watcher was joined.

### Pipeline: `IndexPipelineProofs`, `IndexGraphProofs`

Any files, packages, calls, couplings and versions; any number of runs, edits,
cancels, crashes, failed reads and failed writes.

| Theorem | Property |
|---|---|
| `RowsTellTheGraph` | `RowsMatchGraph` |
| `DumpsTear` | `OnlyDumpsTear` |
| `SimilarityIsCurrent` | `SimilarIsCurrent` |
| `IncrementalKeepsEdges` | `EdgesSurvive` |
| `SuccessIsTrue` | `SuccessIsCurrent` |
| `GraphsAreClosed` | `NoEdgeDangles` (stated in the proof module) |

A row is written many steps after its file was extracted. The inductive
invariant `RowsInv` carries the claim through the run: what the artifact's
content says is as trustworthy as the database (`Match(zst)`); from `classify`
on, a file of the loaded graph that is not of `open` still agrees with the saved
row (`RunFits`); after the dump, a file that will count as settled when its row
is written has in the new graph either the version on disk, if it was extracted,
or the version of its old row, if the mode skipped it (`DumpFits`). An edit
enters `touched`, a failed extraction `run.failed`, a cancel before extraction is
`struck` (`CancelSeen`), and each unsettles the file (`Settled`), which stays in
`open` although its row is the one of the disk. `OnlyDumpsTear` follows from the import's check and
from the fact that no other action writes a torn database.

`GraphInv` speaks of the buffer, where an edge is stale or lost long before a
dump writes it down. `Sound`: edges end at nodes, and those of similarity join
what is alike - for the database, the artifact, the loaded graph and the buffer.
`Carried`: while files are extracted, every call or containment of the loaded
graph whose source was not purged and whose target is there again is in the
buffer or among the captured edges, and its source is still a node; once the
restore has put them back, `Survive` holds of the buffer up to the rows. The
source of a containment is the folder node, which is purged with the file whose
path it carries (`Path`): then its edges are lost, and the theorem does not
promise them (`FoldersKeepFiles`, section 6). `StaysOpen`: a file whose row was
not to be believed before a run that does not extract it, and one the run failed
on, is not believed after it. `Current` is what a success claims, from the last
row on (`Written`).

### Workers: `ParallelPipelineProofs`

Any number of workers, threads and files, any lengths and any budget, whatever
the files hold.

| Theorem | Property |
|---|---|
| `NothingIsDropped` | `EveryFileIsAccounted` |
| `KeptTextsFit` | `RetainedWithinBudget` |

The first property speaks of lists that exist after the merge. `WorkInv` says why they
are complete then: every file below the shared counter is held by a worker, has
a result, or is in a list (`Divided`), none is held twice (`HandedOut`) or has a
result before it is extracted (`FirstTime`), and a worker leaves only when the
counter has passed the last file or the run is cancelled (`Exhausted`). The
claim is one atomic step, `atomic_fetch_add`; with a separate read the proof and
the run both fail.

The budget is not kept by the counter alone: between the addition of a worker's
length and its decision the counter may exceed the budget by the lengths of all
workers. `BudgetInv` says what holds then. The counter is the sum of what is
kept and of what stands before a decision (`Outstanding`), and what is kept
together with what *will* be admitted (`Fitting`) fits: the worker that found
room found it beside everything counted before it. A refusal gives back only
room that nothing kept was counted on. Both hold whatever the order in which
the workers add, decide and give back.

`Total`, the sum of lengths, is a recursive function, and `Sums` proves of it
what the argument needs: it is a number, adding a file adds its length, and a
part sums to no more than the whole. That takes induction on the number of
files. The library's induction theorems have an operator as a parameter, which
the provers cannot instantiate, but `WFMin` speaks of sets: a set of numbers
that is not empty has a least element. `UpToN` is the induction drawn from it,
for a set of numbers that has 0 and with each number the next; that the
recursive definition has a solution at all (`SumsExist`) is proved with it too.

### MCP server: `McpConnectionsProofs`

Any files, projects, versions, calls and rows, any page size, and any answers of
the tools that are not looked at.

| Theorem | Property |
|---|---|
| `DeletionHolds` | `DeletedStaysDeleted` |
| `RecordsHold` | `AdrIsKept` |
| `PagesHold` | `PagesCoverTheAnswer` |

The first two speak of the moment of an answer; what makes them true is the
state between calls. `ConnInv` says of the files and the connection: what is
open was no broken file, and its rows are read also after the file was replaced
(`Opened`); no file under its own name has a project whose deletion was
acknowledged (`GoneFrom`), and what is open for such a project is another file
with that project alone (`ClosedFor`); every record that no run dropped is in the
file it went to or, while a full run is at work, is what that run has saved
(`StoredIn`, `StoredFor`); the run at work finds rows, and the call that waits
for it is its own (`RunOK`); a successful answer about a project came through a
connection to it (`AnsweredFromConn`). `ResolvedTo` lists the ways `resolve_store`
may end, and `StillReads` that a replacement of the file changes nothing of what
an open connection reads. It takes each of: that `delete_project` closes its own
connection, that a full run which ends well writes the record it saved, that one
which does not drops it from those that count, that `manage_adr` writes to
the file that was resolved, and that a record written while a full run is at
work is not one of those it keeps. What a file keeps is `StoredIn`, and not what the
connection reads: the two differ once the file was replaced, and `manage_adr`
opens the file anew.

For the pages, `PagesFollow` says, before a search is at its end as well, that
what was read is a first part of the rows of one state, `Slice(all, 0, n)`, and that
more are promised exactly if there are more; `AnswerFollows` says of an answer
the client has not read yet that its rows are those from its offset on, in the
rows the connection reads now, and that its offset is the number of rows read. A
page that comes from another state than the pages before it makes the client
start again (`Receive`), so an answer may be compared with what is read now.
`SameRows` shows that the order of the rows depends neither on the offset nor on
the records, `PageAnswered` follows `search_graph` from the call to the page, and
`NextSlice` joins two slices. The proof uses that a table is finite, and so its
rows in order have a length (`IsRows`, `RowsInOrder`), that `DefaultLimit` is
positive, and that a client asks for the first page first (`CallsAssumption`).

`ByName` and `Search` rest on orders and patterns whose definitions the proof
leaves closed: that the rows found are those a search means is for TLC.

### Generation store: `CasStoreProofs`, `GenerationPublicationProofs`

`CasStoreProofs` shows what the row operations return: `reconcileFromManifest`
ends with the manifest's generation active and touches no other catalog row
(`ReconcileType`), and the rows of a publication differ from those before it at
its target only.

`GenerationPublicationProofs` proves, of `Spec` and for any number of processes,
ids and contents, crashes, power losses, failing calls and removals:

| Theorem | Property |
|---|---|
| `TypeCorrect` | `TypeOK` |
| `TargetsSurvive` | `ManifestTargetSurvives` (in no run) |
| `CatalogComplete` | `CatalogTargetsComplete` |
| `AcknowledgedStays` | `AcknowledgedSurvives` |
| `NothingLost` | `NoLostUpdate` |
| `ContentsKeptOnce` | `OneActivePerContent` |
| `HistoryExplains` | `HistoryExplainsActive` |
| `HandlesReusable` | `PreparedIsUntouched` |
| `PromiseKept` | `StoreKeepsPromise`, the refinement of `SnapshotStore` |

The argument is one inductive invariant, `IInv`. `ManifestTargetSurvives` needs
to know that a run has synced its files when it renames the manifest
(`PromotionProgress`), that nobody else moves those files meanwhile
(`LockHeld`, as the publisher only works inside its transaction), that the run
works on an id nothing refers to (`UnpublishedIsPrivate`, which rests on fresh
ids and `IdsOwned`), and that a generation found by deduplication or restored by
the reconciliation is complete (`NamedIsDurable`). `ManifestKnown` carries the
optimistic check from BEGIN to the rename, and says that the manifest is alone
on disk when COMMIT acknowledges it. The last three theorems are each inductive
once `IInv` is known: `ContentsApart` (what a run is about to activate, or a
power loss may bring back, repeats no content of the ACTIVE rows), `HistoryKept`
(rows of the transaction are as explained as the committed ones) and
`FlagsTellTheTruth` (the mutation flags are those of the files that exist).

For the refinement, a generation that was ever visible is shown never to change
its content (`ContentKept`: a backup writes a file nothing names), so what
readers see goes by the names of generations (`SeenByName`), and each kind of
step is matched with a step of the promise: the rename with `Show`, the fsync
of its directory with `Persist`, COMMIT with `Acknowledge`, a power loss with
`Revert`, the removal of the manifest with `Show`. The steps are matched by names
first (`ByName`, `StepByName`), without a word about what is complete, because
the collector's proof uses the same match.

### Collector: `GenerationGcProofs`

Of `GcSpec`, publisher and collector together, as general as the above:

| Theorem | Property |
|---|---|
| `GcTypeCorrect` | `GcTypeOK` (in no run) |
| `PinsAreKept` | `PinnedIsKept` |
| `NamedStays` | `NamedIsKept` |
| `ProofOutlives` | `MetadataOutlivesDatabase` |
| `DeletedStays` | `DeletedIsGone` (in no run) |
| `HandlesSurviveCollection` | `PreparedIsUntouched` |
| `RecordsSurviveCollection` | `HistoryExplainsActive`, `AcknowledgedSurvives` |
| `NothingLostWithCollector` | `NoLostUpdate` |
| `ServedUntilPowerFails` | until the power first fails, what the manifest names and the catalog offers is complete and durable |
| `CollectedKeepsNames` | `GcSpec` implements `SnapshotStore` if a snapshot goes by the name of its generation (`ByName`) |
| `CollectedKeepsPromise` | `PromiseUntilPowerFails` (in no run) |

`IInv` is the conjunction of `Core`, which does not mention what a generation
looks like once it is named, and `NamedIsDurable`, which a collector may break.
A publication's step keeps `Core` whoever else runs, so its proof is used again,
and `GcInv` adds what the collector needs: what each deletion has removed by the
time it reaches a phase and that its victim is neither active nor named
(`DeletionProgress`), that a generation in the middle of a deletion has its
metadata as long as it has its database (`RemainsOnDisk`), that pinned
generations are ACTIVE in both the committed and the pending rows (`Pins`), and
`ServedSoFar`.

The last two say that a reader does not notice the collector. By names the
promise is kept for good: no step of a collector touches the manifest, what a
power loss may bring back, or what was acknowledged. That what is named can also
be read is `ServedSoFar`, which holds until the power first fails; until then
`Snapshot(manifest)` is what the name stands for (`ShownByName`), and each step is
one of the promise. `PromiseUntilPowerFails` is in no run because the runs have
enough to do; TLC finds no violation on the instance of `GcRace`.

Three theorems of `Spec` are not claimed of `GcSpec`.

* `ManifestTargetSurvives` is false of it where callers expect what the manifest
  names (`ExpectedSource = "manifest"`; with two crashes and revisions up to 3,
  TLC finds it in a minute). One process has published and lists orphans; a
  second one links its files, renames the manifest and dies before the directory
  is synced; a third run does the same. The first process finds the files of the
  second in neither manifest nor catalog and unlinks them, and the manifest that
  names them may still be what is on disk. The model leaves a rename unsynced
  for as long as it likes and has no ages; the code takes no final file for an
  orphan that is younger than `PROMOTION_TEMP_GRACE_MS`
  (`generation-gc.ts:1789`, `2048`), by which time a file system has normally
  written its directory back. So no defect is claimed, and `NamedIsKept` and
  `ServedUntilPowerFails` say what holds without that argument. With
  `ExpectedSource = "cas"` a second rename cannot happen (`StoreWedged`), and
  TLC finds no violation on that instance.
* `StoreKeepsPromise`, beyond the first power failure, for the same reason.
* `OneActivePerContent` rests on what a power loss may bring back being
  complete. TLC found no violation with the collector as far as it went; no
  claim is made.

### Assumptions, and what is only model-checked

Assumed are only the named assumptions on the constants: ids and processes are
not `None`, thread names differ from slots, the bounds are numbers, there is a
version besides the absent one, calls and couplings are between files, the files
are a finite sequence, a table has finitely many rows, the calls of a client have
their arguments, the default limit is positive.

These stay with TLC:

* liveness (`DirtyTreeIsIndexed`, `ShutdownCompletes`, `EveryRunFinishes`,
  `DeletionCompletes`, `StoreHeals`): fairness and ENABLED are out of the
  prover's reach;
* `SameEdges` and `OnlyChannelsClash` of `ParallelPipeline`: the graphs are
  folds, over sequences, of operators that are parameters of the module
  (`CommandsOf`), and what such a fold computes the provers cannot reach;
* everything of `GraphPasses`, `Cypher` and `QueryMeaning`, and `TraceListsTheNearest`
  and `ClustersAreConnected` of `McpServer`: what they say is what recursive
  definitions compute (paths, queries, the community search), and those modules
  reach RECURSIVE operators, in whose presence arithmetic cannot be proved.

## 5. Mutants

Definitions introduced by "A bug:" or marked "(mutant of X)" are not part of the
model. Each is a variant of the definition that follows it - a missing fsync, a
check that is not repeated under the lock, a capture that forgets a type - used
to confirm that the property named in `PROJECT.json` notices it.

## 6. Stated, but in no run

These formulas of the modules say what a document, a comment or a test promises
and the code does not keep. To see the counterexample put the formula under
INVARIANT or PROPERTY of the named configuration.

| Formula | Configuration | The promise, and what happens |
|---|---|---|
| `PreparedOnlyIfManifestUntouched` | `EverythingFinishes`, `MaxFaults = 2` | "Only revert to PREPARED if NO visible mutation happened" (`v2/src/storage/generation-publisher.ts:2347`): deduplication, a staging file that could not be removed, and a failing directory fsync after the rename set no flag. |
| `RetentionHonoured` | `GcRace`, `RetainCount = 1` | "Keep the active generation plus the two most recent previous generations" (`v2/docs/architecture/ATOMIC_GENERATION_PUBLICATION.md:947`): the plan reads manifest and rows one after the other without a lock. |
| `RecoveredIsRetained` | `GcRace`, `RetainCount = 1` | the same: previous generations are counted from PUBLISH rows; one whose publication a recovery completed has a RECOVER row only. |
| `StalePlanDeletesNothing` | `GcRace` | "If the CAS revision changed since the plan was made -> GC_PLAN_STALE, zero deletions" (`v2/src/storage/generation-gc.ts:37`): the revision is compared once and without the lock. |
| `FailureIsReported` | `ServerThreads` | The loop that reaps an index job keeps the child's status in an inner variable (`http_server.c:863`), so a failed job is shown as done (`889`). |
| `WatcherRetries` | `ServerThreads` | "Watcher will retry on next poll cycle" (`main.c`, `watcher_index_fn`): a skipped run is reported as success and the HEAD read before it is kept; a commit is not looked at again. |
| `PolledIsAlive` | `ServerThreads` | "Defer free: the state may still be referenced by a poll_once snapshot" (`watcher.c:336-338`): true of `cbm_watcher_unwatch`; `cbm_watcher_watch` frees the entry it replaces at once (`309-314`), and a second `initialize` during a poll gets there. |
| `FreedWatcherIsNotUsed` | `ServerThreads` | "Free the watcher. Precondition: cbm_watcher_stop() + thread join must have completed" (`watcher.h:37-38`): `main` joins the watcher's thread, but an auto-index thread still registers its project with the freed watcher (`main.c:672-674`, `mcp.c:5411`). |
| `StaleFilesAreReparsed` | `IndexPipeline` | "changed[i] = true if files[i] needs re-parsing" (`pipeline_incremental.c`, `classify_files`): a file edited between extraction and the writing of its row, or one whose extraction failed, gets a row that matches the disk. |
| `FoldersKeepFiles` | `IndexPipeline` | "structural containment edges (CONTAINS_FILE, CONTAINS_FOLDER) [...] are preserved precisely by this snapshot" (`pipeline_incremental.c:351-354`): the folder of a package carries the path of one of its files, is purged with it, and the capture leaves out edges of a changed source. |
| `AcknowledgedAdrIsRead` | `ServerCalls` | "`manage_adr` persists architectural decisions across sessions" (`v1-reference/README-V1.md:157`): an update that is answered while a full run is at work is overwritten by the record the run saved at its start; `manage_adr` takes no lock. |
| `SelfEdgeIsACall` | `ParallelPipeline` | "direct self-recursion" (`pass_complexity.c:126-128`): the URL found among a call's arguments makes an edge of the function to itself (`pass_parallel.c:2036-2045`). |
| `ChannelsStayChannels` | `ParallelPipeline` | "unique across buffers" (`graph_buffer.h:53`): channels are numbered by the main buffer while the workers draw from the shared counter, and an edge to a channel may end at another node. |
| `DirectoriesStay` | `ParallelPipeline` | A module does not downgrade a directory (`graph_buffer.c:651-659`): the merge of buffers does (`1113-1121`). |
| `SparseComparesWords` | `GraphPasses` | "parallel arrays of (token_index, weight)" (`semantic.h:131`): the index stored is the position in the function (`pass_semantic_edges.c:610-616`). |
| `RatingIsUpperBound` | `GraphPasses` | "an upper bound" (`pass_complexity.c:6-9`): what a cycle cut short is memoised. |

Some statements hold and are left out of the runs because others say more:
`DeletedIsGone` and `GcTypeOK` of `GenerationGc`, `SlotsAreExclusive` and
`TypeOK` of `ServerThreads`, `ManifestTargetSurvives` of
`GenerationPublication`, `PromiseUntilPowerFails` of `GenerationGc` (these are
all proved), `TypeOK` of `IndexPipeline` and
of `ParallelPipeline`.

## 7. Departures the models show without a formula

Sequential and parallel runs over the same files differ: an interface base is
IMPLEMENTS in one and INHERITS in the other; throws outside a function,
environment variables and FastAPI dependencies are found by the sequential run
only; URLs among the arguments of other calls, routes told from a callee's
suffix and HANDLES of decorated routes by the parallel one only; a target the
language server names but the graph lacks is dropped by one and resolved by name
in the other; of two imports of one name the last wins in one and the first in
the other; of two definitions of one qualified name the last merged worker's
stays. `SameEdges` compares the edge types both claim to make.

Cypher: DISTINCT is applied after LIMIT (`cypher.c:4376-4380`); UNWIND is parsed
and never run; tokens after the last clause are ignored; collect() in WITH
counts; `--` begins a comment, so an undirected pattern without brackets is cut
off; an optional pattern loses its row at the second hop; a second pattern
without a shared variable joins ten rows; a variable hop binds its target anew.

MCP: deleting a project removes the file of its name, after which the same
project may be answered from another file that holds nothing else
(`FallbackScan`): `DeletedStaysDeleted` allows just that. A decision record of a
project that lives in a file of another name is lost when that file's own project
is indexed again, in full or not: a full run saves and restores the record of the
file's own project only (`OwnRecord`). A hint taken from a regular
expression with `?` or `|` makes LIKE conditions that are too strong
(`store.c:2281`). An edge whose source is purged in an incremental run is found
again, but not one of a pass that an incremental run does not repeat.

## 8. What is only model-checked, and what is not modelled

Section 4 ends with what is only model-checked, and why.

Not modelled: in the C engine, parsing (an input), vector search, cross-project
links, package manifests, infrastructure and environment scans, directory walk
and git, the installer and the command line, allocators and containers, the
layout of the graph UI, sections of decision records in `store.c`, compression
of the artifact. A freed watcher or state is followed to what its own thread does
with it, not to the damage it may do elsewhere in the heap; failing allocations
(and the immediate free `cbm_watcher_unwatch` falls back to) are left out. In
`McpConnections`: two processes that index one project at once, the artifact an
`index_repository` may start from, the node count that makes its answer
"degraded", and a write of `manage_adr` that fails. In the TypeScript program, the indexer (its result is a
content), the auto-index guard, index-job routes, project registry and caches,
hub and vault watcher, the human memory store, MCP routing, reports and CLI;
path validation, symlink refusal and identity checks of opened files, which
guard against an environment that changes files behind the store's back.

Worth doing next: the auto-index guard with several processes, stale takeover
and forced exit; the registry's leases on top of readers that hold a generation
open while it is collected; the connections of `McpConnections` with the files
as `IndexPipeline` writes them, step by step, instead of in two.
