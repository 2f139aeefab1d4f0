# TLA+ models of BonsaiDb

This directory holds TLA+ specifications of the concurrent parts of this BonsaiDb tree (`src/`), with the TLC configurations that check them. `PROJECT.json` is the machine-readable index. It lists:

- every component and whether it is modelled;
- every run, with its cfg and expected result;
- every mutant;
- the map from each definition to the source lines it translates;
- the findings;
- the hazards of the code.

## 1. The system and how its parts interact

| Part | Source | What it does |
|---|---|---|
| Storage instance | `crates/bonsaidb-local/src/storage.rs` | Holds three maps, each behind its own lock. `schemas` (RwLock) maps a schema name to its opener. `available_databases` (RwLock) maps a database name to its schema; it is the in-memory copy of the admin database's `DatabaseRecord` collection. `open_roots` (Mutex) maps a name to the open nebari roots, and opening the roots creates the database's directory. It also holds the authenticated sessions, the server subscriber table, and the optional page codec `TreeVault`. `assume_user` puts an `Arc<AuthenticatedSession>` of each new session into the session table and returns a `Storage` holding a clone. When the last `Arc` drops, `AuthenticatedSession::drop` removes the session and its subscribers, if the instance is still alive; it reaches the instance through a `Weak` reference. |
| Key-value engine | `crates/bonsaidb-local/src/database/keyvalue.rs` | Every key operation runs on the blocking pool as a compare-and-swap loop on the `kv` tree. Set and delete then send an `ExpirationUpdate` to a single `expiration_task`. That task keeps `tracked_keys` and a deadline-ordered `expiration_order`, and removes due keys in a blocking batch. When a database opens, the `ExpirationLoader` job scans persisted entries and re-registers their expirations, concurrently with callers. |
| Client | `crates/bonsaidb-client/src/client.rs`, `client/src/client/quic_worker.rs` | Callers take an id from an `AtomicU32` and queue a `PendingRequest`. A worker task connects, spawns a reader, sends each request and records its responder in `outstanding_requests`. The reader removes the responder of each response. A failed connect or initial send is answered with an error. Other failures drop the map and the responders in it. The caller keeps its own copy of the responder's sender, so dropping a responder does not wake it. |
| View tasks | `crates/bonsaidb-local/src/tasks.rs`, `local/src/views/integrity_scanner.rs` | Before a view query, `update_view_if_needed` runs an integrity check and then brings the view up to the current transaction. The `TaskManager` keeps two in-memory statuses behind one RwLock: `completed_integrity_checks` and `view_update_last_status` (the last transaction a mapper indexed). The check runs as an `IntegrityScanner` job. The job invalidates documents missing from the view's document map (all of them if the view's code version changed), waits for a `Mapper` job, and marks the check complete. Jobs go through the job manager's `lookup_or_enqueue`, which joins a queued or running job of the same key. |
| Tokio file | `roots/src/async_file/tokio.rs` | `TokioFile` remembers a `position` and, in `read_at` and `write_at`, seeks by the difference between the requested position and that one. `TokioFileManager` hands every task appending to a path one cached handle behind a mutex, and opens a fresh handle for every reader. Each file operation runs under the handle's mutex. |
| PubSub trait | `core/src/pubsub.rs` | A trait delegating to the circulate `Relay`. |
| Test | `bonsaidb/tests/custom-api.rs` | An integration test. |

How the parts depend on each other:

- The storage instance opens databases, and so also opens their key-value engines.
- The page codec is installed into every `open_roots` call, so it encrypts and decrypts every page those roots write and read.
- The client reaches the same storage through the server. The server is not part of this tree.
- View tasks run on the job manager of the storage instance, and read the database's last transaction id and the trees that document commits invalidate.

## 2. Modules

| Module | Models | State (VARIABLES) | Actions |
|---|---|---|---|
| `KeyValue` | keyvalue.rs: execute_key_operation and its set, get-delete, delete, increment and decrement paths; `fetch_and_update_no_copy`; `expiration_task`; `ExpirationLoader` | `tree`; the update channel `updates`; the task's `tracked`, `order`, `toRemove` and its program counter (looping, waiting, removing); the loader's scan, queue and wait; per caller, `pc`, `op`, the compared value `current` and the set closure's `entryExp`, `updated` and `inserted`; the clock `now` | `ExecuteSetOperation`, `FetchAndUpdate` (one closure call plus one CAS; a conflict retries), `SetNotify`, `ExecuteGetOperation` and `ExecuteDeleteOperation` (`RemoveKey`), `RemoveNotify`, `ExecuteNumericOperation`, `NumericCas`, `ExpirerWait`, `ExpirerReceive`, `ExpirerTimeout`, `ExpirerExpire`, `ExpirerRemoveKey`, `LoaderScan`, `LoaderForward`, `Tick` |
| `ClientWorker` | client.rs `send_request` and the id branch of `process_response_payload`; quic_worker.rs `reconnecting_client_loop`, `connect_and_process`, `process_requests` and `process` | `nextId`; per request, its id and result; the request channel `queue`; the worker's `wpc` and `initial`; `outstanding` (id to request); the connection; requests the server holds; the response stream; the reader; a failure count | `SendRequest`, `ReceiveInitial`, `ConnectFailed`, `Connected`, `SendInitial`, `InsertInitial`, `ServeRequest`, `JoinFailed`, `ReadResponse`, `ReaderEnds`, plus the environment's `ServerRespond` and `ConnectionLost` |
| `StorageRegistry` | storage.rs `create_database_with_schema`, `delete_database`, `database_without_schema` with `open_roots`, `register_schema`, and `Storage::open` (cache of the ByName view, admin database) | `schemas`, `available`, the admin `records`, `openRoots`, directories `dirs`, the write-lock holders `schemasW` and `availW`, per-thread `pc` and `arg`, and the count `faults` of failed I/O calls | One action per critical section or lock acquisition: `CreateBegin`, `CreateLockAvail`, `CreateAdmin`, `DeleteBegin`, `DeleteLockAvail`, `DeleteLockRoots` (which also takes the early returns of a failed `delete_directory` or ByName query, up to `MaxFaults` of them), `OpenBegin`, `OpenLockSchemas`, `OpenRoots`, `RegisterSchema` |
| `ViewTasks` | tasks.rs `update_view_if_needed` (one step per await), `spawn_integrity_check`, `view_integrity_checked`, `mark_integrity_check_complete`, `mark_view_updated`; integrity_scanner.rs `IntegrityScanner::execute`. Modelled from the specification: `lookup_or_enqueue`, the `Mapper` job and document commits | the store: `lastTx`, `docs` (revision = id of the last transaction writing it), `docMap`, `invalidated`, `viewVersion`; the statuses `completed` and `lastIndexed`; the two jobs `scan` and `mapper`; the set `workers` of jobs holding one of the `WorkerCount` workers (`TakeWorker` when a job starts, `ReleaseWorker` when it finishes); per caller `pc`, `waitFor`, the resolved handles `scanResolved` and `result`, and the history `callSnap` | `Call`, `CheckIntegrity`, `EnqueueScan`, `ScanReceived`, `ReadTx`, `CheckStatus`, `EnqueueMapper`, `MapperReceived`, `Return`; `ScanRead`, `ScanCommit`, `ScanEnqueueMapper`, `ScanMapperReceived`, `ScanFinish`; `MapperStart`, `MapDoc`, `MapperFinish`; the environment's `Commit` |
| `ViewFreshness` | the specification's View freshness law, as an abstract specification | `lastTx`, `docs`, `index`, per caller `apc` and `snap` | `Commit`, `Call`, `IndexDoc` (map a document's current revision with the current code), `Return` (only when the index covers `snap`) |
| `TokioFile` | tokio.rs `TokioFile::read`, `append`, `read_at`, `write_at`; `TokioFileManager::append` and `read`; `OpenTokioFile::execute` and `close` | `disk` (path to contents); `appender`, the manager's `open_files`; per task `reader`, `pc`, `path`, and the history `lastRead`. A handle is the code's `position` and the `offset` of its file description | `ManagerAppend`, `ManagerRead`, `ReadAt`, `WriteAt`, `Close` |
| `Sessions` | storage.rs `assume_user`, `Storage` clone and drop, `AuthenticatedSession::drop` with its two locks, the teardown of `Data`. Modelled from the specification: the server's subscriber creation | `alive` (Data exists), `lastSessionId`, `table` (ids whose `Arc` the table holds), `handle` per holder, `dropPc` per session, the subscriber tables `subSession` and `bySession`, `lastSubId` | `Open`, `AssumeUser`, `CloneHandle`, `DropHandle`, `Teardown`, `DropSession`, `DropSubscribers`, `CreateSubscriber` |
| `PageCodec` | storage.rs `TreeVault`: `new_if_needed`, `header`, `encrypt` and `decrypt` in the three builds | the configuration, the payload, the stored page, the result, the reading build | `WritePage`, `ReadPage`, `ReadPageWithoutEncryption` |

Each `MC*` module declares the model values and finite sets that a cfg substitutes for the CONSTANTS.

### Abstractions

- **Key-value store.** A full key is a model value, because `full_key` is a bijection. The expiration task reads `now` before it waits for an update or the next deadline (keyvalue.rs:454), and pops the keys due at that stale `now`. `ExpirerWait` is that read when the front deadline is still ahead. When the wait ends by timeout, the pop uses that earlier `now`, which is before every tracked deadline, so the batch is empty (`ExpirerTimeout`) and the loop reads the clock again. When the front is already due, nothing is awaited between the read, `try_recv` and the pop, so `ExpirerExpire` is one step against the `now` it read. A `Numeric` is an `UnsignedInteger` of `NumWidth` bits, and the amount is 1. Wrapping is modelled `% 2^NumWidth` and saturation at `2^NumWidth - 1`, as `wrapping_add` and `saturating_add` do at 64 bits. A timestamp is a tick of a bounded clock.
- **Storage registry.**
  - A read lock taken and released within one step is a guard that no writer holds it.
  - Every `open_roots` critical section is one step, so that mutex is not a variable.
  - Names are model values. `Lower` gives each name's `to_ascii_lowercase()` key, and `ValidNames` the names `validate_name` accepts.
- **Page codec.** A page is a sequence of symbols: a byte, an opaque LZ4 block, an opaque vault payload, or a run standing for the rest of a long page. Only the leading bytes and the length decide what the codec does. lz4_flex and the Vault are outside this repository and are modelled from the specification, marked `spec_modelled` in the map:
  - compression wraps a page, and decompression unwraps it or fails;
  - the vault wraps a page, and unwraps it, or passes through bytes that do not parse as a vault payload.
- **View tasks.**
  - The statuses of different (database, collection, view) keys never interact, so the model has one key.
  - Init is any persisted state a previous process can leave. The in-memory statuses start empty. The view version may be missing, old or current. If it is current, a document whose entry is out of date is invalidated, because a commit writes a document and invalidates it in one transaction.
  - Runs of one job key are sequential. When a run finishes, every handle still waiting on that key belongs to the run, and the finishing step resolves them all.
  - The `Mapper` follows the specification's contract. It reads the last transaction id, drains the invalidated documents it saw, one transaction per document, then calls `mark_view_updated` and returns the id.
  - The refinement maps `docMap` to the abstract `index`, a caller's `pc` to Idle or Busy, and `callSnap` to `snap`. `callSnap` is a history variable: the documents when the call began.
- **Sessions.** An `Arc`'s strong count is computed as `Strong(i)`: one for the table's entry plus one per holder whose handle is the session. A holder is an application variable that may hold a `Storage`. Every `Storage` keeps the instance alive, so `Data` is dropped only when no holder has a handle. Subscribers are created by the server, which is not in this tree; that step is modelled from the specification.
- **Tokio file.** A file is a sequence of small byte values. The operating system is modelled by what it does: a file opened by `File::open` or with `append(true)` starts at offset 0; a write on an append-mode file goes to the end whatever the offset and leaves the offset there; `SeekFrom::Current` to a negative offset fails; a read or write may move fewer bytes than asked, and a read moves none only at the end of the file. tokio's buffering is not modelled, because every operation waits for the previous one on the same handle. The caller, the append-only tree store outside `src/`, reads inside the file and writes at its end.

## 3. Runs

TLC is run as `tlc -workers 2 -config <cfg> <MC module>`.

| Run | Cfg | Expect | What it checks |
|---|---|---|---|
| kv_safety | MCKeyValue_safety.cfg | pass | Two callers doing plain sets (every expiration, both keep values), numeric updates and deletes, the expirer and the loader over two keys. Checks that the expiration index stays consistent (`ExpirationIndexConsistent`), that the task never starts a wait or finishes an expiry while a tracked key is due at the `now` it read (`ExpirerLeavesNoDueKey`, which depends on `expiration_order` being sorted by deadline), and that no numeric update is lost (`NumericUpdateAtomic`). About 0.9M distinct states, under the key-and-process symmetry. |
| kv_expirer_race | MCKeyValue_expirer_race.cfg | violation | `ExpirerRemovesOnlyExpired`: the expirer deletes an entry that was set without expiration. |
| kv_set_retry | MCKeyValue_set_retry.cfg | violation | `SetOutcomeMatchesWrite`: a retried set inserts with an expiration it was not given (keep option), or reports a write it did not make (`OnlyIfPresent`). |
| kv_notify_order | MCKeyValue_notify_order.cfg | violation | `ExpiredEventuallyRemoved` with two callers: out-of-order updates leave an expired entry forever. |
| cw_hang | MCClientWorker_hang.cfg | violation | `EveryRequestAnswered`, on a network that never fails. The initial request's response overtakes its insertion and the reader panics. `try_join` then drops the map, and the caller waits forever. |
| sr_case_delete | MCStorageRegistry_case_delete.cfg | violation | `RegistryMatchesRecords`: `available_databases` stops matching the admin records when `delete_database("DB")` deletes the record of `db`. |
| sr_open_delete | MCStorageRegistry_open_delete.cfg | violation | `RootsOnlyForRegistered`: an open racing a delete recreates the deleted database's roots and directory. |
| ss_leak | MCSessions_leak.cfg | violation | `SessionRemovedWithLastHandle`: after the last handle of a session drops, the session stays in the table for as long as the instance lives. |
| vt_views | MCViewTasks.cfg | pass | Two callers, the scanner and mapper jobs, and a commit racing them, from every persisted state with a missing, old or current view version. Checks that the watermark the fast path trusts is sound (`IndexedWatermarkSound`). Checks that the calls implement the View freshness law (`ViewFreshnessSpec`, the abstract `ViewFreshness!Spec`), and that every call returns (`EveryCallReturns`). There are two workers, enough for the scanner and the Mapper it waits on. About 170k states. |
| vt_pool | MCViewTasks_pool.cfg | violation | `EveryCallReturns` with one worker: the scanner holds it while it waits for the Mapper, which never runs. |
| pc_codec | MCPageCodec.cfg | pass | The compression-with-encryption and compression-only builds. Pages of 0 to 4, 127, 128 and 4096 bytes round-trip, except raw pages that begin with `trv`. A keyed page read by the compression-only build fails with `EncryptionDisabled`. |
| tf_reopen | MCTokioFile_reopen.cfg | violation | `ReadAtReadsPosition`: an append handle opened on a file that already holds data reads from the wrong place. |

Each property of a passing run has a mutant in `PROJECT.json`. A mutant is a plausible bug in a mapped definition, written as an operator just above that definition. TLC finds the property violated when the mutant replaces the definition. Examples:

- an increment without the modulus;
- a CAS without the compare;
- a new deadline inserted before the first later one instead of after the last earlier one, which leaves `expiration_order` unsorted;
- a new deadline inserted without removing the old one;
- a scan that ignores the view version;
- a caller that leaves the mapper loop after one run;
- a strict `<` in the loop's exit test;
- a header without the key bit;
- a decrypt that ignores the encrypted bit.

### Findings (details in `PROJECT.json`)

1. **keyvalue.rs:486.** The expirer removes popped keys unconditionally. A set without expiration, or a stale loader update, makes it delete a live entry.
2. **keyvalue.rs:163.** `updated`, `inserted` and the kept expiration survive a failed CAS attempt. In TLC's trace, a set without expiration that keeps the existing expiration copies the old deadline. The expirer removes the key, and the retry inserts a fresh entry carrying that stale, already-due deadline and reports `Inserted`. With keep off, the same bug shows as a retried `OnlyIfPresent` set that returns `Updated` and sends an update though it wrote nothing.
3. **keyvalue.rs:181 and 244.** Expiration updates are sent after the commit, with no order across callers. An expired entry can stay forever, against the specification's KV expiration liveness.
4. **quic_worker.rs:88.** The initial request is sent before it is inserted. The reader can panic on `missing responder` (client.rs:857). `MCClientWorker_initial_race.cfg` shows the panic alone (`ReaderNeverPanics`, 8 states). `cw_hang` follows it on to the hang of finding 8.
5. **storage.rs:598.** A check-then-act race between `database_without_schema` and `delete_database` recreates a deleted database's directory and roots.
6. **storage.rs:691.** `assume_user` stores a strong `Arc` of the session in the session table. The table's reference keeps the strong count at one or more, so `AuthenticatedSession::drop` never runs while the instance lives. Sessions and their subscribers then accumulate, against the specification's "dropping the last handle removes the entry and cascades". TLC shows the leak in a trace that drops the last handle and then stutters. With the table's reference not counted, so that the table holds a `Weak`, the same configuration passes (1,028 states).
7. **tokio.rs:52.** `TokioFile::append` sets `position` to the file's length, but the file opened with `append(true)` is at offset 0. Before any write, `read_at(p)` seeks by `p - length` from offset 0. For `p` below the length the seek is negative and fails, as TLC finds in three states. For `p` equal to the length no seek happens and the read returns the file's first bytes. The first `write_at` puts the two back in step. With `InitFiles = {NoFile}` (every file created by this process), the same configuration passes: 109,073 states, two tasks sharing the appender with short reads and writes.
8. **client.rs:452.** `send_request` gives the worker `result_sender.clone()` and keeps `result_sender` alive across its await. A flume receiver errors only when every sender is gone. So a `PendingRequest` that the worker drops never wakes its caller, and the call hangs. Such drops come from a map dropped after a panic, a lost connection or a failed send, and from an entry replaced under a reused id. The specification says in-flight callers get `Disconnected`.
9. **storage.rs:871.** `delete_database` removes the registry entry and the open roots by the exact name, but finds the admin record by the lowercased name. Deleting `DB` while `db` exists deletes the record of `db` and leaves `db` registered, so `RegistryMatchesRecords` (the registry mirrors the admin `DatabaseRecord`s) fails in `sr_case_delete`. `MCStorageRegistry_delete_fault.cfg` (`MaxFaults = 1`) breaks the same invariant another way in 4 states: a failed `delete_directory` or ByName query returns early (storage.rs:866-868, 874-877) after the registry entry is gone and before the record is deleted.
10. **integrity_scanner.rs:141.** The scanner awaits the Mapper job while it holds a worker of the job manager, and storage.rs:273 starts a fixed `worker_count` of workers. In `vt_pool` (one worker) the scanner takes the worker, enqueues the Mapper and waits; the Mapper never runs and the caller never returns. With more workers the same happens once every worker holds a scanner of some view.

Further disagreements with the specification are hazards, without violation runs:

- Integrity dedup (tasks.rs:122). The specification says concurrent calls cause exactly one `IntegrityScanner` execution. Checking `IntegrityScannedOnce` under `vt_views`'s cfg finds a second execution in 9 steps:
  1. Caller 1 enqueues the scan.
  2. Caller 2 tests `completed_integrity_checks` and sees it incomplete.
  3. The scan finishes.
  4. Caller 2's `lookup_or_enqueue` finds no job and queues a new one.

  The second scan only repeats work, and `vt_views` shows freshness survives it.

- Request ids wrap (client.rs:445). The specification says ids are unique per connection, but `request_id` is an `AtomicU32`. `MCClientWorker_id_wrap.cfg` uses an id space of 2. There `ResponseMatchesRequest` (every answered request got the response to itself) fails in 12 states: the third request reuses id 0 while the first is outstanding, replaces its map entry, and receives its response. With 2^32 ids the case needs 2^32 requests in flight, so no run is kept.
- `delete_database` accepts the admin database;
- pages of the encryption-only build carry no header, so a build without encryption returns their ciphertext instead of `EncryptionDisabled`;
- raw pages under 128 bytes that begin with `trv` do not round-trip (storage.rs:1418). `MCPageCodec` with `Builds <- MCBuilds` and `INVARIANT RoundTrip` (the specification's round-trip for every page) fails in three states: a write and a read of such a page. `pc_codec` checks `RoundTripUnlessRawTrv`, the round-trip of every other page.

## 4. Bounds and why they suffice

| Run | Bounds |
|---|---|
| kv_safety | Two keys, two callers, two operations in total, deadlines in {1, 2} with a clock up to 2, 1-bit numbers. Sets are plain (`SetChecks = {None}`). A set with a check writes and sends an update only in a subset of the cases a plain set does. A kept expiration sends the same update as a plain set with that expiration. So plain sets already produce every sequence of (key, expiration) updates and tree writes these three properties can see. kv_set_retry exercises every check and keep option. Symmetry permutes keys and callers together; it is used only here, where every property is a safety property. |
| cw_hang | Three requests, four ids, no failures: the hang needs no fault of the network. |
| vt_views | Two callers, one call each. Two documents with revisions up to transaction 2 when the database opens, and one commit after. View versions {1, 2}, with 2 current. Two workers. |
| vt_pool | As vt_views, with one worker. |
| sr_case_delete, sr_open_delete | Two threads over `db`, `DB` (case_delete) or `admin`, `db` and an invalid name (open_delete); no I/O faults (`MaxFaults = 0`), so the violations need no failing disk. |
| ss_leak | Two holders, two sessions, two subscribers. |
| tf_reopen | One path, missing or holding two bytes; two tasks; reads of 1 or 2 bytes; writes of 1 or 2 bytes; files up to 4 bytes. |
| pc_codec | Pages built from the bytes that matter: `t`, `r`, `v`, 1 (LZ4), 128 (encrypted), 0. Up to four leading bytes, then a run giving 127, 128 or 4096 bytes. |

Why these bounds are enough:

- **Key-value store.** Every race found needs at most two callers and two operations. Two keys let expiration_order hold two deadlines in either order, equal deadlines included. A 1-bit number reaches both the wrap and the saturation.
- **Client.** Three requests let a request be initial, served or queued across a reconnect.
- **Storage registry.** Two threads give every pair of a create, a delete, an open and a registration. Each violation needs at most two threads.
- **View tasks' pool.** Two workers are the fewest that let the scanner and the Mapper it awaits run together, so `vt_views` checks the protocol without the pool's deadlock; `vt_pool` shows that deadlock with one.
- **View tasks.** Two callers let one join the other's scan or mapper run, pass the integrity test while the other's scan runs, or take the fast path after the other's mapper. The commit can land between any two steps of a call or a job. It can come before or after a mapper reads its transaction id, and that makes the loop in `update_view_if_needed` run again. Two documents let one be mapped while the other is not, with old, current or missing entries.
- **Sessions.** Two holders let a session's handle be cloned and dropped in either order, and let the instance die while a session lives. Two sessions let one drop while another is alive. Two subscribers let one be bound to a session and one be anonymous.
- **Tokio file.** Two tasks let the cached appender be shared and a reader coexist with it. Two initial bytes give a read position below the length, at it, and a short read within the file.
- **Page codec.** The leading bytes cover every branch of `decrypt`, and the sizes are the specification's round-trip sizes below 1 MiB. 1 MiB behaves as 4096.

## 5. Fairness

- **Key-value store.** Weak fairness on each caller's steps once an operation has started: it runs to completion on the blocking pool. Also on the expiration task, the loader and the clock, because the runtime keeps scheduling them. Starting an operation is the caller's choice and is not fair.
- **Client.** Weak fairness on the worker, the reader and the server's responses. Callers, connect failures and lost connections come from the environment and are not fair.
- **Storage registry.** None: its runs check invariants only.
- **Sessions.** Weak fairness on `DropSession` and `DropSubscribers`: a drop runs to completion in the thread that dropped the last `Arc`. Opening, cloning and dropping handles, teardown and subscriber creation are the application's choice and are not fair.
- **Tokio file.** None: `tf_reopen` checks an invariant only.
- **View tasks.** Weak fairness on each caller's steps and on the job workers. They are tokio tasks that keep being polled, and a free worker of the job manager takes every queued job. A job's first step is enabled only while a worker is free, so fairness does not assume a worker appears: with every worker held, the job is simply never enabled. Calls and commits come from the application and are not fair.

## 6. Not modelled, and why

- **Client subscriber map and unsolicited payloads** (client.rs:497-512, 860-891). Each is one critical section on a mutex-protected map. What a property could say about them depends on the server: which pushes it sends, when it stops after `UnregisterSubscriber`, and what it does with a subscriber when the connection drops. The server is not in this tree. The map also survives a reconnect while the server's subscribers do not; that is recorded as a hazard.
- **The `server-id` file** (storage.rs:359-405). `lookup_or_create_id` runs once, single-threaded, inside `Storage::open`. Its one hazard is a crash between `File::create` and a durable `write_all`, which depends on what the file system persists; it is recorded as a hazard.
- **Users, groups and permissions.** The administrative collections are outside the specification's scope.
- **The PubSub trait and the custom-API test.** Neither has behaviour of its own.
- **`spawn_key_value_expiration_loader` and `compact_collection`** (tasks.rs). Each only enqueues a job. The loader's work is modelled in `KeyValue`; the compactor is outside this tree.
- **The Mapper's code and the job manager.** Neither is in this tree. Both are modelled from the specification and marked `spec_modelled` in the map.
- **`TokioFile::flush` and `close`.** They move no position, and the model's `disk` is what the operating system shows every handle.
- **The growth of `open_files`.** Append handles are never evicted (tokio.rs:133). A bounded model cannot tell that growth from a correct cache, so it is a hazard.

## 7. Plan for later sittings

1. Done: `ViewTasks`, with the `ViewFreshness` refinement.
2. Done: `TokioFile`, with the reopened-appender violation.
3. `KeyValue` should be refined against an atomic key-value specification, with each compare-and-swap as the linearization point.
4. Done: `Sessions`, with the leak as a liveness violation.
5. `ClientWorker` and `StorageRegistry` have only violation runs; a passing run for each, under bounds that avoid the known bugs, should check a property the reproductions do not already decide.
6. A passing run for `Sessions` could check the specification's invariant that `subscribers_by_session[sid]` is exactly the subscribers of `sid`, together with the lock order of `AuthenticatedSession::drop`.
