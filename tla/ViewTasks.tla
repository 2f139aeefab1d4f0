------------------------------ MODULE ViewTasks ------------------------------
(***************************************************************************)
(* View maintenance of one view of one collection of one database:       *)
(* TaskManager (crates/bonsaidb-local/src/tasks.rs), the IntegrityScanner *)
(* job (local/src/views/integrity_scanner.rs), and, modelled from the     *)
(* specification because their code is not in this repository, the job   *)
(* manager's lookup_or_enqueue, the Mapper job and document commits.     *)
(*                                                                         *)
(* The statuses of different (database, collection, view) keys never      *)
(* interact, so one key is enough.  A document's revision is the id of    *)
(* the transaction that last wrote it; the document map records the      *)
(* revision and view version each document was mapped from.  Init is the *)
(* persisted state a previous process may have left: in-memory statuses   *)
(* are empty, and if the persisted view version is current, a document   *)
(* whose mapped entry is out of date is in the invalidated set (a commit *)
(* writes the document and invalidates it in one transaction).           *)
(***************************************************************************)
EXTENDS Naturals, FiniteSets

CONSTANTS
    Callers,      \* tasks calling update_view_if_needed
    Docs,         \* document ids of the collection
    Versions,     \* view versions (the view's code changed between them)
    CurVersion,   \* view.version() of the running code
    InitTx,       \* last transaction id when the database is opened
    MaxTx,        \* bound on transaction ids
    MaxCalls,     \* bound on calls per caller
    WorkerCount,  \* configuration.workers.worker_count
    NoEntry, NoStatus, NoVersion, NoResult

ASSUME /\ CurVersion \in Versions /\ InitTx \in Nat /\ MaxTx >= InitTx
       /\ MaxCalls \in Nat /\ WorkerCount \in Nat \ {0}

VARIABLES
    lastTx,       \* database.last_transaction_id() (0: None)
    docs,         \* doc -> revision (0: absent)
    docMap,       \* view document map: doc -> [tx, ver] or NoEntry
    invalidated,  \* view invalidated-documents tree
    viewVersion,  \* view-versions tree entry for the view
    completed,    \* completed_integrity_checks contains the key
    lastIndexed,  \* view_update_last_status[key], or NoStatus
    scan,         \* IntegrityScanner job: state, run, missing entries
    mapper,       \* Mapper job: state, run, txid read, documents to map
    workers,      \* the jobs that hold a worker of the pool
    pc, waitFor, scanResolved, result, calls,
    callSnap      \* history: docs when each caller's current call began

jobVars == <<scan, mapper, workers>>
callVars == <<pc, waitFor, scanResolved, result, calls, callSnap>>
storeVars == <<lastTx, docs, docMap, invalidated, viewVersion>>
statusVars == <<completed, lastIndexed>>
vars == <<storeVars, statusVars, jobVars, callVars>>

Existing == {d \in Docs : docs[d] > 0}
Entry(d, v) == [tx |-> docs[d], ver |-> v]

-----------------------------------------------------------------------------
(* Job manager (bonsaidb-jobs, modelled from the specification): a job   *)
(* whose key is queued or running is joined, sharing its output; else a  *)
(* new run is queued.  Runs of one key are sequential, so when a run     *)
(* finishes, every handle still waiting on that key is one of this run's *)
(* and is resolved with its output.                                       *)

LookupOrEnqueue(job) ==
    IF job.state = "None" THEN [job EXCEPT !.state = "Queued"] ELSE job

\* The pool has worker_count workers (storage.rs:273); a worker takes a
\* queued job when it is free and runs it to completion, awaits included.
TakeWorker(j) ==
    /\ Cardinality(workers) < WorkerCount
    /\ workers' = workers \cup {j}

ReleaseWorker(j) == workers' = workers \ {j}

-----------------------------------------------------------------------------
(* TaskManager statuses                                                   *)

view_integrity_checked == completed

\* spawn_integrity_check: when the check is not complete, enqueue (or join)
\* the IntegrityScanner.
spawn_integrity_check == LookupOrEnqueue(scan)

Init ==
    /\ lastTx = InitTx
    /\ docs \in {f \in [Docs -> 0..InitTx] :
                   \A d, e \in Docs : d # e /\ f[d] > 0 => f[d] # f[e]}
    /\ viewVersion \in Versions \cup {NoVersion}
    /\ docMap \in {m \in [Docs -> {NoEntry} \cup [tx : 1..InitTx, ver : Versions]] :
                     \A d \in Docs : m[d] # NoEntry =>
                        /\ m[d].tx <= docs[d] /\ m[d].ver = viewVersion}
    /\ invalidated \in {s \in SUBSET Existing :
                          viewVersion = CurVersion =>
                             \A d \in Existing :
                                (docMap[d] # NoEntry /\ docMap[d].tx < docs[d]) => d \in s}
    /\ completed = FALSE
    /\ lastIndexed = NoStatus
    /\ scan = [state |-> "None", runs |-> 0, missing |-> {}, mapDone |-> FALSE]
    /\ mapper = [state |-> "None", tx |-> 0, todo |-> {}]
    /\ workers = {}
    /\ pc = [c \in Callers |-> "Idle"]
    /\ waitFor = [c \in Callers |-> 0]
    /\ scanResolved = [c \in Callers |-> FALSE]
    /\ result = [c \in Callers |-> NoResult]
    /\ calls = [c \in Callers |-> 0]
    /\ callSnap = [c \in Callers |-> [d \in Docs |-> 0]]

-----------------------------------------------------------------------------
(* Document commits (modelled from the specification): one transaction  *)
(* writes a document and adds it to the view's invalidated set.          *)

Commit(d) ==
    /\ lastTx < MaxTx
    /\ lastTx' = lastTx + 1
    /\ docs' = [docs EXCEPT ![d] = lastTx + 1]
    /\ invalidated' = invalidated \cup {d}
    /\ UNCHANGED <<docMap, viewVersion, statusVars, jobVars, callVars>>

-----------------------------------------------------------------------------
(* update_view_if_needed, one step per await                              *)

Call(c) ==
    /\ pc[c] = "Idle" /\ calls[c] < MaxCalls
    /\ pc' = [pc EXCEPT ![c] = "Start"]
    /\ calls' = [calls EXCEPT ![c] = @ + 1]
    /\ callSnap' = [callSnap EXCEPT ![c] = docs]
    /\ UNCHANGED <<storeVars, statusVars, jobVars, waitFor, scanResolved, result>>

\* spawn_integrity_check's test, under the statuses read lock.
CheckIntegrity(c) ==
    /\ pc[c] = "Start"
    /\ pc' = [pc EXCEPT ![c] = IF view_integrity_checked THEN "ReadTx"
                                ELSE "EnqueueScan"]
    /\ UNCHANGED <<storeVars, statusVars, jobVars, waitFor, scanResolved, result,
                   calls, callSnap>>

\* The read lock is released: lookup_or_enqueue the IntegrityScanner.
EnqueueScan(c) ==
    /\ pc[c] = "EnqueueScan"
    /\ scan' = spawn_integrity_check
    /\ scanResolved' = [scanResolved EXCEPT ![c] = FALSE]
    /\ pc' = [pc EXCEPT ![c] = "AwaitScan"]
    /\ UNCHANGED <<storeVars, statusVars, mapper, workers, waitFor, result, calls,
                   callSnap>>

\* job.receive().await
ScanReceived(c) ==
    /\ pc[c] = "AwaitScan"
    /\ scanResolved[c]
    /\ pc' = [pc EXCEPT ![c] = "ReadTx"]
    /\ UNCHANGED <<storeVars, statusVars, jobVars, waitFor, scanResolved, result,
                   calls, callSnap>>

\* database.last_transaction_id(): with no transaction there is no data.
ReadTx(c) ==
    /\ pc[c] = "ReadTx"
    /\ pc' = [pc EXCEPT ![c] = IF lastTx = 0 THEN "Return" ELSE "CheckStatus"]
    /\ waitFor' = [waitFor EXCEPT ![c] = lastTx]
    /\ UNCHANGED <<storeVars, statusVars, jobVars, scanResolved, result, calls,
                   callSnap>>

\* needs_reindex, under the statuses read lock.
NeedsReindex(c) == lastIndexed = NoStatus \/ lastIndexed < waitFor[c]

CheckStatus(c) ==
    /\ pc[c] = "CheckStatus"
    /\ pc' = [pc EXCEPT ![c] = IF NeedsReindex(c) THEN "EnqueueMapper"
                                ELSE "Return"]
    /\ UNCHANGED <<storeVars, statusVars, jobVars, waitFor, scanResolved, result,
                   calls, callSnap>>

EnqueueMapper(c) ==
    /\ pc[c] = "EnqueueMapper"
    /\ mapper' = LookupOrEnqueue(mapper)
    /\ result' = [result EXCEPT ![c] = NoResult]
    /\ pc' = [pc EXCEPT ![c] = "AwaitMapper"]
    /\ UNCHANGED <<storeVars, statusVars, scan, workers, waitFor, scanResolved, calls,
                   callSnap>>

MapperReceivedOnce(c) ==
    /\ pc[c] = "AwaitMapper" /\ result[c] # NoResult
    /\ pc' = [pc EXCEPT ![c] = "Return"]
    /\ UNCHANGED <<storeVars, statusVars, jobVars, waitFor, scanResolved, result,
                   calls, callSnap>>

MapperReceivedStrict(c) ==
    /\ pc[c] = "AwaitMapper" /\ result[c] # NoResult
    /\ pc' = [pc EXCEPT ![c] = IF waitFor[c] < result[c] THEN "Return"
                                ELSE "EnqueueMapper"]
    /\ UNCHANGED <<storeVars, statusVars, jobVars, waitFor, scanResolved, result,
                   calls, callSnap>>

\* let id = job.receive().await??; if wait_for_transaction <= id { break }
MapperReceived(c) ==
    /\ pc[c] = "AwaitMapper" /\ result[c] # NoResult
    /\ pc' = [pc EXCEPT ![c] = IF waitFor[c] <= result[c] THEN "Return"
                                ELSE "EnqueueMapper"]
    /\ UNCHANGED <<storeVars, statusVars, jobVars, waitFor, scanResolved, result,
                   calls, callSnap>>

Return(c) ==
    /\ pc[c] = "Return"
    /\ pc' = [pc EXCEPT ![c] = "Idle"]
    /\ UNCHANGED <<storeVars, statusVars, jobVars, waitFor, scanResolved, result,
                   calls, callSnap>>

-----------------------------------------------------------------------------
(* IntegrityScanner::execute                                              *)

mark_integrity_check_complete == completed' = TRUE

MissingEntriesIgnoringVersion == {d \in Existing : docMap[d] = NoEntry}

\* The spawn_blocking closure's reads: the collection's document ids, the
\* persisted view version and the document map's keys.
MissingEntries ==
    IF viewVersion = CurVersion THEN {d \in Existing : docMap[d] = NoEntry}
    ELSE Existing

ScanRead ==
    /\ scan.state = "Queued"
    /\ TakeWorker("Scan")
    /\ scan' = [scan EXCEPT !.state = IF MissingEntries = {} THEN "Mark"
                                      ELSE "Commit",
                            !.missing = MissingEntries, !.runs = @ + 1]
    /\ UNCHANGED <<storeVars, statusVars, mapper, callVars>>

\* One transaction over the invalidated and view-versions trees.
ScanCommit ==
    /\ scan.state = "Commit"
    /\ viewVersion' = CurVersion
    /\ invalidated' = invalidated \cup scan.missing
    /\ scan' = [scan EXCEPT !.state = "EnqueueMapper"]
    /\ UNCHANGED <<lastTx, docs, docMap, statusVars, mapper, workers, callVars>>

ScanEnqueueMapper ==
    /\ scan.state = "EnqueueMapper"
    /\ mapper' = LookupOrEnqueue(mapper)
    /\ scan' = [scan EXCEPT !.state = "AwaitMapper", !.mapDone = FALSE]
    /\ UNCHANGED <<storeVars, statusVars, workers, callVars>>

ScanMapperReceived ==
    /\ scan.state = "AwaitMapper"
    /\ scan.mapDone
    /\ scan' = [scan EXCEPT !.state = "Mark"]
    /\ UNCHANGED <<storeVars, statusVars, mapper, workers, callVars>>

\* mark_integrity_check_complete, after which the job's handle resolves.
ScanFinish ==
    /\ scan.state = "Mark"
    /\ mark_integrity_check_complete
    /\ scan' = [scan EXCEPT !.state = "None"]
    /\ ReleaseWorker("Scan")
    /\ scanResolved' = [c \in Callers |-> pc[c] = "AwaitScan" \/ scanResolved[c]]
    /\ UNCHANGED <<storeVars, lastIndexed, mapper, pc, waitFor, result, calls,
                   callSnap>>

-----------------------------------------------------------------------------
(* Mapper job (modelled from the specification's contract): it reads the *)
(* last transaction id, maps every invalidated document, each in one      *)
(* transaction that replaces its entry and clears its invalidation, then  *)
(* publishes the id through mark_view_updated and returns it.            *)

mark_view_updated(tx) == lastIndexed' = tx

MapperStart ==
    /\ mapper.state = "Queued"
    /\ TakeWorker("Mapper")
    /\ mapper' = [mapper EXCEPT !.state = "Running", !.tx = lastTx,
                                !.todo = invalidated]
    /\ UNCHANGED <<storeVars, statusVars, scan, callVars>>

MapDoc(d) ==
    /\ mapper.state = "Running" /\ d \in mapper.todo
    /\ docMap' = [docMap EXCEPT ![d] = Entry(d, CurVersion)]
    /\ invalidated' = invalidated \ {d}
    /\ mapper' = [mapper EXCEPT !.todo = @ \ {d}]
    /\ UNCHANGED <<lastTx, docs, viewVersion, statusVars, scan, workers, callVars>>

MapperFinishAhead ==
    /\ mapper.state = "Running" /\ mapper.todo = {}
    /\ mark_view_updated(mapper.tx + 1)
    /\ mapper' = [mapper EXCEPT !.state = "None"]
    /\ ReleaseWorker("Mapper")
    /\ result' = [c \in Callers |->
                    IF pc[c] = "AwaitMapper" /\ result[c] = NoResult THEN mapper.tx + 1 ELSE result[c]]
    /\ scan' = [scan EXCEPT !.mapDone = scan.state = "AwaitMapper" \/ @]
    /\ UNCHANGED <<storeVars, completed, pc, waitFor, scanResolved, calls,
                   callSnap>>

\* The output is delivered to every handle of this run.
MapperFinish ==
    /\ mapper.state = "Running" /\ mapper.todo = {}
    /\ mark_view_updated(mapper.tx)
    /\ mapper' = [mapper EXCEPT !.state = "None"]
    /\ ReleaseWorker("Mapper")
    /\ result' = [c \in Callers |->
                    IF pc[c] = "AwaitMapper" /\ result[c] = NoResult THEN mapper.tx ELSE result[c]]
    /\ scan' = [scan EXCEPT !.mapDone = scan.state = "AwaitMapper" \/ @]
    /\ UNCHANGED <<storeVars, completed, pc, waitFor, scanResolved, calls,
                   callSnap>>

-----------------------------------------------------------------------------

CallerStep(c) ==
    \/ CheckIntegrity(c) \/ EnqueueScan(c) \/ ScanReceived(c) \/ ReadTx(c)
    \/ CheckStatus(c) \/ EnqueueMapper(c) \/ MapperReceived(c) \/ Return(c)

JobStep ==
    \/ ScanRead \/ ScanCommit \/ ScanEnqueueMapper \/ ScanMapperReceived
    \/ ScanFinish \/ MapperStart \/ MapperFinish \/ \E d \in Docs : MapDoc(d)

Next ==
    \/ \E d \in Docs : Commit(d)
    \/ \E c \in Callers : Call(c) \/ CallerStep(c)
    \/ JobStep

\* Callers and the job workers are tokio tasks that keep being polled;
\* commits and new calls come from the application and need not happen.
Fairness ==
    /\ \A c \in Callers : WF_vars(CallerStep(c))
    /\ WF_vars(JobStep)

Spec == Init /\ [][Next]_vars /\ Fairness

-----------------------------------------------------------------------------
(* Properties                                                             *)

TypeOK ==
    /\ lastTx \in 0..MaxTx
    /\ docs \in [Docs -> 0..lastTx]
    /\ docMap \in [Docs -> {NoEntry} \cup [tx : 1..MaxTx, ver : Versions]]
    /\ invalidated \subseteq Existing
    /\ viewVersion \in Versions \cup {NoVersion}
    /\ completed \in BOOLEAN
    /\ lastIndexed \in {NoStatus} \cup 0..lastTx
    /\ scan.state \in {"None", "Queued", "Commit", "EnqueueMapper",
                       "AwaitMapper", "Mark"}
    /\ mapper.state \in {"None", "Queued", "Running"}
    /\ mapper.todo \subseteq Docs
    /\ workers \subseteq {"Scan", "Mapper"} /\ Cardinality(workers) <= WorkerCount
    /\ pc \in [Callers -> {"Idle", "Start", "EnqueueScan", "AwaitScan",
                           "ReadTx", "CheckStatus", "EnqueueMapper",
                           "AwaitMapper", "Return"}]
    /\ result \in [Callers -> {NoResult} \cup 0..MaxTx]

\* The fast path of update_view_if_needed trusts view_update_last_status:
\* whenever it holds t, every document last committed at or before t is
\* mapped, from that revision, by the current view code.  It takes the
\* integrity scan to have invalidated entries of an old view version and
\* the mapper to have read its transaction id before draining.
IndexedWatermarkSound ==
    lastIndexed # NoStatus =>
        \A d \in Existing : docs[d] <= lastIndexed => docMap[d] = Entry(d, CurVersion)

\* update_view_if_needed implements the View freshness law: every call
\* returns only when the document map reflects, under the current code,
\* every document committed before the call, whichever mapper run it
\* joins and whatever commits interleave with its loop.
VF == INSTANCE ViewFreshness
        WITH index <- docMap, snap <- callSnap,
             apc <- [c \in Callers |-> IF pc[c] = "Idle" THEN "Idle" ELSE "Busy"]

ViewFreshnessSpec == VF!Spec

\* Every call of update_view_if_needed returns: the loop over mapper runs
\* ends once a run that started after the call's transaction id finishes.
EveryCallReturns == \A c \in Callers : pc[c] # "Idle" ~> pc[c] = "Idle"

\* Integrity dedup (specification): concurrent calls for one view cause
\* exactly one IntegrityScanner execution.
IntegrityScannedOnce == scan.runs <= 1

====
