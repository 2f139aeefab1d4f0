---------------------------- MODULE ClientWorker ----------------------------
(***************************************************************************)
(* The request path of the BonsaiDb client over QUIC.                     *)
(*                                                                         *)
(* Callers (crates/bonsaidb-client/src/client.rs, send_request) take an   *)
(* id from the AtomicU32 request_id, push a PendingRequest into the       *)
(* unbounded request channel and await its bounded(1) responder.  The     *)
(* worker task (client/src/client/quic_worker.rs) receives a request,     *)
(* connects, spawns the reader `process`, sends the initial request,     *)
(* inserts it into outstanding_requests and then serves the channel,      *)
(* sending and inserting each request under the map's lock.  The reader  *)
(* removes the responder of each response (process_response_payload,     *)
(* `.expect("missing responder")`).  When the reader ends or a send       *)
(* fails, try_join drops the map with every responder still in it.        *)
(*                                                                         *)
(* send_request hands the worker a clone of its result_sender and keeps   *)
(* the original alive across its await, so dropping a PendingRequest     *)
(* does not disconnect the caller's channel: the caller keeps waiting.    *)
(* Only reconnecting_client_loop's explicit responder.send(Err(..)), for  *)
(* a failed connect or initial send, answers with an error.               *)
(*                                                                         *)
(* A request is a number in Reqs (ghost identity); its wire id is         *)
(* reqId[n].  The server answers requests sent on the live connection in  *)
(* any order.  Connection failures (a failed connect, a lost connection)  *)
(* come from the environment, at most MaxFailures of them.                *)
(***************************************************************************)
EXTENDS Naturals, Sequences, SequencesExt, FiniteSets, TLC

CONSTANTS
    Reqs,         \* the requests callers make, 1..n
    IdSpace,      \* number of distinct request ids (2^32 for AtomicU32)
    MaxFailures   \* bound on connect failures plus lost connections

ASSUME Reqs \subseteq Nat \ {0} /\ IdSpace \in Nat \ {0} /\ MaxFailures \in Nat

VARIABLES
    nextId,       \* Data::request_id
    reqId,        \* per request: the id fetch_add gave it
    result,       \* per request: "Unsent" | "Pending" | "Ok" | "Err"
    okFor,        \* per request: the request whose response it received
    queue,        \* the request channel, FIFO
    wpc,          \* worker: "Idle" | "Connect" | "SendInitial" | "InsertInitial" | "Serve"
    initial,      \* worker: the initial_request of connect_and_process (0: none)
    outstanding,  \* outstanding_requests: id -> request
    conn,         \* "None" | "Up" | "Down"
    inflight,     \* requests the server holds on the live connection
    responses,    \* response payloads on the stream, in order: request numbers
    reader,       \* the `process` task: "None" | "Running" | "Ended" | "Panicked"
    failures      \* environment failures so far

vars == <<nextId, reqId, result, okFor, queue, wpc, initial, outstanding, conn,
          inflight, responses, reader, failures>>

Ids == 0 .. IdSpace - 1

\* reconnecting_client_loop: failed_request.responder.send(Err(err)).
FailRequest(n) ==
    result' = [result EXCEPT ![n] = IF @ = "Pending" THEN "Err" ELSE @]

\* HashMap::insert: a request already under the id is replaced and dropped,
\* and its caller, holding its own result_sender, keeps waiting.
Insert(n) ==
    outstanding' = (reqId[n] :> n) @@ outstanding

-----------------------------------------------------------------------------
(* Callers                                                                 *)

\* send_request: fetch_add(1) (wrapping) on request_id, then send the
\* PendingRequest; the caller awaits its responder.
SendRequest(n) ==
    /\ result[n] = "Unsent"
    /\ reqId' = [reqId EXCEPT ![n] = nextId]
    /\ nextId' = (nextId + 1) % IdSpace
    /\ queue' = Append(queue, n)
    /\ result' = [result EXCEPT ![n] = "Pending"]
    /\ UNCHANGED <<okFor, wpc, initial, outstanding, conn, inflight, responses,
                   reader, failures>>

-----------------------------------------------------------------------------
(* The worker: reconnecting_client_loop and connect_and_process            *)

\* The loop receives the request that starts a connection.
ReceiveInitial ==
    /\ wpc = "Idle"
    /\ queue # <<>>
    /\ initial' = Head(queue)
    /\ queue' = Tail(queue)
    /\ wpc' = "Connect"
    /\ UNCHANGED <<nextId, reqId, result, okFor, outstanding, conn, inflight,
                   responses, reader, failures>>

\* connect() fails: the loop sends the error to the initial request.
ConnectFailed ==
    /\ wpc = "Connect"
    /\ failures < MaxFailures
    /\ failures' = failures + 1
    /\ FailRequest(initial)
    /\ initial' = 0
    /\ wpc' = "Idle"
    /\ UNCHANGED <<nextId, reqId, okFor, queue, outstanding, conn, inflight,
                   responses, reader>>

\* connect() succeeds: a fresh outstanding map, the reader is spawned.
Connected ==
    /\ wpc = "Connect"
    /\ conn' = "Up"
    /\ outstanding' = <<>>
    /\ inflight' = {}
    /\ responses' = <<>>
    /\ reader' = "Running"
    /\ wpc' = "SendInitial"
    /\ UNCHANGED <<nextId, reqId, result, okFor, queue, initial, failures>>

\* payload_sender.send(initial_request), before the insert.  On a lost
\* connection the send fails and the loop sends the error to the initial
\* request; the detached reader then ends with the connection.
SendInitial ==
    /\ wpc = "SendInitial"
    /\ IF conn = "Up"
         THEN /\ inflight' = inflight \cup {initial}
              /\ wpc' = "InsertInitial"
              /\ UNCHANGED <<result, initial, reader>>
         ELSE /\ FailRequest(initial)
              /\ initial' = 0
              /\ reader' = "None"
              /\ wpc' = "Idle"
              /\ UNCHANGED inflight
    /\ UNCHANGED <<nextId, reqId, okFor, queue, outstanding, conn, responses, failures>>

\* The initial request is inserted into outstanding_requests.
InsertInitial ==
    /\ wpc = "InsertInitial"
    /\ Insert(initial)
    /\ initial' = 0
    /\ wpc' = "Serve"
    /\ UNCHANGED <<nextId, reqId, result, okFor, queue, conn, inflight, responses,
                   reader, failures>>

\* process_requests: under the map's lock, send the next request and insert
\* it.  A failed send returns an error from try_join with no request to
\* report it to: the request and the map are dropped, and their callers
\* keep waiting (the detached reader has nothing left to deliver on the
\* lost connection).
ServeRequest ==
    LET n == Head(queue) IN
    /\ wpc = "Serve"
    /\ queue # <<>>
    /\ queue' = Tail(queue)
    /\ IF conn = "Up"
         THEN /\ inflight' = inflight \cup {n}
              /\ Insert(n)
              /\ UNCHANGED <<wpc, reader>>
         ELSE /\ outstanding' = <<>>
              /\ reader' = "None"
              /\ wpc' = "Idle"
              /\ UNCHANGED inflight
    /\ UNCHANGED <<nextId, reqId, result, okFor, initial, conn, responses, failures>>

\* The reader ended (stream closed, or its task panicked): the JoinError or
\* Disconnected ends try_join with no request to report it to, and the map
\* is dropped.
JoinFailed ==
    /\ wpc = "Serve"
    /\ reader \in {"Ended", "Panicked"}
    /\ outstanding' = <<>>
    /\ reader' = "None"
    /\ wpc' = "Idle"
    /\ UNCHANGED <<nextId, reqId, result, okFor, queue, initial, conn, inflight,
                   responses, failures>>

-----------------------------------------------------------------------------
(* The reader task: process / process_response_payload                     *)

\* A response payload with an id: remove its responder and send the
\* response; a missing responder panics the task.
ReadResponse ==
    LET n  == Head(responses)
        id == reqId[n]
    IN
    /\ reader = "Running"
    /\ responses # <<>>
    /\ responses' = Tail(responses)
    /\ IF id \in DOMAIN outstanding
         THEN LET m == outstanding[id] IN
              /\ outstanding' = [i \in DOMAIN outstanding \ {id} |-> outstanding[i]]
              /\ result' = [result EXCEPT ![m] = IF @ = "Pending" THEN "Ok" ELSE @]
              /\ okFor' = [okFor EXCEPT ![m] = IF result[m] = "Pending" THEN n ELSE @]
              /\ UNCHANGED reader
         ELSE /\ reader' = "Panicked"
              /\ UNCHANGED <<outstanding, result, okFor>>
    /\ UNCHANGED <<nextId, reqId, queue, wpc, initial, conn, inflight, failures>>

\* The stream of a lost connection ends: process returns Disconnected.
ReaderEnds ==
    /\ reader = "Running"
    /\ conn = "Down"
    /\ reader' = "Ended"
    /\ UNCHANGED <<nextId, reqId, result, okFor, queue, wpc, initial, outstanding,
                   conn, inflight, responses, failures>>

-----------------------------------------------------------------------------
(* The server and the network                                              *)

\* The server answers one request it has received, in any order.
ServerRespond ==
    /\ conn = "Up"
    /\ \E n \in inflight :
          /\ inflight' = inflight \ {n}
          /\ responses' = Append(responses, n)
    /\ UNCHANGED <<nextId, reqId, result, okFor, queue, wpc, initial, outstanding,
                   conn, reader, failures>>

\* The connection is lost; undelivered data is lost with it.
ConnectionLost ==
    /\ conn = "Up"
    /\ failures < MaxFailures
    /\ failures' = failures + 1
    /\ conn' = "Down"
    /\ inflight' = {}
    /\ responses' = <<>>
    /\ UNCHANGED <<nextId, reqId, result, okFor, queue, wpc, initial, outstanding,
                   reader>>

-----------------------------------------------------------------------------

Init ==
    /\ nextId = 0
    /\ reqId = [n \in Reqs |-> 0]
    /\ result = [n \in Reqs |-> "Unsent"]
    /\ okFor = [n \in Reqs |-> 0]
    /\ queue = <<>>
    /\ wpc = "Idle"
    /\ initial = 0
    /\ outstanding = <<>>
    /\ conn = "None"
    /\ inflight = {}
    /\ responses = <<>>
    /\ reader = "None"
    /\ failures = 0

Worker ==
    \/ ReceiveInitial \/ ConnectFailed \/ Connected \/ SendInitial
    \/ InsertInitial \/ ServeRequest \/ JoinFailed

Next ==
    \/ \E n \in Reqs : SendRequest(n)
    \/ Worker
    \/ ReadResponse
    \/ ReaderEnds
    \/ ServerRespond
    \/ ConnectionLost

\* The worker, the reader and the server are tasks the runtime keeps
\* scheduling; callers and failures are the environment's choice.
Fairness ==
    /\ WF_vars(ReceiveInitial \/ Connected \/ SendInitial \/ InsertInitial
               \/ ServeRequest \/ JoinFailed)
    /\ WF_vars(ReadResponse)
    /\ WF_vars(ReaderEnds)
    /\ WF_vars(ServerRespond)

Spec == Init /\ [][Next]_vars /\ Fairness

-----------------------------------------------------------------------------
(* Properties                                                              *)

TypeOK ==
    /\ nextId \in Ids
    /\ reqId \in [Reqs -> Ids]
    /\ result \in [Reqs -> {"Unsent", "Pending", "Ok", "Err"}]
    /\ okFor \in [Reqs -> Reqs \cup {0}]
    /\ queue \in Seq(Reqs)
    /\ wpc \in {"Idle", "Connect", "SendInitial", "InsertInitial", "Serve"}
    /\ initial \in Reqs \cup {0}
    /\ DOMAIN outstanding \subseteq Ids /\ ToSet(outstanding) \subseteq Reqs
    /\ conn \in {"None", "Up", "Down"}
    /\ inflight \subseteq Reqs
    /\ responses \in Seq(Reqs)
    /\ reader \in {"None", "Running", "Ended", "Panicked"}
    /\ failures \in 0..MaxFailures

\* A caller that receives a response receives the response to its own
\* request: ids, the outstanding map and the reader's removal keep
\* requests and responses paired across reconnections.  It rests on the
\* specification's "ids are unique per connection", which the wrapping
\* u32 counter keeps only while fewer than 2^32 requests are sent during
\* one request's lifetime.
ResponseMatchesRequest ==
    \A n \in Reqs : result[n] = "Ok" => okFor[n] = n

\* The reader never panics on a response whose responder is missing
\* (process_response_payload's expect): every response read off the stream
\* finds its request in outstanding_requests.
ReaderNeverPanics ==
    reader # "Panicked"

\* Every request sent is eventually answered, with its response or an
\* error; a client call never hangs.
EveryRequestAnswered ==
    \A n \in Reqs : result[n] = "Pending" ~> result[n] \in {"Ok", "Err"}

====
