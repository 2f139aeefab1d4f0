------------------------------ MODULE KeyValue ------------------------------
(***************************************************************************)
(* The key/value store of a BonsaiDb database and its expiration engine   *)
(* (crates/bonsaidb-local/src/database/keyvalue.rs).                      *)
(*                                                                         *)
(* Callers run the key operations concurrently on the blocking pool; each *)
(* one is a compare-and-swap loop on the "kv" tree followed, for set and  *)
(* delete, by an ExpirationUpdate sent to the single expiration task.     *)
(* The task keeps tracked_keys / expiration_order and removes due keys in *)
(* a blocking batch.  The ExpirationLoader job re-registers persisted     *)
(* expirations when the database opens, concurrently with callers.       *)
(*                                                                         *)
(* Data is abstracted: a full key is a model value (full_key() is a       *)
(* bijection from (namespace, key), so keys stand for full keys), a      *)
(* Bytes payload is one value, a Numeric value is an UnsignedInteger of   *)
(* NumWidth bits, a Timestamp is a tick of the discrete clock `now`.      *)
(***************************************************************************)
EXTENDS Naturals, Sequences, SequencesExt, FiniteSets

CONSTANTS
    Keys,       \* full keys
    Procs,      \* concurrent callers of execute_key_operation
    ExpTimes,   \* expirations a caller may pass, ticks in 1..MaxTime
    MaxTime,    \* bound of the clock
    MaxOps,     \* bound on the number of key operations started
    NumWidth,   \* bit width of the modelled UnsignedInteger
    SetValues,  \* values a caller may set
    SetChecks,  \* KeyChecks a caller may pass to a set
    SetKeeps,   \* keep_existing_expiration flags a caller may pass
    NoExp,      \* Option::None for an expiration
    Absent      \* no entry under a key

ASSUME ExpTimes \subseteq 1..MaxTime /\ MaxOps \in Nat /\ NumWidth \in Nat \ {0}
ASSUME SetChecks \subseteq {"None", "OnlyIfPresent", "OnlyIfVacant"} /\ SetKeeps \subseteq BOOLEAN
ASSUME SetValues \subseteq {[kind |-> "Bytes", n |-> 0]} \cup [kind : {"Numeric"}, n : Nat]

VARIABLES
    tree,          \* the "kv" tree: key -> Entry or Absent
    now,           \* Timestamp::now()
    updates,       \* the flume channel of ExpirationUpdate, FIFO
    tracked,       \* expiration_task: tracked_keys, key -> Timestamp or NoExp
    order,         \* expiration_task: expiration_order
    expirerPc,     \* "Loop" | "Wait" (awaiting an update until the front
                   \* deadline) | "Remove" (awaiting the blocking removal)
    toRemove,      \* expiration_task: keys_to_remove
    scanned,       \* ExpirationLoader: keys its scan has visited
    loaderQueue,   \* ExpirationLoader: its internal (key, expiration) channel
    loaderWaiting, \* ExpirationLoader: awaiting update_key_expiration_async
    pc,            \* per caller: "Idle" or the step of its operation
    op,            \* per caller: the KeyOperation being executed
    current,       \* per caller: the value its CAS loop compares against
    entryExp,      \* per caller: entry.expiration of execute_set_operation
    updated,       \* per caller: `updated` of execute_set_operation
    inserted,      \* per caller: `inserted` of execute_set_operation
    wrote,         \* per caller (history): its last CAS stored its entry
    opsStarted     \* number of key operations started

expirerVars == <<tracked, order, expirerPc, toRemove>>
loaderVars  == <<scanned, loaderQueue, loaderWaiting>>
callerVars  == <<pc, op, current, entryExp, updated, inserted, wrote, opsStarted>>
vars == <<tree, now, updates, expirerVars, loaderVars, callerVars>>

NumMax == 2^NumWidth - 1
Num(n) == [kind |-> "Numeric", n |-> n]
Bytes  == [kind |-> "Bytes", n |-> 0]
Value  == {Bytes} \cup {Num(n) : n \in 0..NumMax}
Exp    == ExpTimes \cup {NoExp}
Entry  == [value : Value, expiration : Exp]
Update == [key : Keys, expiration : Exp, waiter : BOOLEAN]
Checks == {"None", "OnlyIfPresent", "OnlyIfVacant"}
Op     == [kind : {"Set"}, key : Keys, value : Value, expiration : Exp,
           keep : BOOLEAN, check : Checks]
          \cup [kind : {"Delete", "GetDelete"}, key : Keys]
          \cup [kind : {"Increment", "Decrement"}, key : Keys, saturating : BOOLEAN]
NoOp   == [kind |-> "None"]

HasExp(e) == e # Absent /\ e.expiration # NoExp

-----------------------------------------------------------------------------
(* Pure helpers                                                            *)

\* Fault variant: a wrapping increment that forgets the modulus.
incrementUnchecked(x, saturating) ==
    IF saturating THEN IF x = NumMax THEN NumMax ELSE x + 1 ELSE x + 1

\* increment()/decrement() on UnsignedInteger with amount 1.
increment(x, saturating) ==
    IF saturating THEN IF x = NumMax THEN NumMax ELSE x + 1
                  ELSE (x + 1) % (NumMax + 1)
decrement(x, saturating) ==
    IF saturating THEN IF x = 0 THEN 0 ELSE x - 1
                  ELSE (x + NumMax) % (NumMax + 1)

\* The entry a numeric operation starts from: a missing entry is
\* UnsignedInteger(0) without expiration.
NumericBase(cur) ==
    IF cur = Absent THEN [value |-> Num(0), expiration |-> NoExp] ELSE cur

NumericResult(o, x) ==
    IF o.kind = "Increment" THEN increment(x, o.saturating)
                            ELSE decrement(x, o.saturating)

\* The KeyCheck of execute_set_operation's closure.
ShouldUpdate(check, cur) ==
    CASE check = "OnlyIfPresent" -> cur # Absent
      [] check = "OnlyIfVacant"  -> cur = Absent
      [] OTHER                   -> TRUE

-----------------------------------------------------------------------------
(* Callers                                                                 *)

\* Starting an operation; a caller runs one at a time.
Begin(p) ==
    /\ pc[p] = "Idle"
    /\ opsStarted < MaxOps
    /\ opsStarted' = opsStarted + 1

\* Returning to the caller: the operation's locals are dropped.
Return(p) ==
    /\ pc' = [pc EXCEPT ![p] = "Idle"]
    /\ op' = [op EXCEPT ![p] = NoOp]
    /\ current' = [current EXCEPT ![p] = Absent]
    /\ entryExp' = [entryExp EXCEPT ![p] = NoExp]
    /\ updated' = [updated EXCEPT ![p] = FALSE]
    /\ inserted' = [inserted EXCEPT ![p] = FALSE]
    /\ wrote' = [wrote EXCEPT ![p] = FALSE]

\* execute_set_operation up to the first read of fetch_and_update_no_copy.
ExecuteSetOperation(p) ==
    \E k \in Keys, v \in SetValues, e \in Exp, keep \in SetKeeps, check \in SetChecks :
        /\ Begin(p)
        /\ op' = [op EXCEPT ![p] = [kind |-> "Set", key |-> k, value |-> v,
                                    expiration |-> e, keep |-> keep, check |-> check]]
        /\ current'  = [current EXCEPT ![p] = tree[k]]
        /\ entryExp' = [entryExp EXCEPT ![p] = e]
        /\ pc' = [pc EXCEPT ![p] = "SetCas"]
        /\ UNCHANGED <<tree, now, updates, expirerVars, loaderVars, updated,
                       inserted, wrote>>

\* One iteration of fetch_and_update_no_copy: run the closure on the
\* observed value (its writes to entry/updated/inserted persist across
\* iterations), then compare-and-swap.  On conflict the loop retries with
\* the value found.  On success the operation sends its ExpirationUpdate
\* if `updated`, else returns NotChanged.
FetchAndUpdate(p) ==
    LET o      == op[p]
        cur    == current[p]
        should == ShouldUpdate(o.check, cur)
        exp    == IF should /\ o.keep /\ cur # Absent THEN cur.expiration
                  ELSE entryExp[p]
        upd    == updated[p] \/ should
        next   == IF should THEN [value |-> o.value, expiration |-> exp] ELSE cur
    IN
    /\ pc[p] = "SetCas"
    /\ IF tree[o.key] = cur
         THEN /\ tree' = [tree EXCEPT ![o.key] = next]
              /\ IF upd
                   THEN /\ pc' = [pc EXCEPT ![p] = "SetNotify"]
                        /\ entryExp' = [entryExp EXCEPT ![p] = exp]
                        /\ updated'  = [updated EXCEPT ![p] = TRUE]
                        /\ inserted' = [inserted EXCEPT ![p] = IF should THEN cur = Absent ELSE @]
                        /\ wrote' = [wrote EXCEPT ![p] = should]
                        /\ UNCHANGED <<op, current>>
                   ELSE Return(p)
         ELSE /\ current' = [current EXCEPT ![p] = tree[o.key]]
              /\ entryExp' = [entryExp EXCEPT ![p] = exp]
              /\ updated'  = [updated EXCEPT ![p] = upd]
              /\ inserted' = [inserted EXCEPT ![p] = IF should THEN cur = Absent ELSE @]
              /\ UNCHANGED <<tree, wrote, pc, op>>
    /\ UNCHANGED <<now, updates, expirerVars, loaderVars, opsStarted>>

\* db.update_key_expiration(full_key, entry.expiration) after a set.
SetNotify(p) ==
    /\ pc[p] = "SetNotify"
    /\ updates' = Append(updates, [key |-> op[p].key, expiration |-> entryExp[p],
                                   waiter |-> FALSE])
    /\ Return(p)
    /\ UNCHANGED <<tree, now, expirerVars, loaderVars, opsStarted>>

\* tree.remove(full_key); a removed entry is followed by an update to None.
RemoveKey(p, kind) ==
    \E k \in Keys :
        /\ Begin(p)
        /\ tree' = [tree EXCEPT ![k] = Absent]
        /\ IF tree[k] # Absent
             THEN /\ pc' = [pc EXCEPT ![p] = "RemoveNotify"]
                  /\ op' = [op EXCEPT ![p] = [kind |-> kind, key |-> k]]
             ELSE UNCHANGED <<pc, op>>
        /\ UNCHANGED <<now, updates, expirerVars, loaderVars, current, entryExp,
                       updated, inserted, wrote>>

ExecuteGetOperation(p)    == RemoveKey(p, "GetDelete")
ExecuteDeleteOperation(p) == RemoveKey(p, "Delete")

RemoveNotify(p) ==
    /\ pc[p] = "RemoveNotify"
    /\ updates' = Append(updates, [key |-> op[p].key, expiration |-> NoExp,
                                   waiter |-> FALSE])
    /\ Return(p)
    /\ UNCHANGED <<tree, now, expirerVars, loaderVars, opsStarted>>

\* execute_numeric_operation up to its first tree.get.
ExecuteNumericOperation(p) ==
    \E k \in Keys, kind \in {"Increment", "Decrement"}, sat \in BOOLEAN :
        /\ Begin(p)
        /\ op' = [op EXCEPT ![p] = [kind |-> kind, key |-> k, saturating |-> sat]]
        /\ current' = [current EXCEPT ![p] = tree[k]]
        /\ pc' = [pc EXCEPT ![p] = "NumCas"]
        /\ UNCHANGED <<tree, now, updates, expirerVars, loaderVars, entryExp,
                       updated, inserted, wrote>>

\* Fault variant: the numeric loop stores its result without the
\* compare-and-swap (a blind read-modify-write).
NumericCasBlind(p) ==
    LET base == NumericBase(current[p])
    IN /\ pc[p] = "NumCas"
       /\ IF base.value.kind = "Bytes"
            THEN Return(p) /\ UNCHANGED tree
            ELSE /\ tree' = [tree EXCEPT ![op[p].key] =
                              [base EXCEPT !.value = Num(NumericResult(op[p], base.value.n))]]
                 /\ Return(p)
       /\ UNCHANGED <<now, updates, expirerVars, loaderVars, opsStarted>>

\* One iteration of the numeric loop: a Bytes value is an error, else the
\* operation is applied to the observed entry, keeping its expiration,
\* and compare-and-swapped in; a conflict retries with the value found.
NumericCas(p) ==
    LET o    == op[p]
        base == NumericBase(current[p])
        next == [base EXCEPT !.value = Num(NumericResult(o, base.value.n))]
    IN
    /\ pc[p] = "NumCas"
    /\ IF base.value.kind = "Bytes"
         THEN /\ Return(p)
              /\ UNCHANGED tree
         ELSE IF tree[o.key] = current[p]
                THEN /\ tree' = [tree EXCEPT ![o.key] = next]
                     /\ Return(p)
                ELSE /\ current' = [current EXCEPT ![p] = tree[o.key]]
                     /\ UNCHANGED <<tree, pc, op, entryExp, updated, inserted, wrote>>
    /\ UNCHANGED <<now, updates, expirerVars, loaderVars, opsStarted>>

-----------------------------------------------------------------------------
(* The expiration task                                                     *)

Due(k) == tracked[k] <= now

\* The keys popped from the front of expiration_order: those whose
\* deadline is at or before `now`.
DuePrefix ==
    LET notDue == SelectInSeq(order, LAMBDA q : tracked[q] > now)
    IN  SubSeq(order, 1, IF notDue = 0 THEN Len(order) ELSE notDue - 1)

\* Fault variant: a new deadline for a tracked key is inserted without
\* removing the key's old position from expiration_order.
ApplyUpdateKeepOld(u) ==
    IF u.expiration # NoExp
      THEN LET at == SelectInSeq(order, LAMBDA q : tracked[q] > u.expiration)
           IN /\ order' = IF at = 0 THEN Append(order, u.key) ELSE InsertAt(order, at, u.key)
              /\ tracked' = [tracked EXCEPT ![u.key] = u.expiration]
      ELSE IF tracked[u.key] # NoExp
             THEN /\ tracked' = [tracked EXCEPT ![u.key] = NoExp]
                  /\ order' = RemoveFirst(order, u.key)
             ELSE UNCHANGED <<tracked, order>>

\* Fault variant: the insertion loop compares the wrong way round and puts
\* a new deadline before the first key that expires earlier.
ApplyUpdateFlipped(u) ==
    IF u.expiration # NoExp
      THEN LET base == IF tracked[u.key] # NoExp THEN RemoveFirst(order, u.key)
                       ELSE order
               at   == SelectInSeq(base, LAMBDA q : tracked[q] < u.expiration)
           IN /\ order' = IF at = 0 THEN Append(base, u.key)
                          ELSE InsertAt(base, at, u.key)
              /\ tracked' = [tracked EXCEPT ![u.key] = u.expiration]
      ELSE IF tracked[u.key] # NoExp
             THEN /\ tracked' = [tracked EXCEPT ![u.key] = NoExp]
                  /\ order' = RemoveFirst(order, u.key)
             ELSE UNCHANGED <<tracked, order>>

\* Integrating one ExpirationUpdate into tracked_keys / expiration_order.
\* A new deadline is inserted before the first key whose deadline is later
\* (ties go after), an existing entry being removed from the order first.
ApplyUpdate(u) ==
    IF u.expiration # NoExp
      THEN LET base == IF tracked[u.key] # NoExp THEN RemoveFirst(order, u.key)
                       ELSE order
               at   == SelectInSeq(base, LAMBDA q : tracked[q] > u.expiration)
           IN /\ order' = IF at = 0 THEN Append(base, u.key)
                          ELSE InsertAt(base, at, u.key)
              /\ tracked' = [tracked EXCEPT ![u.key] = u.expiration]
      ELSE IF tracked[u.key] # NoExp
             THEN /\ tracked' = [tracked EXCEPT ![u.key] = NoExp]
                  /\ order' = RemoveFirst(order, u.key)
             ELSE UNCHANGED <<tracked, order>>

\* With a key tracked whose deadline is still ahead, the task reads
\* Timestamp::now() and waits for an update until that deadline.  An
\* update already queued is taken at once, which ExpirerReceive does from
\* "Loop".
ExpirerWait ==
    /\ expirerPc = "Loop"
    /\ order # <<>>
    /\ updates = <<>>
    /\ ~Due(order[1])
    /\ expirerPc' = "Wait"
    /\ UNCHANGED <<tree, now, updates, tracked, order, toRemove, loaderVars,
                   callerVars>>

\* The task receives an update: blocking when nothing is tracked, within
\* the timeout (or by try_recv once the front is due) otherwise.  Dropping
\* the update fires its completion signal.
ExpirerReceive ==
    /\ expirerPc \in {"Loop", "Wait"}
    /\ updates # <<>>
    /\ ApplyUpdate(Head(updates))
    /\ updates' = Tail(updates)
    /\ loaderWaiting' = (loaderWaiting /\ ~Head(updates).waiter)
    /\ expirerPc' = "Loop"
    /\ UNCHANGED <<tree, now, toRemove, scanned, loaderQueue, callerVars>>

\* The wait times out at the front deadline.  The keys are popped against
\* the `now` read before the wait, which is earlier than every tracked
\* deadline, so the batch is empty and the loop continues.
ExpirerTimeout ==
    /\ expirerPc = "Wait"
    /\ updates = <<>>
    /\ Due(order[1])
    /\ expirerPc' = "Loop"
    /\ UNCHANGED <<tree, now, updates, tracked, order, toRemove, loaderVars,
                   callerVars>>

\* The front key is due at the `now` the task reads: with no await between
\* them, the read, try_recv finding no update, and the popping of every
\* key due at that `now` into keys_to_remove are one step, and the batch
\* goes to the blocking pool.
ExpirerExpire ==
    LET popped == DuePrefix
    IN
    /\ expirerPc = "Loop"
    /\ order # <<>>
    /\ updates = <<>>
    /\ Due(order[1])
    /\ toRemove' = popped
    /\ order' = SubSeq(order, Len(popped) + 1, Len(order))
    /\ tracked' = [q \in Keys |-> IF q \in ToSet(popped) THEN NoExp ELSE tracked[q]]
    /\ expirerPc' = "Remove"
    /\ UNCHANGED <<tree, now, updates, loaderVars, callerVars>>

\* The blocking batch: tree.remove(key) for each popped key, in order.
ExpirerRemoveKey ==
    /\ expirerPc = "Remove"
    /\ tree' = [tree EXCEPT ![Head(toRemove)] = Absent]
    /\ toRemove' = Tail(toRemove)
    /\ expirerPc' = IF Len(toRemove) = 1 THEN "Loop" ELSE "Remove"
    /\ UNCHANGED <<now, updates, tracked, order, loaderVars, callerVars>>

-----------------------------------------------------------------------------
(* The ExpirationLoader job                                                *)

\* The scan reads one entry and forwards (key, expiration) if it has one.
LoaderScan ==
    \E k \in Keys \ scanned :
        /\ scanned' = scanned \cup {k}
        /\ loaderQueue' = IF HasExp(tree[k])
                            THEN Append(loaderQueue, [key |-> k, expiration |-> tree[k].expiration])
                            ELSE loaderQueue
        /\ UNCHANGED <<tree, now, updates, expirerVars, loaderWaiting, callerVars>>

\* update_key_expiration_async: send, then wait for the completion signal.
LoaderForward ==
    /\ loaderQueue # <<>>
    /\ ~loaderWaiting
    /\ updates' = Append(updates, [key |-> Head(loaderQueue).key,
                                   expiration |-> Head(loaderQueue).expiration,
                                   waiter |-> TRUE])
    /\ loaderQueue' = Tail(loaderQueue)
    /\ loaderWaiting' = TRUE
    /\ UNCHANGED <<tree, now, expirerVars, scanned, callerVars>>

-----------------------------------------------------------------------------
(* Time                                                                    *)

Tick ==
    /\ now < MaxTime
    /\ now' = now + 1
    /\ UNCHANGED <<tree, updates, expirerVars, loaderVars, callerVars>>

-----------------------------------------------------------------------------

\* The database is opened over persisted entries; nothing is tracked yet.
Init ==
    /\ tree \in [Keys -> {Absent} \cup [value : {Bytes}, expiration : Exp]]
    /\ now = 0
    /\ updates = <<>>
    /\ tracked = [k \in Keys |-> NoExp]
    /\ order = <<>>
    /\ expirerPc = "Loop"
    /\ toRemove = <<>>
    /\ scanned = {}
    /\ loaderQueue = <<>>
    /\ loaderWaiting = FALSE
    /\ pc = [p \in Procs |-> "Idle"]
    /\ op = [p \in Procs |-> NoOp]
    /\ current = [p \in Procs |-> Absent]
    /\ entryExp = [p \in Procs |-> NoExp]
    /\ updated = [p \in Procs |-> FALSE]
    /\ inserted = [p \in Procs |-> FALSE]
    /\ wrote = [p \in Procs |-> FALSE]
    /\ opsStarted = 0

CallerStep(p) ==
    \/ FetchAndUpdate(p)
    \/ SetNotify(p)
    \/ RemoveNotify(p)
    \/ NumericCas(p)

Next ==
    \/ \E p \in Procs :
          \/ ExecuteSetOperation(p)
          \/ ExecuteGetOperation(p)
          \/ ExecuteDeleteOperation(p)
          \/ ExecuteNumericOperation(p)
          \/ CallerStep(p)
    \/ ExpirerWait
    \/ ExpirerReceive
    \/ ExpirerTimeout
    \/ ExpirerExpire
    \/ ExpirerRemoveKey
    \/ LoaderScan
    \/ LoaderForward
    \/ Tick

\* An operation once started runs to completion on the blocking pool, the
\* expiration task and the loader are scheduled by the runtime, and the
\* clock advances.  Starting a new operation is the caller's choice.
Fairness ==
    /\ \A p \in Procs : WF_vars(CallerStep(p))
    /\ WF_vars(ExpirerWait)
    /\ WF_vars(ExpirerReceive)
    /\ WF_vars(ExpirerTimeout)
    /\ WF_vars(ExpirerExpire)
    /\ WF_vars(ExpirerRemoveKey)
    /\ WF_vars(LoaderScan)
    /\ WF_vars(LoaderForward)
    /\ WF_vars(Tick)

Spec == Init /\ [][Next]_vars /\ Fairness

-----------------------------------------------------------------------------
(* Properties                                                              *)

TypeOK ==
    /\ tree \in [Keys -> Entry \cup {Absent}]
    /\ now \in 0..MaxTime
    /\ updates \in Seq(Update)
    /\ tracked \in [Keys -> Exp]
    /\ order \in Seq(Keys)
    /\ expirerPc \in {"Loop", "Wait", "Remove"}
    /\ toRemove \in Seq(Keys)
    /\ scanned \subseteq Keys
    /\ loaderQueue \in Seq([key : Keys, expiration : ExpTimes])
    /\ loaderWaiting \in BOOLEAN
    /\ pc \in [Procs -> {"Idle", "SetCas", "SetNotify", "RemoveNotify", "NumCas"}]
    /\ op \in [Procs -> Op \cup {NoOp}]
    /\ current \in [Procs -> Entry \cup {Absent}]
    /\ entryExp \in [Procs -> Exp]
    /\ updated \in [Procs -> BOOLEAN]
    /\ inserted \in [Procs -> BOOLEAN]
    /\ wrote \in [Procs -> BOOLEAN]
    /\ opsStarted \in 0..MaxOps

\* The expiration task's two indexes agree: expiration_order holds each
\* tracked key exactly once and nothing else.  The unwrap()s of
\* expiration_task (lookups of the front key, find_map of a tracked key)
\* rely on it.
ExpirationIndexConsistent ==
    /\ Len(order) = Cardinality(ToSet(order))
    /\ ToSet(order) = {k \in Keys : tracked[k] # NoExp}

\* The expiration task never leaves a due key behind at the `now` it read:
\* when it goes to wait for the front deadline no tracked key is due yet,
\* and when it expires keys it takes every due one.  Both decisions look at
\* the front of expiration_order only (keyvalue.rs:453, 475), so this holds
\* only if every interleaving of updates keeps the order sorted by
\* deadline.
ExpirerLeavesNoDueKey ==
    [][(ExpirerWait \/ ExpirerExpire) =>
         \A k \in Keys : tracked'[k] # NoExp => tracked'[k] > now]_vars

\* The compare-and-swap loop of execute_numeric_operation is atomic: every
\* increment or decrement that stores a value applies the operation to
\* the entry it replaces, whatever other callers or the expiration task
\* wrote since the caller first read the key (no lost update).
NumericUpdateAtomic ==
    [][\A p \in Procs :
         LET k    == op[p].key
             base == NumericBase(tree[k])
         IN (pc[p] = "NumCas" /\ pc'[p] = "Idle"
               /\ NumericBase(current[p]).value.kind = "Numeric")
              => tree'[k] = [base EXCEPT !.value = Num(NumericResult(op[p], base.value.n))]
      ]_vars

Expired(k) == HasExp(tree[k]) /\ tree[k].expiration <= now

\* An entry whose expiration has passed is eventually removed (or
\* replaced): the spec's "KV expiration liveness".
ExpiredEventuallyRemoved ==
    \A k \in Keys : Expired(k) ~> ~Expired(k)

\* The expiration task only deletes entries that have expired: a key it
\* removes holds no entry, or one whose expiration is at or before now.
\* (Spec: an entry set without expiration is never removed by the expirer.)
ExpirerRemovesOnlyExpired ==
    [][ExpirerRemoveKey =>
         LET e == tree[Head(toRemove)] IN e = Absent \/ (HasExp(e) /\ e.expiration <= now)]_vars

\* A set that reports Inserted or Updated (and so sends an expiration
\* update) stored its entry in its final compare-and-swap, and an entry it
\* inserted carries the expiration the caller asked for.
SetOutcomeMatchesWrite ==
    \A p \in Procs :
        pc[p] = "SetNotify" =>
            /\ wrote[p]
            /\ (inserted[p] => entryExp[p] = op[p].expiration)

=============================================================================
