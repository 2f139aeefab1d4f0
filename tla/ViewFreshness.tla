---------------------------- MODULE ViewFreshness ----------------------------
(***************************************************************************)
(* What view maintenance promises a caller (the View freshness law of     *)
(* the specification): after update_view_if_needed(view, db) returns, a   *)
(* query against the view reflects every document committed before the    *)
(* call.                                                                   *)
(*                                                                         *)
(* A document's revision is the id of the transaction that last wrote it  *)
(* (0: absent).  The index holds, per document, the revision it was       *)
(* mapped from and the view version whose code mapped it.  The index      *)
(* moves only by mapping a document's current revision with the current  *)
(* code; a call may return only once the index is fresh for the           *)
(* revisions the call saw when it started.                                *)
(***************************************************************************)
EXTENDS Naturals

CONSTANTS Docs, Callers, Versions, CurVersion, NoEntry

VARIABLES lastTx, docs, index, apc, snap

vars == <<lastTx, docs, index, apc, snap>>

\* The index entry of d covers revision r under the current code.
Covers(d, r) == index[d] # NoEntry /\ index[d].ver = CurVersion /\ index[d].tx >= r

Fresh(s) == \A d \in Docs : s[d] > 0 => Covers(d, s[d])

Init ==
    /\ lastTx \in Nat
    /\ \A d \in Docs : docs[d] \in 0..lastTx
    /\ \A d \in Docs : \/ index[d] = NoEntry
                       \/ index[d].tx \in 1..docs[d] /\ index[d].ver \in Versions
    /\ apc = [c \in Callers |-> "Idle"]
    /\ snap \in [Callers -> [Docs -> 0..lastTx]]

Commit(d) ==
    /\ lastTx' = lastTx + 1
    /\ docs' = [docs EXCEPT ![d] = lastTx + 1]
    /\ UNCHANGED <<index, apc, snap>>

Call(c) ==
    /\ apc[c] = "Idle"
    /\ apc' = [apc EXCEPT ![c] = "Busy"]
    /\ snap' = [snap EXCEPT ![c] = docs]
    /\ UNCHANGED <<lastTx, docs, index>>

IndexDoc(d) ==
    /\ docs[d] > 0
    /\ index' = [index EXCEPT ![d] = [tx |-> docs[d], ver |-> CurVersion]]
    /\ UNCHANGED <<lastTx, docs, apc, snap>>

Return(c) ==
    /\ apc[c] = "Busy"
    /\ Fresh(snap[c])
    /\ apc' = [apc EXCEPT ![c] = "Idle"]
    /\ UNCHANGED <<lastTx, docs, index, snap>>

Next ==
    \/ \E d \in Docs : Commit(d) \/ IndexDoc(d)
    \/ \E c \in Callers : Call(c) \/ Return(c)

Spec == Init /\ [][Next]_vars

====
