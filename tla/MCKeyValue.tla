----------------------------- MODULE MCKeyValue -----------------------------
(* Instantiates KeyValue for TLC: two full keys, a clock of two ticks.    *)
EXTENDS KeyValue, TLC

CONSTANTS k1, k2, p1, p2

MCKeys     == {k1, k2}
MCKeys1    == {k1}
MCProcs2   == {p1, p2}
MCProcs1   == {p1}
MCExpTimes == {1, 2}

\* A set stores a Bytes payload; numbers come from increment/decrement.
MCSetValues == {Bytes}
MCChecksAll == {"None", "OnlyIfPresent", "OnlyIfVacant"}
MCKeepsAll  == BOOLEAN
\* For the notify-order run: a plain set, which is what the delivery order of
\* expiration updates depends on.
MCChecksNone == {"None"}
MCKeepsNo    == {FALSE}

\* Keys and callers are interchangeable: no definition orders them.  The
\* group permutes both at once: each key permutation with each caller one.
MCSymmetry == {pk @@ pp : pk \in Permutations(MCKeys), pp \in Permutations(MCProcs2)}
=============================================================================
