---------------------------- MODULE MCSessions ----------------------------
EXTENDS Sessions, TLC
CONSTANTS h1, h2

MCHolders == {h1, h2}
MCSymmetry == Permutations(MCHolders)
====
