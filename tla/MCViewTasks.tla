---------------------------- MODULE MCViewTasks ----------------------------
EXTENDS ViewTasks, TLC
CONSTANTS c1, c2, d1, d2

MCCallers == {c1, c2}
MCDocs == {d1, d2}
\* Version 1 is the code of a previous process, 2 the running one.
MCVersions == {1, 2}
MCSymmetry == Permutations(MCCallers)
====
