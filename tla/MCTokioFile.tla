---------------------------- MODULE MCTokioFile ----------------------------
EXTENDS TokioFile
CONSTANTS t1, t2, p1

MCTasks == {t1, t2}
MCPaths == {p1}
MCBytes == {1, 2}
\* The path is missing, or holds what an earlier process wrote.
MCInitFiles == {NoFile, <<1, 2>>}
MCReadLens == {1, 2}
MCWriteData == {<<1>>, <<2, 1>>}
====
