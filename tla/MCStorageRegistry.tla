------------------------- MODULE MCStorageRegistry -------------------------
EXTENDS StorageRegistry, TLC
CONSTANTS t1, t2, admin, db, DB, bad, SA, S1, S2

MCThreads == {t1, t2}
\* `db` and `DB` differ only in case; `bad` fails validate_name.
MCNames      == {admin, db, bad}
MCNamesCase  == {admin, db, DB}
MCValid      == {admin, db, DB}
MCLower      == [n \in {admin, db, DB, bad} |-> IF n = DB THEN db ELSE n]
MCSchemas    == {SA, S1, S2}
MCInitial    == {S1}
MCUserNames  == {db, bad}
MCDbOnly     == {db}
MCUpperOnly  == {DB}
====
