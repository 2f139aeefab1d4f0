------------------------------ MODULE TokioFile ------------------------------
(***************************************************************************)
(* The tokio backend of the roots file layer (roots/src/async_file/       *)
(* tokio.rs): TokioFile, which remembers a position and seeks relative to *)
(* it, and TokioFileManager, which caches one append handle per path and  *)
(* opens an uncached handle for every reader.                             *)
(*                                                                         *)
(* The operating system's side is kept beside the code's: each handle has *)
(* the `position` the code tracks and the `offset` of its file            *)
(* description.  A file opened for reading starts at offset 0; so does    *)
(* one opened with append(true), whose writes all go to the end of the   *)
(* file whatever the offset, after which the offset is the new end.  A   *)
(* seek to a negative offset fails.  Reads and writes may move fewer      *)
(* bytes than asked.  The caller of the file layer (the append-only tree  *)
(* store) reads inside the file and writes at its end.                    *)
(***************************************************************************)
EXTENDS Naturals, Sequences

CONSTANTS
    Tasks,        \* tasks using the manager
    Paths,        \* file paths
    Bytes,        \* byte values
    InitFiles,    \* possible contents of a path when the manager starts
    ReadLens,     \* buffer lengths of read_at
    WriteData,    \* buffers of write_at
    MaxLen,       \* bound on a file's length
    NoFile, NoHandle, NoRead

ASSUME /\ InitFiles \subseteq Seq(Bytes) \cup {NoFile}
       /\ ReadLens \subseteq Nat \ {0} /\ WriteData \subseteq Seq(Bytes) \ {<<>>}

VARIABLES
    disk,         \* path -> contents or NoFile
    appender,     \* open_files: path -> its TokioFile or NoHandle
    reader,       \* per task: its uncached read handle or NoHandle
    pc,           \* per task: "Idle", "Append" or "Read"
    path,         \* per task: the path of the handle it holds
    lastRead      \* per task: the last read_at's request and outcome

vars == <<disk, appender, reader, pc, path, lastRead>>

Length(p) == IF disk[p] = NoFile THEN 0 ELSE Len(disk[p])

\* TokioFile::read: File::open, position 0; the offset starts at 0.
OpenRead == [position |-> 0, offset |-> 0]

\* TokioFile::append: the position is the length metadata reports (0 for a
\* missing file), but the file opened with append(true) is at offset 0.
OpenAppend(p) == [position |-> Length(p), offset |-> 0]

\* The handle task t holds: the shared appender or its own reader.
Handle(t) == IF pc[t] = "Append" THEN appender[path[t]] ELSE reader[t]

SetHandle(t, f) ==
    IF pc[t] = "Append"
      THEN /\ appender' = [appender EXCEPT ![path[t]] = f]
           /\ UNCHANGED reader
      ELSE /\ reader' = [reader EXCEPT ![t] = f]
           /\ UNCHANGED appender

Init ==
    /\ disk \in [Paths -> InitFiles]
    /\ appender = [p \in Paths |-> NoHandle]
    /\ reader = [t \in Tasks |-> NoHandle]
    /\ pc = [t \in Tasks |-> "Idle"]
    /\ path = [t \in Tasks |-> CHOOSE p \in Paths : TRUE]
    /\ lastRead = [t \in Tasks |-> NoRead]

-----------------------------------------------------------------------------
(* TokioFileManager                                                       *)

\* append: under the open_files lock, reuse the cached file or open one
\* with TokioFile::append, whose position is the length metadata reports.
ManagerAppend(t, p) ==
    /\ pc[t] = "Idle"
    /\ IF appender[p] # NoHandle
         THEN UNCHANGED <<disk, appender>>
         ELSE /\ appender' = [appender EXCEPT ![p] = OpenAppend(p)]
              /\ disk' = [disk EXCEPT ![p] = IF @ = NoFile THEN <<>> ELSE @]
    /\ pc' = [pc EXCEPT ![t] = "Append"]
    /\ path' = [path EXCEPT ![t] = p]
    /\ UNCHANGED <<reader, lastRead>>

\* read: File::open of an existing file, position 0.
ManagerRead(t, p) ==
    /\ pc[t] = "Idle" /\ disk[p] # NoFile
    /\ reader' = [reader EXCEPT ![t] = OpenRead]
    /\ pc' = [pc EXCEPT ![t] = "Read"]
    /\ path' = [path EXCEPT ![t] = p]
    /\ UNCHANGED <<disk, appender, lastRead>>

\* OpenTokioFile::close drops the handle; the manager keeps its appender.
Close(t) ==
    /\ pc[t] # "Idle"
    /\ pc' = [pc EXCEPT ![t] = "Idle"]
    /\ reader' = [reader EXCEPT ![t] = NoHandle]
    /\ UNCHANGED <<disk, appender, path, lastRead>>

-----------------------------------------------------------------------------
(* TokioFile::read_at and write_at, each one FileOp under the handle's   *)
(* mutex                                                                  *)

\* let delta = position - self.position; seek(SeekFrom::Current(delta)).
\* The result is the handle after the seek, or NoHandle if it failed.
SeekTo(f, at) ==
    LET target == f.offset + (at - f.position)
    IN  IF at = f.position THEN f
        ELSE IF target < 0 THEN NoHandle
        ELSE [position |-> target, offset |-> target]

ReadAt(t, at, n) ==
    /\ pc[t] # "Idle"
    /\ at \in 0..Length(path[t])
    /\ LET f == SeekTo(Handle(t), at)
           contents == disk[path[t]]
       IN  IF f = NoHandle
             THEN /\ lastRead' = [lastRead EXCEPT ![t] = [at |-> at, ok |-> FALSE,
                                                          data |-> <<>>]]
                  /\ UNCHANGED <<appender, reader>>
             ELSE \E k \in 0..n :
                    \* a read moves some bytes, none only at the end of file
                    /\ IF f.offset >= Len(contents) THEN k = 0
                       ELSE k \in 1..(Len(contents) - f.offset)
                    /\ SetHandle(t, [position |-> f.position + k,
                                     offset |-> f.offset + k])
                    /\ lastRead' = [lastRead EXCEPT ![t] =
                          [at |-> at, ok |-> TRUE,
                           data |-> SubSeq(contents, f.offset + 1, f.offset + k)]]
    /\ UNCHANGED <<disk, pc, path>>

\* The tree store writes at the end of the file it has written.
WriteAt(t, data) ==
    /\ pc[t] = "Append"
    /\ Length(path[t]) + Len(data) <= MaxLen
    /\ LET f == SeekTo(Handle(t), Length(path[t]))
           p == path[t]
       IN  IF f = NoHandle
             THEN UNCHANGED <<disk, appender>>
             ELSE \E k \in 1..Len(data) :
                    /\ disk' = [disk EXCEPT ![p] = @ \o SubSeq(data, 1, k)]
                    /\ appender' = [appender EXCEPT ![p] =
                          [position |-> f.position + k, offset |-> Len(disk[p]) + k]]
    /\ UNCHANGED <<reader, pc, path, lastRead>>

Next ==
    \E t \in Tasks :
        \/ \E p \in Paths : ManagerAppend(t, p) \/ ManagerRead(t, p)
        \/ Close(t)
        \/ \E at \in 0..MaxLen, n \in ReadLens : ReadAt(t, at, n)
        \/ \E data \in WriteData : WriteAt(t, data)

Spec == Init /\ [][Next]_vars

-----------------------------------------------------------------------------
(* Properties                                                             *)

TypeOK ==
    /\ \A p \in Paths : disk[p] = NoFile \/ Len(disk[p]) <= MaxLen
    /\ pc \in [Tasks -> {"Idle", "Append", "Read"}]
    /\ path \in [Tasks -> Paths]

\* read_at(position, ..) reads the file at `position` ("Seek to the
\* appropriate location"): every read inside the file succeeds and returns
\* the bytes stored from that position on.  It relies on the position
\* TokioFile tracks being the offset of its file description.
ReadAtReadsPosition ==
    \A t \in Tasks :
        lastRead[t] # NoRead =>
            /\ lastRead[t].ok
            /\ lastRead[t].data = SubSeq(disk[path[t]], lastRead[t].at + 1,
                                         lastRead[t].at + Len(lastRead[t].data))

====
