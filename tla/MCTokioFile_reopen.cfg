\* Two tasks sharing one path that is missing or already holds two bytes;
\* reads of up to two bytes, writes of one or two, files of up to four.
CONSTANTS
    t1 = t1  t2 = t2  p1 = p1
    NoFile = NoFile  NoHandle = NoHandle  NoRead = NoRead
    Tasks <- MCTasks
    Paths <- MCPaths
    Bytes <- MCBytes
    InitFiles <- MCInitFiles
    ReadLens <- MCReadLens
    WriteData <- MCWriteData
    MaxLen = 4
SPECIFICATION Spec
INVARIANT ReadAtReadsPosition
