\* Two threads creating, deleting and opening one user database; one
\* delete_database may meet an I/O error.
CONSTANTS
    t1 = t1  t2 = t2  admin = admin  db = db  DB = DB  bad = bad
    SA = SA  S1 = S1  S2 = S2  NoThread = NoThread  NoDb = NoDb
    Threads <- MCThreads
    Names <- MCNames
    ValidNames <- MCValid
    Lower <- MCLower
    Schemas <- MCSchemas
    Admin = admin
    AdminSchema = SA
    InitialSchemas <- MCInitial
    CreateNames <- MCUserNames
    DeleteNames <- MCDbOnly
    OpenNames <- MCDbOnly
    MaxOps = 4
    MaxFaults = 1
SPECIFICATION Spec

INVARIANT RegistryMatchesRecords

CHECK_DEADLOCK FALSE
