\* Two names that differ only in case: create one, delete the other.
CONSTANTS
    t1 = t1  t2 = t2  admin = admin  db = db  DB = DB  bad = bad
    SA = SA  S1 = S1  S2 = S2  NoThread = NoThread  NoDb = NoDb
    Threads <- MCThreads
    Names <- MCNamesCase
    ValidNames <- MCValid
    Lower <- MCLower
    Schemas <- MCSchemas
    Admin = admin
    AdminSchema = SA
    InitialSchemas <- MCInitial
    CreateNames <- MCDbOnly
    DeleteNames <- MCUpperOnly
    OpenNames <- MCDbOnly
    MaxOps = 4
    MaxFaults = 0
SPECIFICATION Spec
INVARIANT RegistryMatchesRecords
CHECK_DEADLOCK FALSE
