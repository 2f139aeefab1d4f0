--------------------------- MODULE StorageRegistry ---------------------------
(***************************************************************************)
(* The database registry of a BonsaiDb StorageInstance                    *)
(* (crates/bonsaidb-local/src/storage.rs).                                *)
(*                                                                         *)
(* Three maps behind three locks: `schemas` (RwLock, schema -> opener),   *)
(* `available_databases` (RwLock, name -> schema, the in-memory copy of   *)
(* the admin database's DatabaseRecord collection) and `open_roots`       *)
(* (Mutex, name -> open nebari Roots, whose opening creates the          *)
(* database's directory).  Threads create, delete and open databases and *)
(* register schemas concurrently; each step of a thread below is one     *)
(* critical section or one lock acquisition of the code.                  *)
(*                                                                         *)
(* A read lock taken and released within one step is a guard that no     *)
(* writer holds it.  Every open_roots critical section is a single step  *)
(* (no thread waits for another lock while holding the mutex), so the     *)
(* mutex is not a variable.  The admin records are looked up through the  *)
(* ByName view with name.to_ascii_lowercase(): Lower maps a name to that *)
(* key.                                                                    *)
(***************************************************************************)
EXTENDS Naturals, FiniteSets

CONSTANTS
    Threads,      \* concurrent users of the StorageInstance
    Names,        \* database names
    ValidNames,   \* the names validate_name accepts
    Lower,        \* name -> its ASCII-lowercased ByName key
    Schemas,      \* schema names
    Admin,        \* ADMIN_DATABASE_NAME
    AdminSchema,  \* the Admin schema's name
    InitialSchemas, \* StorageConfiguration::initial_schemas
    CreateNames, DeleteNames, OpenNames, \* arguments the threads pass
    MaxOps,       \* bound on operations started
    MaxFaults,    \* bound on I/O errors of delete_database
    NoThread, NoDb

ASSUME /\ Admin \in ValidNames /\ Admin \in Names
       /\ AdminSchema \in Schemas /\ InitialSchemas \subseteq Schemas \ {AdminSchema}
       /\ (CreateNames \cup DeleteNames \cup OpenNames) \subseteq Names

VARIABLES
    schemas,      \* registered schema names
    available,    \* available_databases: name -> schema or NoDb
    records,      \* the admin DatabaseRecord collection: [name, schema]
    openRoots,    \* names with an entry in open_roots
    dirs,         \* names whose directory exists on disk
    schemasW,     \* holder of schemas' write lock
    availW,       \* holder of available_databases' write lock
    pc,           \* per thread: "Idle" or its step
    arg,          \* per thread: [name, schema] of its operation
    ops,          \* operations started
    faults        \* I/O errors so far

vars == <<schemas, available, records, openRoots, dirs, schemasW, availW,
          pc, arg, ops, faults>>
lockVars == <<schemasW, availW>>

Registered == {n \in Names : available[n] # NoDb}
RecordWithKey(n) == {r \in records : Lower[r.name] = Lower[n]}

\* open_roots(name): under the mutex, open (and so create the directory
\* of) a database whose roots are not cached yet.
OpenRootsOf(n) ==
    /\ openRoots' = openRoots \cup {n}
    /\ dirs' = dirs \cup {n}

Start(t) ==
    /\ pc[t] = "Idle"
    /\ ops < MaxOps
    /\ ops' = ops + 1

Finish(t) == pc' = [pc EXCEPT ![t] = "Idle"]
Goto(t, l) == pc' = [pc EXCEPT ![t] = l]

-----------------------------------------------------------------------------
(* create_database_with_schema                                            *)

\* validate_name, then the schema check under a read lock of `schemas`.
CreateBegin(t) ==
    \E n \in CreateNames, s \in Schemas :
        /\ Start(t)
        /\ arg' = [arg EXCEPT ![t] = [name |-> n, schema |-> s]]
        /\ IF n \in ValidNames
             THEN /\ schemasW = NoThread
                  /\ IF s \in schemas THEN Goto(t, "CreateLockAvail") ELSE Finish(t)
             ELSE Finish(t)
        /\ UNCHANGED <<schemas, available, records, openRoots, dirs, lockVars, faults>>

CreateLockAvail(t) ==
    /\ pc[t] = "CreateLockAvail"
    /\ availW = NoThread
    /\ availW' = t
    /\ Goto(t, "CreateAdmin")
    /\ UNCHANGED <<schemas, available, records, openRoots, dirs, schemasW,
                   arg, ops, faults>>

\* admin() (open_roots lock), the ByName lookup, and either the name is
\* taken or the record is pushed and available_databases updated.
CreateAdmin(t) ==
    LET n == arg[t].name IN
    /\ pc[t] = "CreateAdmin"
    /\ IF RecordWithKey(n) = {}
         THEN /\ records' = records \cup {arg[t]}
              /\ available' = [available EXCEPT ![n] = arg[t].schema]
         ELSE UNCHANGED <<records, available>>
    /\ availW' = NoThread
    /\ Finish(t)
    /\ UNCHANGED <<schemas, openRoots, dirs, schemasW, arg, ops, faults>>

-----------------------------------------------------------------------------
(* delete_database                                                        *)

\* admin() takes and releases the open_roots mutex.
DeleteBegin(t) ==
    \E n \in DeleteNames :
        /\ Start(t)
        /\ arg' = [arg EXCEPT ![t] = [name |-> n, schema |-> NoDb]]
        /\ Goto(t, "DeleteLockAvail")
        /\ UNCHANGED <<schemas, available, records, openRoots, dirs, lockVars, faults>>

DeleteLockAvail(t) ==
    /\ pc[t] = "DeleteLockAvail"
    /\ availW = NoThread
    /\ availW' = t
    /\ available' = [available EXCEPT ![arg[t].name] = NoDb]
    /\ Goto(t, "DeleteLockRoots")
    /\ UNCHANGED <<schemas, records, openRoots, dirs, schemasW, arg, ops, faults>>

\* With both guards held to the end: drop the cached roots, delete the
\* folder if it exists, then delete the ByName record (or fail with
\* DatabaseNotFound).  delete_directory and the admin query or delete can
\* fail with an I/O error (at most MaxFaults times): the `?` returns at
\* once, dropping both guards, with the steps before it done.
DeleteLockRoots(t) ==
    LET n == arg[t].name IN
    /\ pc[t] = "DeleteLockRoots"
    /\ openRoots' = openRoots \ {n}
    /\ \/ /\ dirs' = dirs \ {n}
          /\ records' = records \ RecordWithKey(n)
          /\ UNCHANGED faults
       \/ /\ faults < MaxFaults /\ faults' = faults + 1
          /\ \/ n \in dirs /\ UNCHANGED dirs
             \/ dirs' = dirs \ {n}
          /\ UNCHANGED records
    /\ availW' = NoThread
    /\ Finish(t)
    /\ UNCHANGED <<schemas, available, schemasW, arg, ops>>

-----------------------------------------------------------------------------
(* database_without_schema (database::<DB>, DatabaseOpener::open)          *)

\* The schema is read under a read lock that is released at once.
OpenBegin(t) ==
    \E n \in OpenNames :
        /\ Start(t)
        /\ availW = NoThread
        /\ arg' = [arg EXCEPT ![t] = [name |-> n, schema |-> available[n]]]
        /\ IF available[n] # NoDb THEN Goto(t, "OpenLockSchemas") ELSE Finish(t)
        /\ UNCHANGED <<schemas, available, records, openRoots, dirs, lockVars, faults>>

OpenLockSchemas(t) ==
    /\ pc[t] = "OpenLockSchemas"
    /\ schemasW = NoThread
    /\ IF arg[t].schema \in schemas
         THEN schemasW' = t /\ Goto(t, "OpenRoots")
         ELSE UNCHANGED schemasW /\ Finish(t)
    /\ UNCHANGED <<schemas, available, records, openRoots, dirs, availW,
                   arg, ops, faults>>

\* The opener's open_roots(name), then Database::new; `schemas` released.
OpenRoots(t) ==
    /\ pc[t] = "OpenRoots"
    /\ OpenRootsOf(arg[t].name)
    /\ schemasW' = NoThread
    /\ Finish(t)
    /\ UNCHANGED <<schemas, available, records, availW, arg, ops, faults>>

-----------------------------------------------------------------------------
(* register_schema                                                        *)

\* Insert under the write lock; an existing entry makes it an error.
RegisterSchema(t) ==
    \E s \in Schemas :
        /\ Start(t)
        /\ schemasW = NoThread
        /\ schemas' = schemas \cup {s}
        /\ arg' = [arg EXCEPT ![t] = [name |-> NoDb, schema |-> s]]
        /\ UNCHANGED <<available, records, openRoots, dirs, lockVars, pc, faults>>

-----------------------------------------------------------------------------

\* Storage::open over a persisted admin collection: the admin roots are
\* opened, available_databases is cached from the ByName view, then the
\* Admin schema is registered and the admin database created if needed.
Init ==
    \E persisted \in SUBSET [name : (Names \cap ValidNames) \ {Admin}, schema : InitialSchemas],
       opened \in SUBSET (Names \ {Admin}) :
        /\ \A r1, r2 \in persisted : Lower[r1.name] = Lower[r2.name] => r1 = r2
        /\ opened \subseteq {r.name : r \in persisted}
        /\ records = persisted \cup {[name |-> Admin, schema |-> AdminSchema]}
        /\ available = [n \in Names |-> IF n = Admin THEN AdminSchema
                                         ELSE IF \E r \in persisted : r.name = n
                                              THEN (CHOOSE r \in persisted : r.name = n).schema
                                              ELSE NoDb]
        /\ schemas = InitialSchemas \cup {AdminSchema}
        /\ openRoots = {Admin}
        /\ dirs = opened \cup {Admin}
        /\ schemasW = NoThread /\ availW = NoThread
        /\ pc = [t \in Threads |-> "Idle"]
        /\ arg = [t \in Threads |-> [name |-> NoDb, schema |-> NoDb]]
        /\ ops = 0
        /\ faults = 0

Next ==
    \E t \in Threads :
        \/ CreateBegin(t) \/ CreateLockAvail(t) \/ CreateAdmin(t)
        \/ DeleteBegin(t) \/ DeleteLockAvail(t) \/ DeleteLockRoots(t)
        \/ OpenBegin(t) \/ OpenLockSchemas(t) \/ OpenRoots(t)
        \/ RegisterSchema(t)

Spec == Init /\ [][Next]_vars

-----------------------------------------------------------------------------
(* Properties                                                              *)

\* Database records and the cached map only ever name valid databases.
TypeOK ==
    /\ schemas \subseteq Schemas
    /\ available \in [Names -> Schemas \cup {NoDb}]
    /\ records \subseteq [name : Names \cap ValidNames, schema : Schemas]
    /\ openRoots \subseteq Names /\ dirs \subseteq Names
    /\ {schemasW, availW} \subseteq Threads \cup {NoThread}
    /\ pc \in [Threads -> {"Idle", "CreateLockAvail", "CreateAdmin", "DeleteLockAvail",
                           "DeleteLockRoots", "OpenLockSchemas", "OpenRoots"}]
    /\ ops \in 0..MaxOps
    /\ faults \in 0..MaxFaults

\* Whenever no writer holds available_databases, it is exactly the admin
\* collection's DatabaseRecords (what cache_available_databases would
\* rebuild on the next open): the same names with the same schemas.
RegistryMatchesRecords ==
    availW = NoThread =>
        /\ Registered = {r.name : r \in records}
        /\ \A r \in records : available[r.name] = r.schema

\* Cached roots and database directories exist only for registered
\* databases once no writer is mid-update: a deleted database leaves no
\* open roots and no directory behind.
RootsOnlyForRegistered ==
    availW = NoThread => openRoots \cup dirs \subseteq Registered

====
