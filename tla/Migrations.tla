----------------------------- MODULE Migrations -----------------------------
(***************************************************************************)
(* The indexer's database migrations: every process that starts looks up   *)
(* each file, executes it and records it, three queries with nothing       *)
(* between them that would keep a second process, a `migrate down` or a    *)
(* crash out.  A file is a text of several statements, which PostgreSQL    *)
(* executes as a whole or not at all.                                      *)
(***************************************************************************)
EXTENDS Naturals, FiniteSets

CONSTANTS
  Process,   \* processes that start the indexer or run migrate up or down
  Files,     \* how many migrations there are, in their order
  Refused    \* those whose text PostgreSQL refuses (CREATE INDEX CONCURRENTLY
             \* among several statements, as in the third migration)

ASSUME FilesAssumption == Files \in Nat /\ Refused \subseteq 1 .. Files

Migration == 1 .. Files

VARIABLES
  tables,     \* the migrations whose tables exist
  recorded,   \* the rows of the table migrations
  place,      \* where each process is
  file,       \* the file it is at
  undone,     \* the migrations a down took back, and no up executed since
  doubled,    \* those executed on top of their own tables, and not undone since
  broken      \* those at whose row a process failed, or whose row a down deleted
              \* while they had their tables, and not undone since

records     == <<recorded, undone, doubled, broken>>
migrateVars == <<tables, records, place, file>>

Queries == {"select", "execute", "insert", "last", "undo", "delete"}

MigrateInit ==
  /\ tables = {} /\ recorded = {} /\ undone = {} /\ doubled = {} /\ broken = {}
  /\ place = [p \in Process |-> "down"]
  /\ file = [p \in Process |-> 1]

At(p, from) == place[p] = from
Go(p, to, f) ==
  /\ place' = [place EXCEPT ![p] = to]
  /\ file' = [file EXCEPT ![p] = f]

-----------------------------------------------------------------------------
(* main or the command line, after ensureMigrationsTable                   *)
Begin(p) ==
  /\ At(p, "down")
  /\ Go(p, "select", 1) \/ Go(p, "last", 1)
  /\ UNCHANGED <<tables, records>>

(* migrateUp: a recorded file is skipped.                                  *)
LookUp(p) ==
  /\ At(p, "select")
  /\ IF file[p] > Files THEN Go(p, "migrated", file[p])
     ELSE IF file[p] \in recorded THEN Go(p, "select", file[p] + 1)
     ELSE Go(p, "execute", file[p])
  /\ UNCHANGED <<tables, records>>

(* Mutant of Execute: what PostgreSQL refuses is recorded all the same.    *)
ExecuteOrGoOn(p) ==
  /\ At(p, "execute")
  /\ tables' = IF file[p] \in Refused THEN tables ELSE tables \cup {file[p]}
  /\ undone' = undone \ {file[p]}
  /\ doubled' = doubled \cup ({file[p]} \cap tables)
  /\ Go(p, "insert", file[p])
  /\ UNCHANGED <<recorded, broken>>

(* The statements create what does not exist yet; but sync_status gets a   *)
(* second row, since nothing makes its first one conflict (doubled).       *)
Execute(p) ==
  /\ At(p, "execute") /\ file[p] \notin Refused
  /\ tables' = tables \cup {file[p]}
  /\ undone' = undone \ {file[p]}
  /\ doubled' = doubled \cup ({file[p]} \cap tables)
  /\ Go(p, "insert", file[p])
  /\ UNCHANGED <<recorded, broken>>

(* Mutant of Insert: ON CONFLICT DO NOTHING.                               *)
InsertAnyway(p) ==
  /\ At(p, "insert")
  /\ recorded' = recorded \cup {file[p]}
  /\ Go(p, "select", file[p] + 1)
  /\ UNCHANGED <<tables, undone, doubled, broken>>

(* A row that is there already is an error: see Fail.                      *)
Insert(p) ==
  /\ At(p, "insert") /\ file[p] \notin recorded
  /\ recorded' = recorded \cup {file[p]}
  /\ Go(p, "select", file[p] + 1)
  /\ UNCHANGED <<tables, undone, doubled, broken>>

(* migrateDown: the last recorded migration, or none.                      *)
Last(p) ==
  /\ At(p, "last")
  /\ IF recorded = {} THEN Go(p, "down", file[p])
     ELSE \E m \in recorded : (\A k \in recorded : k <= m) /\ Go(p, "undo", m)
  /\ UNCHANGED <<tables, records>>

Undo(p) ==
  /\ At(p, "undo") /\ file[p] \notin Refused
  /\ tables' = tables \ {file[p]}
  /\ undone' = undone \cup {file[p]}
  /\ doubled' = doubled \ {file[p]} /\ broken' = broken \ {file[p]}
  /\ Go(p, "delete", file[p])
  /\ UNCHANGED recorded

Delete(p) ==
  /\ At(p, "delete")
  /\ recorded' = recorded \ {file[p]}
  /\ broken' = broken \cup ({file[p]} \cap tables)
  /\ Go(p, "down", file[p])
  /\ UNCHANGED <<tables, undone, doubled>>

(* A query fails, or the process crashes: it ends with what it did so far, *)
(* and a migrated one ends when the service stops.                         *)
Fail(p) ==
  /\ ~At(p, "down")
  /\ Go(p, "down", file[p])
  /\ broken' = broken \cup (IF At(p, "insert") THEN {file[p]} ELSE {})
  /\ UNCHANGED <<tables, recorded, undone, doubled>>

MigrateStep(p) ==
  \/ Begin(p) \/ LookUp(p) \/ Execute(p) \/ Insert(p)
  \/ Last(p) \/ Undo(p) \/ Delete(p) \/ Fail(p)

MigrateNext == \E p \in Process : MigrateStep(p)

MigrateSpec == MigrateInit /\ [][MigrateNext]_migrateVars

-----------------------------------------------------------------------------
MigrateTypeOK ==
  /\ tables \subseteq Migration /\ recorded \subseteq Migration /\ undone \subseteq Migration
  /\ doubled \subseteq Migration /\ broken \subseteq Migration
  /\ place \in [Process -> Queries \cup {"down", "migrated"}]
  /\ file \in [Process -> 1 .. Files + 1]

(* What is recorded has its tables, and so has every file a process went   *)
(* past on its way up, whoever crashed or started beside it; only a down   *)
(* takes tables away, and it may leave the record behind.                  *)
RecordedIsApplied ==
  LET passed(p) == IF place[p] \in {"select", "execute", "insert", "migrated"}
                   THEN 1 .. file[p] - 1 ELSE {}
  IN recorded \cup UNION {passed(p) : p \in Process} \subseteq tables \cup undone

(* The processes that are about to record the migration m.                 *)
AtRow(m) == {p \in Process : place[p] = "insert" /\ file[p] = m}

(* A file executed a second time, on top of its own tables, does not go    *)
(* unnoticed: until a down takes it back, a process failed at its row (by  *)
(* crashing before, or by the primary key, since the other was faster) or  *)
(* is about to, or a second down deleted the row of what had come back     *)
(* after the first (migrateUp, migrateDown, 001_initial_schema_up.sql).    *)
DoublingFails ==
  \A m \in doubled :
    \/ m \in broken
    \/ \E p, q \in AtRow(m) : p # q
    \/ m \in recorded /\ AtRow(m) # {}

=============================================================================
