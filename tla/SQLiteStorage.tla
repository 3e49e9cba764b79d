----------------------------- MODULE SQLiteStorage -----------------------------
(***************************************************************************)
(* sqlite_storage.py: one aiosqlite connection for the whole process.  A   *)
(* save is two statements, each an await: INSERT OR REPLACE, which every   *)
(* later read of the connection sees, and COMMIT, which makes everything   *)
(* inserted so far durable, whoever inserted it.  Statements run in the    *)
(* order they are issued, so each takes effect in the step that issues it. *)
(* What is stored under a key is here the set of samples it has counted.   *)
(***************************************************************************)
EXTENDS Naturals, Sequences, FiniteSets

CONSTANTS
  Keys,           \* keys of kv_store
  Samples,        \* what the values under the keys count
  StorageMayFail  \* may a statement raise?

ASSUME StorageAssumption == StorageMayFail \in BOOLEAN

VARIABLES
  visible,  \* visible[k]: what a SELECT of the connection returns ({}: no row)
  durable   \* durable[k]: what the database file holds after a crash

storage == <<visible, durable>>

StorageType == {visible, durable} \subseteq [Keys -> SUBSET Samples]

StorageInit == /\ visible = [k \in Keys |-> {}]
               /\ durable = visible

Insert(k, value) == /\ visible' = [visible EXCEPT ![k] = value]
                    /\ UNCHANGED durable

(* conn.commit()  (a bug: it is left out of save()).                         *)
NoCommit == UNCHANGED storage
Commit == /\ durable' = visible
          /\ UNCHANGED visible

(* Either statement may raise; an insert before a COMMIT that raises stays in *)
(* the open transaction.                                                      *)
Fails == StorageMayFail /\ UNCHANGED storage

(* The process ends and init() opens the file again: the migrations are all   *)
(* CREATE ... IF NOT EXISTS.                                                  *)
Reopen == /\ visible' = durable
          /\ UNCHANGED durable
===============================================================================
