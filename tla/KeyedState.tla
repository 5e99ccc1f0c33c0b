----------------------------- MODULE KeyedState ------------------------------
(***************************************************************************)
(* The state backend of a task (taskmanager/state/rocksdb_backend.py), its *)
(* life over the deployments of the task (taskmanager/task_executor.py),   *)
(* and the state types that keep one cell per key in it (state_types.py).  *)
(*                                                                         *)
(* A cell is Absent or a set of values: ListState.add, MapState.put,       *)
(* ReducingState.add and AggregatingState.add read it and write it back    *)
(* with a value more, MapState.remove with one less; ValueState.update and *)
(* ListState.update write without reading.  No lock is held in between,    *)
(* and a StateDescriptor does not put its name into the key: what is said  *)
(* here of one state holds for all states that share a key.                *)
(***************************************************************************)
EXTENDS Naturals

CONSTANTS
    Keys, Values,
    Callers,            \* threads that are in process_record of the task
    MaxWrites,          \* bound: writes to the backend
    Absent

ASSUME KeyedStateAssumption ==
    /\ MaxWrites \in Nat
    /\ \A cell \in SUBSET Values : cell # Absent

Cell == (SUBSET Values) \cup {Absent}

VARIABLES
    backend,    \* Config.STATE_BACKEND
    handle,     \* "open", "cancelled" (open, its task is cancelled), "closed"
                \* or "cleared" (between close and open in clear)
    cells,      \* key -> what the backend holds: RocksDB's directory, or
                \* the dictionary
    update,     \* caller -> the update it is in: what get() returned
    scan,       \* the snapshot being taken: keys to go, cells copied
    saved,      \* the last snapshot that was returned
    writes,
    expected,   \* ghost: key -> the cell if every update were one step
    raced,      \* ghost: keys on which an update wrote over another write
    during      \* ghost: key -> the cells it has had since the scan began

life == <<backend, handle>>
ghosts == <<expected, raced, during>>
stateVars == <<life, cells, update, scan, saved, writes, ghosts>>

Change == {"put", "remove"}
Update == [change : Change, key : Keys, value : Values, read : Cell, overtaken : BOOLEAN]
Nothing == [k \in Keys |-> Absent]

StateTypeOK ==
    /\ backend \in {"rocksdb", "memory"}
    /\ handle \in {"open", "cancelled", "closed", "cleared"}
    /\ cells \in [Keys -> Cell]
    /\ update \in [Callers -> Update \cup {Absent}]
    /\ scan \in [left : SUBSET Keys, copied : [Keys -> Cell]] \cup {Absent}
    /\ saved \in [Keys -> Cell] \cup {Absent}
    /\ writes \in 0 .. MaxWrites
    /\ expected \in [Keys -> Cell]
    /\ raced \subseteq Keys
    /\ during \in [Keys -> SUBSET Cell]

StateInit ==
    /\ backend \in {"rocksdb", "memory"}
    /\ handle = "closed"
    /\ cells = Nothing
    /\ update = [c \in Callers |-> Absent]
    /\ scan = Absent
    /\ saved = Absent
    /\ writes = 0
    /\ expected = Nothing
    /\ raced = {}
    /\ during = [k \in Keys |-> {}]

Contents(cell) == IF cell = Absent THEN {} ELSE cell

\* What is written to the key of each update that is being made overtakes it.
Overtake(key) ==
    [c \in Callers |->
        IF update[c] # Absent /\ update[c].key = key
        THEN [update[c] EXCEPT !.overtaken = TRUE] ELSE update[c]]

WriteCell(key, cell) ==
    /\ writes < MaxWrites
    /\ writes' = writes + 1
    /\ cells' = [cells EXCEPT ![key] = cell]
    /\ during' = [k \in Keys |->
          IF scan # Absent /\ k = key THEN during[k] \cup {cell} ELSE during[k]]
-----------------------------------------------------------------------------
(* The state types, called by the operator of a record.                    *)

\* The first half of add, add_all, put and remove.
GetCell(c, change, key, value) ==
    /\ handle = "open"
    /\ writes < MaxWrites
    /\ update[c] = Absent
    /\ update' = [update EXCEPT ![c] =
          [change |-> change, key |-> key, value |-> value,
           read |-> cells[key], overtaken |-> FALSE]]
    /\ UNCHANGED <<life, cells, scan, saved, writes, ghosts>>

Changed(change, value, cell) ==
    IF change = "put" THEN Contents(cell) \cup {value} ELSE Contents(cell) \ {value}

\* remove writes only if the value is there.
Unwritten(u) == u.change = "remove" /\ u.value \notin Contents(u.read)

\* The second half; with the database closed by a clear, put raises.
PutCell(c) ==
    /\ update[c] # Absent
    /\ LET u == update[c] IN
       \/ /\ handle \in {"open", "cancelled"} /\ ~Unwritten(u)
          /\ WriteCell(u.key, Changed(u.change, u.value, u.read))
          /\ update' = [Overtake(u.key) EXCEPT ![c] = Absent]
          /\ expected' = [expected EXCEPT
                ![u.key] = Changed(u.change, u.value, @)]
          /\ raced' = IF u.overtaken THEN raced \cup {u.key} ELSE raced
       \/ /\ handle = "cleared" \/ Unwritten(u)
          /\ update' = [update EXCEPT ![c] = Absent]
          /\ UNCHANGED <<cells, writes, ghosts>>
    /\ UNCHANGED <<life, scan, saved>>

\* ValueState.update and ListState.update; with Absent, clear() of any type.
Assign(c, key, cell) ==
    /\ handle = "open"
    /\ update[c] = Absent
    /\ WriteCell(key, cell)
    /\ update' = Overtake(key)
    /\ expected' = [expected EXCEPT ![key] = cell]
    /\ raced' = raced \ {key}
    /\ UNCHANGED <<life, scan, saved>>
-----------------------------------------------------------------------------
(* The backend's snapshot, restore and clear.                              *)

Present == {k \in Keys : cells[k] # Absent}

\* The keys are those of this moment; a dictionary is copied at once.
BeginSnapshot ==
    /\ handle = "open"
    /\ scan = Absent
    /\ \/ /\ backend = "rocksdb"
          /\ scan' = [left |-> Present, copied |-> Nothing]
          /\ during' = [k \in Keys |-> {cells[k]}]
          /\ UNCHANGED saved
       \/ /\ backend = "memory"
          /\ saved' = cells
          /\ UNCHANGED <<scan, during>>
    /\ UNCHANGED <<life, cells, update, writes, expected, raced>>

\* Mutant of Copied: the values are those of the last snapshot.
CopiedBefore(key) == IF saved = Absent THEN cells[key] ELSE saved[key]
\* A key that was deleted meanwhile has no value and is left out.
Copied(key) == cells[key]

SnapshotKey(key) ==
    /\ handle = "open"
    /\ scan # Absent
    /\ key \in scan.left
    /\ scan' = [left |-> scan.left \ {key},
                copied |-> [scan.copied EXCEPT ![key] = Copied(key)]]
    /\ UNCHANGED <<life, cells, update, saved, writes, ghosts>>

EndSnapshot ==
    /\ scan # Absent
    /\ scan.left = {}
    /\ saved' = scan.copied
    /\ scan' = Absent
    /\ during' = [k \in Keys |-> {}]
    /\ UNCHANGED <<life, cells, update, writes, expected, raced>>

\* RocksDB is written over, key by key of the snapshot and in one batch; keys
\* that are not in the snapshot stay.  A dictionary is replaced.
Overlaid(key) ==
    IF backend = "rocksdb" /\ saved[key] = Absent THEN cells[key] ELSE saved[key]

Restore ==
    /\ handle = "open"
    /\ saved # Absent
    /\ writes < MaxWrites
    /\ writes' = writes + 1
    /\ cells' = [k \in Keys |-> Overlaid(k)]
    /\ expected' = cells'
    /\ raced' = {}
    /\ during' = [k \in Keys |->
          IF scan # Absent THEN during[k] \cup {cells'[k]} ELSE during[k]]
    /\ update' = [c \in Callers |->
          IF update[c] = Absent THEN Absent ELSE [update[c] EXCEPT !.overtaken = TRUE]]
    /\ UNCHANGED <<life, scan, saved>>

Emptied ==
    /\ cells' = Nothing
    /\ expected' = Nothing
    /\ raced' = {}
    /\ update' = [c \in Callers |->
          IF update[c] = Absent THEN Absent ELSE [update[c] EXCEPT !.overtaken = TRUE]]
    /\ scan' = Absent
    /\ during' = [k \in Keys |-> {}]

\* clear: the database is closed and its directory removed, then opened anew.
BeginClear ==
    /\ handle = "open"
    /\ handle' = IF backend = "rocksdb" THEN "cleared" ELSE handle
    /\ Emptied
    /\ UNCHANGED <<backend, saved, writes>>

EndClear ==
    /\ handle = "cleared"
    /\ handle' = "open"
    /\ UNCHANGED <<backend, cells, update, scan, saved, writes, ghosts>>
-----------------------------------------------------------------------------
(* The task's life.  A new backend of a cancelled task's name is refused   *)
(* by RocksDB as long as the old one is open: the deployment raises.       *)

\* Mutant of Kept: a RocksDB backend begins with an empty directory.
NothingKept == FALSE
Kept == backend = "rocksdb"

Opened(left) ==
    /\ handle' = left
    /\ update' = [c \in Callers |-> Absent]
    /\ scan' = Absent
    /\ during' = [k \in Keys |-> {}]
    /\ cells' = IF Kept THEN cells ELSE Nothing
    /\ expected' = IF backend = "rocksdb" THEN expected ELSE Nothing
    /\ raced' = IF backend = "rocksdb" THEN raced ELSE {}
    /\ UNCHANGED <<backend, saved, writes>>

\* deploy_task: a dictionary that is still in use is left to its old callers.
OpenBackend ==
    /\ handle = "closed" \/ (handle = "cancelled" /\ backend = "memory")
    /\ Opened("open")

CancelTask ==
    /\ handle = "open"
    /\ handle' = "cancelled"
    /\ scan' = Absent
    /\ during' = [k \in Keys |-> {}]
    /\ UNCHANGED <<backend, cells, update, saved, writes, expected, raced>>

\* The last thread leaves the cancelled task, and __del__ closes the backend.
CloseBackend ==
    /\ handle = "cancelled"
    /\ \A c \in Callers : update[c] = Absent
    /\ Opened("closed")

\* The process of the TaskManager dies.
ProcessDies ==
    /\ handle # "closed"
    /\ Opened("closed")

StateNext ==
    \/ \E c \in Callers, key \in Keys :
          \/ \E change \in Change, value \in Values : GetCell(c, change, key, value)
          \/ \E cell \in {{v} : v \in Values} \cup {Absent} : Assign(c, key, cell)
    \/ \E c \in Callers : PutCell(c)
    \/ BeginSnapshot \/ EndSnapshot \/ \E key \in Keys : SnapshotKey(key)
    \/ Restore \/ BeginClear \/ EndClear
    \/ OpenBackend \/ CancelTask \/ CloseBackend \/ ProcessDies

StateSpec == StateInit /\ [][StateNext]_stateVars
-----------------------------------------------------------------------------
(* As long as no two updates of a key overlap, its cell is what the        *)
(* updates made of it one after the other, over snapshots, cancellations,  *)
(* crashes and deployments; another key's updates never matter.            *)
CellsExact ==
    \A k \in Keys \ raced : cells[k] = expected[k]

(* A snapshot is not of one moment, since values are read while others are *)
(* written; but each of its cells was the key's cell at some moment while  *)
(* the snapshot was taken, and a key that was there throughout is in it.   *)
SnapshotsPerKey ==
    [][scan # Absent /\ saved' # saved =>
          \A k \in Keys : saved'[k] \in during[k]]_stateVars
=============================================================================
