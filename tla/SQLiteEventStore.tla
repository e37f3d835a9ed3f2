-------------------------- MODULE SQLiteEventStore --------------------------
(***************************************************************************)
(* relprim.SQLiteEventStore: several stores, each in a process of its own, *)
(* on one database file.                                                   *)
(*                                                                         *)
(* A call (emit, history or delete_before) is an asyncio task; its SQLite  *)
(* work runs in a worker thread.  Cancelling the task drops the work only  *)
(* while it is queued: a started thread runs on, and its result goes       *)
(* nowhere.  SQLite is modelled by the guarantees the store uses: one      *)
(* write lock, transactions that commit or roll back as a whole, and ids   *)
(* that AUTOINCREMENT never reuses.                                        *)
(***************************************************************************)
EXTENDS Naturals, FiniteSets, FiniteSetsExt

CONSTANTS
  Stores,           \* SQLiteEventStore objects on the file, one per process
  Emits,            \* emit() calls, each with an event of its own
  Reads,            \* readers that page through history()
  Deletes,          \* delete_before() calls
  StoreOf,          \* the store a call is made on
  Timestamp,        \* of an event
  Before,           \* the argument of a delete_before() call
  Wanted,           \* the events that match a reader's filters
  Limit,            \* of a page
  SchemaVersion,    \* _SCHEMA_VERSION
  InitialVersions,  \* schema versions the file may start with; 0 for none
  NoCall

Calls == Emits \cup Reads \cup Deletes

ASSUME StoreAssumption ==
  /\ Emits \cap Reads = {} /\ Emits \cap Deletes = {} /\ Reads \cap Deletes = {}
  /\ StoreOf \in [Calls -> Stores]
  /\ Timestamp \in [Emits -> Nat]
  /\ Before \in [Deletes -> Nat]
  /\ Wanted \in [Reads -> SUBSET Emits]
  /\ Limit \in Nat \ {0}
  /\ SchemaVersion \in Nat \ {0}
  /\ InitialVersions \subseteq Nat
  /\ NoCall \notin Calls

VARIABLES
  initialized,  \* _initialized of each store
  lock,         \* the call holding _initialize_lock, or NoCall
  pc,           \* where each call is
  thread,       \* the worker thread of each call
  wal,          \* the journal mode of the file is WAL
  version,      \* the schema version in the file
  rows,         \* committed rows of relprim_events
  lastId,       \* sqlite_sequence of relprim_events
  writer,       \* the call whose connection holds SQLite's write lock
  page,         \* the rows a history() thread has fetched
  cursor,       \* the reader's last sequence id; 0 before its first page
  seen,         \* the rows a reader was given
  idOf,         \* history: the id an event was committed under; 0 if never
  earlier       \* history: the emits that had returned when emit() was called

store == <<initialized, lock>>
db == <<wal, version, rows, lastId, writer>>
reader == <<page, cursor, seen>>
history == <<idOf, earlier>>
vars == <<store, pc, thread, db, reader, history>>

Row(id, e) == [id |-> id, event |-> e]

\* Where a call waits, and where it ends.  A reader comes back to "idle".
Waiting == {"lock", "init", "work"}
Ended == {"returned", "raised", "cancelled", "crashed"}

\* A thread is queued for initialization or for its statement, runs
\* _initialize_sync step by step or the statement, and has a result.
Writing == {"switching", "migrating", "write"}
Running == {"wal", "switching", "begin", "migrating", "opened", "write"}

Init ==
  /\ initialized = [s \in Stores |-> FALSE]
  /\ lock = [s \in Stores |-> NoCall]
  /\ pc = [c \in Calls |-> "idle"]
  /\ thread = [c \in Calls |-> "none"]
  /\ version \in InitialVersions
  /\ wal = (version > 0)
  /\ rows = {}
  /\ lastId = 0
  /\ writer = NoCall
  /\ page = [r \in Reads |-> {}]
  /\ cursor = [r \in Reads |-> 0]
  /\ seen = [r \in Reads |-> {}]
  /\ idOf = [e \in Emits |-> 0]
  /\ earlier = [e \in Emits |-> {}]

-----------------------------------------------------------------------------
(* The task: emit(), history() and delete_before() with                    *)
(* _ensure_initialized().  A definition named Fault... is a deliberate bug *)
(* that no action uses.                                                    *)

Goto(c, where, work) ==
  /\ pc' = [pc EXCEPT ![c] = where]
  /\ thread' = [thread EXCEPT ![c] = work]

\* Both looks at _initialized, before the lock and under it; `holder` is
\* who has the lock if the initialization has to run.
Ensure(c) ==
  IF initialized[StoreOf[c]]
  THEN Goto(c, "work", "op") /\ UNCHANGED lock
  ELSE /\ Goto(c, "init", "init")
       /\ lock' = [lock EXCEPT ![StoreOf[c]] = c]

LockFree(s) == lock[s] = NoCall
LockWaiters(s) == {c \in Calls : StoreOf[c] = s /\ pc[c] = "lock"}

Call(c) ==
  LET s == StoreOf[c]
  IN /\ pc[c] = "idle"
     /\ IF initialized[s] \/ (LockFree(s) /\ LockWaiters(s) = {})
        THEN Ensure(c)
        ELSE pc' = [pc EXCEPT ![c] = "lock"] /\ UNCHANGED <<thread, lock>>
     /\ earlier' = IF c \in Emits
                   THEN [earlier EXCEPT ![c] = {e \in Emits : pc[e] = "returned"}]
                   ELSE earlier
     /\ UNCHANGED <<initialized, db, reader, idOf>>

Acquire(c) ==
  /\ pc[c] = "lock"
  /\ LockFree(StoreOf[c])
  /\ Ensure(c)
  /\ UNCHANGED <<initialized, db, reader, history>>

Unlocked(c) == [lock EXCEPT ![StoreOf[c]] = IF @ = c THEN NoCall ELSE @]

\* Fault: the store counts as initialized whatever the thread has met.
FaultAlwaysInitialized(c) ==
  /\ pc[c] = "init"
  /\ thread[c] \in {"ready", "failed"}
  /\ initialized' = [initialized EXCEPT ![StoreOf[c]] = TRUE]
  /\ lock' = Unlocked(c)
  /\ Goto(c, "work", "op")
  /\ UNCHANGED <<db, reader, history>>

InitializeReturns(c) ==
  /\ pc[c] = "init"
  /\ lock' = Unlocked(c)
  /\ \/ /\ thread[c] = "ready"
        /\ initialized' = [initialized EXCEPT ![StoreOf[c]] = TRUE]
        /\ Goto(c, "work", "op")
     \/ /\ thread[c] = "failed"
        /\ Goto(c, "raised", "none")
        /\ UNCHANGED initialized
  /\ UNCHANGED <<db, reader, history>>

\* Fault: emit() does not wait for its thread.
FaultReturnsEarly(c) ==
  /\ pc[c] = "work"
  /\ c \notin Reads
  /\ pc' = [pc EXCEPT ![c] = "returned"]
  /\ UNCHANGED <<store, thread, db, reader, history>>

\* The reader takes the last sequence id of a page as its next cursor.
WorkReturns(c) ==
  /\ pc[c] = "work"
  /\ \/ /\ thread[c] = "failed"
        /\ Goto(c, "raised", "none")
        /\ UNCHANGED reader
     \/ /\ thread[c] = "stored"
        /\ c \notin Reads
        /\ Goto(c, "returned", "none")
        /\ UNCHANGED reader
     \/ /\ thread[c] = "stored"
        /\ c \in Reads
        /\ Goto(c, "idle", "none")
        /\ seen' = [seen EXCEPT ![c] = @ \cup page[c]]
        /\ cursor' = [cursor EXCEPT ![c] = Max({@} \cup {r.id : r \in page[c]})]
        /\ page' = [page EXCEPT ![c] = {}]
  /\ UNCHANGED <<store, db, history>>

\* Fault: a cancelled initialization does not release the lock.
FaultCancelKeepsLock(c) ==
  /\ pc[c] \in Waiting
  /\ pc' = [pc EXCEPT ![c] = "cancelled"]
  /\ thread' = [thread EXCEPT ![c] = IF @ \in {"init", "op"} THEN "none" ELSE @]
  /\ UNCHANGED <<store, db, reader, history>>

\* Cancelling the task drops its thread only while that is still queued.
Cancel(c) ==
  /\ pc[c] \in Waiting
  /\ pc' = [pc EXCEPT ![c] = "cancelled"]
  /\ thread' = [thread EXCEPT ![c] = IF @ \in {"init", "op"} THEN "none" ELSE @]
  /\ lock' = Unlocked(c)
  /\ UNCHANGED <<initialized, db, reader, history>>

-----------------------------------------------------------------------------
(* The worker thread: _connect(), then _initialize_sync() or a statement   *)

Step(c, from, to) == thread[c] = from /\ thread' = [thread EXCEPT ![c] = to]

Connect(c) ==
  /\ Step(c, "init", "wal") \/ Step(c, "op", "opened")
  /\ UNCHANGED <<store, pc, db, reader, history>>

\* _enable_wal: while another connection is in the way the thread sleeps
\* and looks again, until it fails at its deadline.
WalOn(c) ==
  /\ wal
  /\ Step(c, "wal", "begin")
  /\ UNCHANGED <<store, pc, db, reader, history>>

StartSwitch(c) ==
  /\ ~wal
  /\ writer = NoCall
  /\ Step(c, "wal", "switching")
  /\ writer' = c
  /\ UNCHANGED <<store, pc, wal, version, rows, lastId, reader, history>>

\* Where WAL is not available SQLite keeps the old mode, without an error.
EndSwitch(c) ==
  /\ Step(c, "switching", "begin")
  /\ wal' \in {wal, TRUE}
  /\ writer' = NoCall
  /\ UNCHANGED <<store, pc, version, rows, lastId, reader, history>>

BeginImmediate(c) ==
  /\ writer = NoCall
  /\ Step(c, "begin", "migrating")
  /\ writer' = c
  /\ UNCHANGED <<store, pc, wal, version, rows, lastId, reader, history>>

\* Fault: a schema that is too new is left without rolling back and closing.
FaultMigrateKeepsLock(c) ==
  /\ thread[c] = "migrating"
  /\ thread' = [thread EXCEPT ![c] = IF version > SchemaVersion THEN "failed" ELSE "ready"]
  /\ version' = IF version > SchemaVersion THEN version ELSE SchemaVersion
  /\ writer' = IF version > SchemaVersion THEN writer ELSE NoCall
  /\ UNCHANGED <<store, pc, wal, rows, lastId, reader, history>>

\* One transaction: the missing migrations, or a rollback before the first.
Migrate(c) ==
  /\ writer' = NoCall
  /\ \/ /\ version <= SchemaVersion
        /\ Step(c, "migrating", "ready")
        /\ version' = SchemaVersion
     \/ /\ version > SchemaVersion
        /\ Step(c, "migrating", "failed")
        /\ UNCHANGED version
  /\ UNCHANGED <<store, pc, wal, rows, lastId, reader, history>>

\* INSERT or DELETE takes the write lock, waiting for it if need be.
BeginWrite(c) ==
  /\ c \notin Reads
  /\ writer = NoCall
  /\ Step(c, "opened", "write")
  /\ writer' = c
  /\ UNCHANGED <<store, pc, wal, version, rows, lastId, reader, history>>

CommitInsert(c) ==
  /\ c \in Emits
  /\ Step(c, "write", "stored")
  /\ lastId' = lastId + 1
  /\ rows' = rows \cup {Row(lastId + 1, c)}
  /\ idOf' = [idOf EXCEPT ![c] = lastId + 1]
  /\ writer' = NoCall
  /\ UNCHANGED <<store, pc, wal, version, reader, earlier>>

\* Fault: without AUTOINCREMENT an id counts from the largest one left.
FaultDeleteForgetsIds(c) ==
  /\ c \in Deletes
  /\ Step(c, "write", "stored")
  /\ rows' = {r \in rows : Timestamp[r.event] >= Before[c]}
  /\ lastId' = Max({0} \cup {r.id : r \in rows'})
  /\ writer' = NoCall
  /\ UNCHANGED <<store, pc, wal, version, reader, history>>

CommitDelete(c) ==
  /\ c \in Deletes
  /\ Step(c, "write", "stored")
  /\ rows' = {r \in rows : Timestamp[r.event] >= Before[c]}
  /\ writer' = NoCall
  /\ UNCHANGED <<store, pc, wal, version, lastId, reader, history>>

\* Fault: the newest rows come first.
FaultNewestFirst(matching) ==
  {r \in matching : Cardinality({q \in matching : q.id > r.id}) < Limit}

\* ORDER BY sequence_id ASC LIMIT ?
FirstPage(matching) ==
  {r \in matching : Cardinality({q \in matching : q.id < r.id}) < Limit}

\* A reader is only held up by a writer outside WAL mode.
Select(c) ==
  /\ c \in Reads
  /\ wal \/ writer = NoCall
  /\ Step(c, "opened", "stored")
  /\ page' = [page EXCEPT ![c] =
       FirstPage({r \in rows : r.id > cursor[c] /\ r.event \in Wanted[c]})]
  /\ UNCHANGED <<store, pc, db, cursor, seen, history>>

\* A sqlite3 error, of a busy database or of the disk: the connection rolls
\* back and is closed.
ThreadFails(c) ==
  /\ thread[c] \in Running
  /\ thread' = [thread EXCEPT ![c] = "failed"]
  /\ writer' = IF writer = c THEN NoCall ELSE writer
  /\ UNCHANGED <<store, pc, wal, version, rows, lastId, reader, history>>

ThreadStep(c) ==
  \/ Connect(c)
  \/ WalOn(c) \/ StartSwitch(c) \/ EndSwitch(c)
  \/ BeginImmediate(c) \/ Migrate(c)
  \/ BeginWrite(c) \/ CommitInsert(c) \/ CommitDelete(c)
  \/ Select(c)

-----------------------------------------------------------------------------
\* The process of store s ends, its calls and its threads with it; SQLite
\* rolls their transactions back.  Calls made later find a new store object.
Crash(s) ==
  LET lost == {c \in Calls : StoreOf[c] = s}
  IN /\ pc' = [c \in Calls |-> IF c \in lost /\ pc[c] \in Waiting THEN "crashed" ELSE pc[c]]
     /\ thread' = [c \in Calls |-> IF c \in lost THEN "none" ELSE thread[c]]
     /\ initialized' = [initialized EXCEPT ![s] = FALSE]
     /\ lock' = [lock EXCEPT ![s] = NoCall]
     /\ writer' = IF writer \in lost THEN NoCall ELSE writer
     /\ UNCHANGED <<wal, version, rows, lastId, reader, history>>

TaskStep(c) == Acquire(c) \/ InitializeReturns(c) \/ WorkReturns(c)

Next ==
  \/ \E c \in Calls : Call(c) \/ TaskStep(c) \/ Cancel(c) \/ ThreadStep(c) \/ ThreadFails(c)
  \/ \E s \in Stores : Crash(s)

Spec == Init /\ [][Next]_vars

\* The event loop resumes its tasks.  A thread runs on or, where it waits for
\* a lock, fails at the latest when the busy timeout is over.
FairSpec ==
  /\ Spec
  /\ \A c \in Calls : WF_vars(TaskStep(c)) /\ WF_vars(ThreadStep(c) \/ ThreadFails(c))

-----------------------------------------------------------------------------
(* Properties                                                              *)

\* No statement reaches a schema other than the store's own: a store that
\* counts as initialized, and every thread with a statement to run, finds
\* the migrated tables, although the initializing task may be cancelled or
\* crash at any point and another store may migrate at the same time.
SchemaReady ==
  /\ \A s \in Stores : initialized[s] => version = SchemaVersion
  /\ \A c \in Calls : thread[c] \in {"op", "opened", "write"} => version = SchemaVersion

\* SQLite's write lock is held by a thread inside its transaction, and by
\* one thread at a time: no error path, cancellation or crash leaves a
\* connection open that would make every later write of every store fail.
WriterIsAtWork ==
  {c \in Calls : thread[c] \in Writing} = IF writer = NoCall THEN {} ELSE {writer}

\* What emit() tells its caller is true: a returned emit has committed its
\* event, a failed one has not, and a row that is gone was older than some
\* deletion's bound.  Only a cancelled or crashed emit leaves it open.
EmitOutcome ==
  \A e \in Emits :
    /\ pc[e] = "returned" => idOf[e] # 0
    /\ pc[e] = "raised" => idOf[e] = 0
    /\ idOf[e] # 0 /\ Row(idOf[e], e) \notin rows =>
         \E d \in Deletes : Timestamp[e] < Before[d]

\* Sequence ids follow real time across tasks and stores: an event whose
\* emit() returned before another emit() was called has the smaller id, and
\* keeps it when rows in between are deleted.
RealTimeOrder ==
  \A e \in Emits : \A d \in earlier[e] : idOf[e] # 0 => idOf[d] < idOf[e]

\* Paging by after_sequence_id skips nothing: a stored event that matches
\* the reader's filters and is not beyond its cursor has been given to it,
\* whatever was written and deleted between its pages.
PagesMissNothing ==
  \A r \in Reads : \A row \in rows :
    row.id <= cursor[r] /\ row.event \in Wanted[r] => row \in seen[r]

\* Every call comes to an end, whoever else is cancelled, fails or crashes
\* while it waits for the initialization lock or for its thread.
StoreCallsEnd == \A c \in Calls : pc[c] \in Waiting ~> pc[c] \notin Waiting
=============================================================================
