----------------------- MODULE SQLiteEventStoreProofs -----------------------
(***************************************************************************)
(* The safety of SQLiteEventStore for any stores, calls, events, filters,  *)
(* page sizes and schema versions.                                         *)
(***************************************************************************)
EXTENDS SQLiteEventStore, FiniteSetTheorems, WellFoundedInduction, TLAPS

\* The rows there have ever been, of which some are deleted.
Rows == [id : 1..lastId, event : Emits]

Initializing == {"init", "wal", "switching", "begin", "migrating", "ready"}
AtStatement == {"op", "opened", "write", "stored"}

Typed ==
  /\ initialized \in [Stores -> BOOLEAN]
  /\ lock \in [Stores -> Calls \cup {NoCall}]
  /\ pc \in [Calls -> {"idle"} \cup Waiting \cup Ended]
  /\ thread \in [Calls -> {"none", "failed"} \cup Initializing \cup AtStatement]
  /\ version \in Nat
  /\ lastId \in Nat
  /\ writer \in Calls \cup {NoCall}
  /\ rows \subseteq Rows /\ IsFiniteSet(rows)
  /\ page \in [Reads -> SUBSET Rows]
  /\ cursor \in [Reads -> 0..lastId]
  /\ seen \in [Reads -> SUBSET Rows]
  /\ idOf \in [Emits -> 0..lastId]
  /\ earlier \in [Emits -> SUBSET Emits]

\* A call that awaits a thread has one for what it awaits, and one that does
\* not wait has none, unless it was cancelled.
ThreadsFollow ==
  \A c \in Calls :
    /\ pc[c] = "init" => thread[c] \in Initializing \cup {"failed"}
    /\ pc[c] = "work" => thread[c] \in AtStatement \cup {"failed"}
    /\ pc[c] \notin {"init", "work", "cancelled"} => thread[c] = "none"

\* SchemaReady, and the thread that is about to make it true for its store.
Migrated ==
  /\ SchemaReady
  /\ \A c \in Calls : thread[c] \in {"ready"} \cup AtStatement => version = SchemaVersion

\* An event has an id exactly from its commit on, and whether its thread, its
\* task or nobody is left to tell can be seen from where its call is.
Told ==
  \A e \in Emits :
    /\ thread[e] = "stored" => idOf[e] # 0
    /\ idOf[e] # 0 =>
         \/ thread[e] = "stored"
         \/ thread[e] = "none" /\ pc[e] \in {"returned", "cancelled", "crashed"}

\* An emit counts as earlier for good.
EarlierReturned ==
  \A e \in Emits : \A d \in earlier[e] : pc[d] = "returned"

\* A page has no gaps either, beginning at the cursor it was fetched for.
PageMissesNothing ==
  \A r \in Reads : \A q \in page[r], row \in rows :
    cursor[r] < row.id /\ row.id <= q.id /\ row.event \in Wanted[r] => row \in page[r]

Guarded == Migrated /\ WriterIsAtWork
Emitted == Told /\ EmitOutcome /\ EarlierReturned /\ RealTimeOrder
Paged == PageMissesNothing /\ PagesMissNothing

IInv == Typed /\ ThreadsFollow /\ Guarded /\ Emitted /\ Paged

-----------------------------------------------------------------------------
(* Pages and cursors                                                       *)

\* A set of numbers up to n has a largest one, which Max returns.
LEMMA MaxIs ==
  ASSUME NEW n \in Nat, NEW S \in SUBSET (0..n), S # {}
  PROVE  Max(S) \in S /\ \A y \in S : Max(S) >= y
<1> DEFINE R == OpToRel(<, Nat)
           T == {n - x : x \in S}
<1>1. IsWellFoundedOn(R, Nat)
  BY NatLessThanWellFounded
<1>2. T \subseteq Nat /\ T # {}
  <2>1. \A x \in S : n - x \in Nat
    OBVIOUS
  <2> QED BY <2>1
<1>3. \A x, y \in Nat : x < y => <<x, y>> \in R
  BY DEF OpToRel
<1> HIDE DEF R
<1>4. PICK m \in T : \A y \in T : <<y, m>> \notin R
  BY <1>1, <1>2, WFMin
<1>5. \A y \in T : ~(y < m)
  BY <1>2, <1>3, <1>4
<1>6. PICK x \in S : m = n - x
  BY <1>4
<1>7. \A y \in S : x >= y
  BY <1>5, <1>6
<1> QED BY <1>7 DEF Max

\* The rows of a page are the first of those that match: whatever stands
\* before one of them is among them, for any page size.
LEMMA FirstPageHasNoGap ==
  ASSUME Typed, NEW M \in SUBSET rows, NEW q \in FirstPage(M), NEW row \in M, row.id <= q.id
  PROVE  row \in FirstPage(M)
<1> DEFINE upTo(x) == {p \in M : p.id < x.id}
<1>1. IsFiniteSet(M)
  BY FS_Subset DEF Typed
<1>2. IsFiniteSet(upTo(q)) /\ upTo(q) \subseteq M
  BY <1>1, FS_Subset
<1>3. upTo(row) \subseteq upTo(q)
  BY DEF Typed, Rows, FirstPage
<1>4. IsFiniteSet(upTo(row)) /\ Cardinality(upTo(row)) <= Cardinality(upTo(q))
  BY <1>2, <1>3, FS_Subset
<1>5. Cardinality(upTo(q)) < Limit /\ Cardinality(upTo(q)) \in Nat /\ Cardinality(upTo(row)) \in Nat
  BY <1>2, <1>4, FS_CardinalityType DEF FirstPage
<1>6. Cardinality(upTo(row)) < Limit
  BY <1>4, <1>5, StoreAssumption
<1> QED BY <1>6 DEF FirstPage

-----------------------------------------------------------------------------
(* The steps                                                               *)

\* A new file, or one of another release, has no rows of this model.
LEMMA InitIInv == Init => IInv
<1> SUFFICES ASSUME Init PROVE IInv
  OBVIOUS
<1> USE StoreAssumption DEF Init, Calls
<1>1. Typed
  BY FS_EmptySet DEF Typed, Rows, Waiting, Ended, Initializing, AtStatement
<1>2. ThreadsFollow
  BY DEF ThreadsFollow
<1>3. Guarded
  BY DEF Guarded, Migrated, SchemaReady, WriterIsAtWork, Writing, AtStatement
<1>4. Emitted /\ Paged
  BY DEF Emitted, Told, EmitOutcome, EarlierReturned, RealTimeOrder, Paged, PageMissesNothing,
         PagesMissNothing
<1> QED BY <1>1, <1>2, <1>3, <1>4 DEF IInv

\* The thread connects, waits, takes the write lock, gives it up or migrates:
\* the rows and what is known of them stay.
LEMMA WorkerStep ==
  ASSUME IInv, NEW c \in Calls,
         \/ Connect(c) \/ WalOn(c) \/ StartSwitch(c) \/ EndSwitch(c) \/ BeginImmediate(c)
         \/ Migrate(c) \/ BeginWrite(c) \/ ThreadFails(c)
  PROVE  IInv'
<1> USE StoreAssumption
    DEF IInv, Connect, WalOn, StartSwitch, EndSwitch, BeginImmediate, Migrate, BeginWrite,
        ThreadFails, Step, Running, Initializing, AtStatement
<1>1. UNCHANGED <<store, pc, rows, lastId, reader, history>>
  BY DEF db
<1>2. Typed'
  BY <1>1 DEF Typed, Rows, store, db, reader, history
<1>3. ThreadsFollow'
  BY <1>1 DEF Typed, ThreadsFollow
<1>4. Guarded'
  <2>1. Migrated'
    BY <1>1 DEF Typed, Guarded, Migrated, SchemaReady, store, db
  <2>2. WriterIsAtWork'
    <3>1. CASE Connect(c) \/ WalOn(c)
      BY <3>1 DEF Typed, Guarded, WriterIsAtWork, Writing, db
    <3>2. CASE StartSwitch(c) \/ BeginImmediate(c) \/ BeginWrite(c)
      BY <3>2 DEF Typed, Guarded, WriterIsAtWork, Writing
    <3>3. CASE EndSwitch(c) \/ Migrate(c) \/ ThreadFails(c)
      BY <3>3 DEF Typed, Guarded, WriterIsAtWork, Writing
    <3> QED BY <3>1, <3>2, <3>3
  <2> QED BY <2>1, <2>2 DEF Guarded
<1>5. Emitted'
  BY <1>1 DEF Typed, Emitted, Told, EmitOutcome, EarlierReturned, RealTimeOrder, history, Calls
<1>6. Paged'
  BY <1>1 DEF Paged, PageMissesNothing, PagesMissNothing, reader
<1> QED BY <1>2, <1>3, <1>4, <1>5, <1>6

\* A commit: its id is larger than all before it, and beyond every cursor
\* and every page.
LEMMA CommitInsertStep ==
  ASSUME IInv, NEW c \in Calls, CommitInsert(c)
  PROVE  IInv'
<1> USE StoreAssumption DEF IInv, CommitInsert, Step
<1>1. Typed'
  <2>1. /\ lastId' = lastId + 1 /\ lastId \in Nat /\ lastId' \in Nat
        /\ rows' = rows \cup {Row(lastId + 1, c)} /\ Rows \subseteq Rows'
        /\ Row(lastId + 1, c) \in Rows'
    BY DEF Typed, Rows, Row
  <2>2. rows' \subseteq Rows' /\ IsFiniteSet(rows')
    <3>1. rows \subseteq Rows /\ IsFiniteSet(rows)
      BY DEF Typed
    <3> QED BY <2>1, <3>1, FS_AddElement
  <2>3. /\ page' \in [Reads -> SUBSET Rows'] /\ seen' \in [Reads -> SUBSET Rows']
        /\ cursor' \in [Reads -> 0..lastId']
    BY <2>1 DEF Typed, reader
  <2>4. idOf' \in [Emits -> 0..lastId']
    BY <2>1 DEF Typed
  <2> QED BY <2>1, <2>2, <2>3, <2>4 DEF Typed, AtStatement, store
<1>2. ThreadsFollow'
  BY DEF Typed, ThreadsFollow, AtStatement, Initializing
<1>3. Guarded'
  BY DEF Typed, Guarded, Migrated, SchemaReady, WriterIsAtWork, Writing, AtStatement, store
<1>4. Emitted'
  BY DEF Typed, ThreadsFollow, Emitted, Told, EmitOutcome, EarlierReturned, RealTimeOrder,
         AtStatement, Initializing, Row
<1>5. Paged'
  BY DEF Typed, Rows, Row, Paged, PageMissesNothing, PagesMissNothing, reader
<1> QED BY <1>1, <1>2, <1>3, <1>4, <1>5

\* A deletion removes rows older than its bound and nothing else.
LEMMA CommitDeleteStep ==
  ASSUME IInv, NEW c \in Calls, CommitDelete(c)
  PROVE  IInv'
<1> USE StoreAssumption DEF IInv, CommitDelete, Step
<1>1. Typed'
  <2>1. rows' \subseteq Rows' /\ IsFiniteSet(rows')
    BY FS_Subset DEF Typed, Rows
  <2> QED BY <2>1 DEF Typed, Rows, AtStatement, store, reader, history
<1>2. ThreadsFollow'
  BY DEF Typed, ThreadsFollow, AtStatement, Initializing
<1>3. Guarded'
  BY DEF Typed, Guarded, Migrated, SchemaReady, WriterIsAtWork, Writing, AtStatement, store
<1>4. Emitted'
  BY DEF Typed, Emitted, Told, EmitOutcome, EarlierReturned, RealTimeOrder, Row, history, Calls
<1>5. Paged'
  BY DEF Paged, PageMissesNothing, PagesMissNothing, reader
<1> QED BY <1>1, <1>2, <1>3, <1>4, <1>5

\* A page is fetched: it has no gap after its cursor.
LEMMA SelectStep ==
  ASSUME IInv, NEW c \in Calls, Select(c)
  PROVE  IInv'
<1> USE StoreAssumption DEF IInv, Select, Step
<1> DEFINE M == {r \in rows : r.id > cursor[c] /\ r.event \in Wanted[c]}
<1>1. /\ page' = [page EXCEPT ![c] = FirstPage(M)]
      /\ c \in Reads /\ UNCHANGED <<rows, lastId, cursor, seen>>
  BY DEF db
<1>2. Typed'
  <2>1. FirstPage(M) \subseteq Rows
    BY DEF FirstPage, Typed
  <2>2. page' \in [Reads -> SUBSET Rows']
    BY <1>1, <2>1 DEF Typed, Rows
  <2> QED BY <1>1, <2>2 DEF Typed, Rows, AtStatement, store, db, history
<1>3. ThreadsFollow'
  BY DEF Typed, ThreadsFollow, AtStatement, Initializing
<1>4. Guarded'
  BY DEF Typed, Guarded, Migrated, SchemaReady, WriterIsAtWork, Writing, AtStatement, store, db
<1>5. Emitted'
  BY DEF Typed, Emitted, Told, EmitOutcome, EarlierReturned, RealTimeOrder, history, db, Calls
<1>6. Paged'
  <2>1. PageMissesNothing'
    <3> SUFFICES ASSUME NEW r \in Reads, NEW q \in page'[r], NEW row \in rows,
                        cursor[r] < row.id, row.id <= q.id, row.event \in Wanted[r]
                 PROVE  row \in page'[r]
      BY <1>1 DEF PageMissesNothing
    <3>1. CASE r = c
      <4>1. page'[c] = FirstPage(M)
        BY <1>1 DEF Typed
      <4>2. row \in M
        BY <3>1 DEF Typed, Rows
      <4> QED BY <3>1, <4>1, <4>2, FirstPageHasNoGap
    <3>2. CASE r # c
      BY <1>1, <3>2 DEF Typed, Paged, PageMissesNothing
    <3> QED BY <3>1, <3>2
  <2>2. PagesMissNothing'
    BY <1>1 DEF Paged, PagesMissNothing
  <2> QED BY <2>1, <2>2 DEF Paged
<1> QED BY <1>2, <1>3, <1>4, <1>5, <1>6

\* The task calls, takes the lock, leaves it, or is cancelled: rows and
\* readers stay.
LEMMA TaskMoves ==
  ASSUME IInv, NEW c \in Calls,
         Call(c) \/ Acquire(c) \/ InitializeReturns(c) \/ Cancel(c)
  PROVE  IInv'
<1> USE StoreAssumption
    DEF IInv, Call, Acquire, InitializeReturns, Cancel, Ensure, Unlocked, Goto, Initializing,
        AtStatement, Waiting, Calls
<1>1. UNCHANGED <<db, reader, idOf>>
  BY DEF history
<1>2. Typed'
  <2>1. /\ initialized' \in [Stores -> BOOLEAN]
        /\ lock' \in [Stores -> Calls \cup {NoCall}]
    <3>1. CASE Call(c) \/ Acquire(c)
      BY <3>1 DEF Typed
    <3>2. CASE InitializeReturns(c) \/ Cancel(c)
      BY <3>2 DEF Typed
    <3> QED BY <3>1, <3>2
  <2>2. /\ pc' \in [Calls -> {"idle"} \cup Waiting \cup Ended]
        /\ thread' \in [Calls -> {"none", "failed"} \cup Initializing \cup AtStatement]
    BY DEF Typed, Ended
  <2>3. earlier' \in [Emits -> SUBSET Emits]
    BY DEF Typed, history
  <2> QED BY <1>1, <2>1, <2>2, <2>3 DEF Typed, Rows, db, reader
<1>3. ThreadsFollow'
  BY <1>1 DEF Typed, ThreadsFollow
<1>4. Guarded'
  <2>1. Migrated'
    BY <1>1 DEF Typed, ThreadsFollow, Guarded, Migrated, SchemaReady, db
  <2>2. WriterIsAtWork'
    BY <1>1 DEF Typed, ThreadsFollow, Guarded, WriterIsAtWork, Writing, db
  <2> QED BY <2>1, <2>2 DEF Guarded
<1>5. Emitted'
  <2>1. Told' /\ EmitOutcome'
    BY <1>1 DEF Typed, ThreadsFollow, Emitted, Told, EmitOutcome, db
  <2>2. EarlierReturned' /\ RealTimeOrder'
    <3>1. CASE Call(c)
      BY <1>1, <3>1 DEF Typed, ThreadsFollow, Emitted, Told, EarlierReturned, RealTimeOrder
    <3>2. CASE Acquire(c) \/ InitializeReturns(c) \/ Cancel(c)
      BY <1>1, <3>2 DEF Typed, Emitted, EarlierReturned, RealTimeOrder, history
    <3> QED BY <3>1, <3>2
  <2> QED BY <2>1, <2>2 DEF Emitted
<1>6. Paged'
  BY <1>1 DEF Paged, PageMissesNothing, PagesMissNothing, db, reader
<1> QED BY <1>2, <1>3, <1>4, <1>5, <1>6

\* A thread's result reaches its task; a reader moves its cursor to the end
\* of the page it is given.
LEMMA WorkReturnsStep ==
  ASSUME IInv, NEW c \in Calls, WorkReturns(c)
  PROVE  IInv'
<1> USE StoreAssumption DEF IInv, WorkReturns, Goto
<1>1. UNCHANGED <<store, db, history>> /\ UNCHANGED <<rows, lastId>>
  BY DEF db
<1> DEFINE ReaderTyped == /\ cursor' \in [Reads -> 0..lastId']
                          /\ page' \in [Reads -> SUBSET Rows']
                          /\ seen' \in [Reads -> SUBSET Rows']
<1>2. ASSUME UNCHANGED reader PROVE Paged' /\ ReaderTyped
  BY <1>1, <1>2 DEF Typed, Rows, Paged, PageMissesNothing, PagesMissNothing, reader
<1>3. ASSUME ~UNCHANGED reader PROVE Paged' /\ ReaderTyped
  <2> DEFINE ids == {cursor[c]} \cup {r.id : r \in page[c]}
  <2>1. /\ c \in Reads
        /\ seen' = [seen EXCEPT ![c] = @ \cup page[c]]
        /\ cursor' = [cursor EXCEPT ![c] = Max(ids)]
        /\ page' = [page EXCEPT ![c] = {}]
    BY <1>3
  <2>2. ids \subseteq 0..lastId /\ lastId \in Nat
    BY <2>1 DEF Typed, Rows
  <2>3. Max(ids) \in ids /\ \A i \in ids : Max(ids) >= i
    BY <2>2, MaxIs
  <2>4. ReaderTyped
    BY <1>1, <2>1, <2>2, <2>3 DEF Typed, Rows
  <2>5. PageMissesNothing'
    BY <1>1, <2>1 DEF Typed, Paged, PageMissesNothing
  <2>6. PagesMissNothing'
    <3> SUFFICES ASSUME NEW r \in Reads, NEW row \in rows, row.id <= cursor'[r],
                        row.event \in Wanted[r]
                 PROVE  row \in seen'[r]
      BY <1>1 DEF PagesMissNothing
    <3>1. CASE r = c
      <4>1. cursor'[c] = Max(ids) /\ page[c] \subseteq seen'[c] /\ seen[c] \subseteq seen'[c]
        BY <2>1 DEF Typed
      <4>2. CASE Max(ids) = cursor[c]
        BY <3>1, <4>1, <4>2 DEF Paged, PagesMissNothing
      <4>3. ASSUME NEW q \in page[c], Max(ids) = q.id PROVE row \in seen'[c]
        <5>1. CASE row.id <= cursor[c]
          BY <3>1, <4>1, <5>1 DEF Paged, PagesMissNothing
        <5>2. CASE cursor[c] < row.id
          BY <3>1, <4>1, <4>3, <5>2 DEF Paged, PageMissesNothing
        <5> QED BY <2>1, <5>1, <5>2 DEF Typed, Rows
      <4> QED BY <2>3, <3>1, <4>2, <4>3
    <3>2. CASE r # c
      BY <2>1, <3>2 DEF Typed, Paged, PagesMissNothing
    <3> QED BY <3>1, <3>2
  <2> QED BY <2>4, <2>5, <2>6 DEF Paged
<1>4. Typed'
  BY <1>1, <1>2, <1>3 DEF Typed, Rows, Ended, store, db, history
<1>5. ThreadsFollow'
  BY DEF Typed, ThreadsFollow
<1>6. Guarded'
  BY <1>1 DEF Typed, Guarded, Migrated, SchemaReady, WriterIsAtWork, Writing, AtStatement, store, db
<1>7. Emitted'
  BY <1>1 DEF Typed, ThreadsFollow, Emitted, Told, EmitOutcome, EarlierReturned, RealTimeOrder,
              AtStatement, Calls, db, history
<1> QED BY <1>2, <1>3, <1>4, <1>5, <1>6, <1>7

\* A process ends: nothing that was committed or given to a reader is lost.
LEMMA CrashStep ==
  ASSUME IInv, NEW s \in Stores, Crash(s)
  PROVE  IInv'
<1> USE StoreAssumption DEF IInv, Crash, Waiting, Calls
<1>1. Typed'
  BY DEF Typed, Rows, Ended, reader, history
<1>2. ThreadsFollow'
  BY DEF Typed, ThreadsFollow
<1>3. Guarded'
  BY DEF Typed, Guarded, Migrated, SchemaReady, WriterIsAtWork, Writing, AtStatement
<1>4. Emitted'
  BY DEF Typed, ThreadsFollow, Emitted, Told, EmitOutcome, EarlierReturned, RealTimeOrder,
         AtStatement, history
<1>5. Paged'
  BY DEF Paged, PageMissesNothing, PagesMissNothing, reader
<1> QED BY <1>1, <1>2, <1>3, <1>4, <1>5

-----------------------------------------------------------------------------

\* Every step of a task, of a thread and of a process preserves IInv.
LEMMA StepIInv == IInv /\ [Next]_vars => IInv'
<1> SUFFICES ASSUME IInv, [Next]_vars PROVE IInv'
  OBVIOUS
<1>1. ASSUME NEW c \in Calls, Call(c) \/ TaskStep(c) \/ Cancel(c) PROVE IInv'
  BY <1>1, TaskMoves, WorkReturnsStep DEF TaskStep
<1>2. ASSUME NEW c \in Calls, ThreadStep(c) \/ ThreadFails(c) PROVE IInv'
  BY <1>2, WorkerStep, CommitInsertStep, CommitDeleteStep, SelectStep DEF ThreadStep
<1>3. ASSUME NEW s \in Stores, Crash(s) PROVE IInv'
  BY <1>3, CrashStep
<1>4. CASE UNCHANGED vars
  BY <1>4 DEF vars, store, db, reader, history, IInv, Typed, Rows, ThreadsFollow, Guarded,
              Migrated, SchemaReady, WriterIsAtWork, Emitted, Told, EmitOutcome,
              EarlierReturned, RealTimeOrder, Paged, PageMissesNothing, PagesMissNothing
<1> QED BY <1>1, <1>2, <1>3, <1>4 DEF Next

\* No statement of any store reaches a schema that is not migrated.
THEOREM SchemaAlwaysReady == Spec => []SchemaReady
BY InitIInv, StepIInv, PTL DEF Spec, IInv, Guarded, Migrated

\* The write lock is always given back, and never held twice.
THEOREM WriterAlwaysAtWork == Spec => []WriterIsAtWork
BY InitIInv, StepIInv, PTL DEF Spec, IInv, Guarded

\* What emit() reports is what is in the file, for any number of emits and
\* deletions.
THEOREM EmitTellsTheTruth == Spec => []EmitOutcome
BY InitIInv, StepIInv, PTL DEF Spec, IInv, Emitted

\* The ids of the file follow the real time of the emits.
THEOREM IdsFollowRealTime == Spec => []RealTimeOrder
BY InitIInv, StepIInv, PTL DEF Spec, IInv, Emitted

\* No reader misses a stored event behind its cursor, for any page size and
\* any filters.
THEOREM PagingIsComplete == Spec => []PagesMissNothing
BY InitIInv, StepIInv, PTL DEF Spec, IInv, Paged
=============================================================================
