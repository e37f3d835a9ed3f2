---------------------- MODULE InMemoryIdempotencyProofs ----------------------
(***************************************************************************)
(* The safety of InMemoryIdempotency for any calls, tasks, nesting, keys,  *)
(* results and TTLs.                                                       *)
(***************************************************************************)
EXTENDS InMemoryIdempotency, TLAPS

\* The guards `entry.future is future` of the code never fail: the entry of
\* an executing call is still its own.
OwnerHolds ==
  \A c \in Calls : pc[c] = "running" => key[c] \in Keys /\ Holds(c)

\* OneExecution is inductive only with the link between the calls that
\* execute and the entries they hold, in both directions.
IInv == TypeOK /\ OwnerHolds /\ KeyNeverStranded /\ WaiterHasOwner

EntryType == [status : {"absent", "pending", "done"},
              owner : Calls \cup {NoCall},
              value : Values \cup {NoValue}, left : Nat]

\* The three kinds of entries are what the type invariant expects.
LEMMA EntriesTyped ==
  /\ Absent \in EntryType /\ Absent.status = "absent"
  /\ \A c \in Calls :
       Pending(c) \in EntryType /\ Pending(c).status = "pending" /\ Pending(c).owner = c
  /\ \A c \in Calls, v \in Values, ttl \in TTLs :
       Done(c, v, ttl) \in EntryType /\ Done(c, v, ttl).status = "done"
BY IdempotencyAssumption DEF Absent, Pending, Done, EntryType

\* Purging keeps every unfinished entry and makes none.
LEMMA PurgedKeepsPending ==
  ASSUME TypeOK
  PROVE  /\ Purged \in [Keys -> EntryType]
         /\ \A k \in Keys : Purged[k].status = "pending" => Purged[k] = entries[k]
         /\ \A k \in Keys : entries[k].status = "pending" => Purged[k] = entries[k]
<1>1. entries \in [Keys -> EntryType]
  BY DEF TypeOK, EntryType
<1>2. ASSUME NEW k \in Keys
      PROVE  /\ Purged[k] \in EntryType
             /\ Purged[k].status = "pending" => Purged[k] = entries[k]
             /\ entries[k].status = "pending" => Purged[k] = entries[k]
  BY <1>1, EntriesTyped DEF Purged
<1> QED BY <1>2 DEF Purged

\* An empty store satisfies the invariant.
LEMMA InitIInv == Init => IInv
<1> SUFFICES ASSUME Init PROVE IInv
  OBVIOUS
<1>1. TypeOK
  BY EntriesTyped DEF Init, TypeOK, EntryType
<1>2. OwnerHolds /\ KeyNeverStranded /\ WaiterHasOwner
  BY EntriesTyped DEF Init, OwnerHolds, KeyNeverStranded, WaiterHasOwner
<1> QED BY <1>1, <1>2 DEF IInv

-----------------------------------------------------------------------------
(* What keeps the invariant, one lemma per way a step changes the state.   *)

\* A call that is not executing may leave or start waiting for a running
\* owner, while the store purges: nobody else notices.
LEMMA BystanderStep ==
  ASSUME IInv, TypeOK', NEW c \in Calls, pc[c] # "running",
         \A k \in Keys : entries[k].status = "pending" => entries'[k] = entries[k],
         \A k \in Keys : entries'[k].status = "pending" => entries'[k] = entries[k],
         \A d \in Calls \ {c} : pc'[d] = pc[d] /\ key'[d] = key[d] /\ on'[d] = on[d],
         pc'[c] # "running",
         pc'[c] = "waiting" =>
           \E o \in Calls : on'[c] = o /\ pc[o] = "running" /\ key[o] = key'[c]
  PROVE  IInv'
<1> USE DEF IInv, TypeOK
<1>1. OwnerHolds'
  BY DEF OwnerHolds, Holds
<1>2. KeyNeverStranded'
  <2> SUFFICES ASSUME NEW k \in Keys, entries'[k].status = "pending"
               PROVE  \E d \in Calls : entries'[k].owner = d /\ pc'[d] = "running" /\ key'[d] = k
    BY DEF KeyNeverStranded
  <2>1. PICK d \in Calls : entries[k].owner = d /\ pc[d] = "running" /\ key[d] = k
    BY DEF KeyNeverStranded
  <2> QED BY <2>1
<1>3. WaiterHasOwner'
  <2> SUFFICES ASSUME NEW d \in Calls, pc'[d] = "waiting"
               PROVE  \E o \in Calls : on'[d] = o /\ pc'[o] = "running" /\ key'[o] = key'[d]
    BY DEF WaiterHasOwner
  <2>1. CASE d = c
    BY <2>1
  <2>2. CASE d # c
    <3>1. PICK o \in Calls : on[d] = o /\ pc[o] = "running" /\ key[o] = key[d]
      BY <2>2 DEF WaiterHasOwner
    <3> QED BY <2>2, <3>1
  <2> QED BY <2>1, <2>2
<1> HIDE DEF TypeOK
<1> QED BY <1>1, <1>2, <1>3 DEF IInv

\* The end of an execution: the entry of its key is given up or completed,
\* the calls that wait for it are woken, and no one else is touched.
LEMMA ResolveStep ==
  ASSUME IInv, NEW c \in Calls, pc[c] = "running",
         NEW outcome \in Values \cup {"failed", "cancelled"},
         NEW r \in Values \cup Exceptions,
         NEW e \in EntryType, e.status # "pending",
         entries' = IF Holds(c) THEN [entries EXCEPT ![key[c]] = e] ELSE entries,
         Resolve(c, outcome, r)
  PROVE  IInv'
<1>1. /\ key[c] \in Keys
      /\ Holds(c)
      /\ entries' = [entries EXCEPT ![key[c]] = e]
  BY DEF IInv, OwnerHolds
<1>2. TypeOK'
  <2>1. entries' \in [Keys -> EntryType]
    BY <1>1 DEF IInv, TypeOK, EntryType
  <2>2. /\ pc' \in [Calls -> {"idle", "running", "waiting", "woken"}]
        /\ key' \in [Calls -> Keys \cup {NoKey}]
        /\ on' \in [Calls -> Calls \cup {NoCall}]
        /\ wake' \in [Calls -> Values \cup {"failed", "cancelled", NoValue}]
        /\ result' \in [Calls -> Values \cup Exceptions \cup {NoValue}]
    BY DEF IInv, TypeOK, Resolve
  <2> QED BY <2>1, <2>2 DEF TypeOK, EntryType
<1>3. \A d \in Calls : pc[d] = "running" /\ d # c => pc'[d] = "running" /\ key'[d] = key[d]
  BY DEF IInv, TypeOK, Resolve
<1>4. \A d \in Calls : pc'[d] = "running" =>
        pc[d] = "running" /\ d # c /\ key'[d] = key[d]
  BY DEF IInv, TypeOK, Resolve
<1>5. \A d \in Calls : pc[d] = "running" /\ d # c => key[d] \in Keys /\ key[d] # key[c]
  BY <1>1 DEF IInv, OwnerHolds, Holds
<1>6. OwnerHolds'
  BY <1>1, <1>4, <1>5 DEF IInv, TypeOK, OwnerHolds, Holds
<1>7. KeyNeverStranded'
  <2> SUFFICES ASSUME NEW k \in Keys, entries'[k].status = "pending"
               PROVE  \E d \in Calls : entries'[k].owner = d /\ pc'[d] = "running" /\ key'[d] = k
    BY DEF KeyNeverStranded
  <2>1. k # key[c] /\ entries'[k] = entries[k]
    BY <1>1 DEF IInv, TypeOK
  <2>2. PICK d \in Calls : entries[k].owner = d /\ pc[d] = "running" /\ key[d] = k
    BY <2>1 DEF IInv, KeyNeverStranded
  <2> QED BY <1>3, <2>1, <2>2
<1>8. WaiterHasOwner'
  <2> SUFFICES ASSUME NEW d \in Calls, pc'[d] = "waiting"
               PROVE  \E o \in Calls : on'[d] = o /\ pc'[o] = "running" /\ key'[o] = key'[d]
    BY DEF WaiterHasOwner
  <2>1. pc[d] = "waiting" /\ on[d] # c /\ d # c
    BY DEF IInv, TypeOK, Resolve
  <2>2. on'[d] = on[d] /\ key'[d] = key[d]
    BY <2>1 DEF IInv, TypeOK, Resolve
  <2>3. PICK o \in Calls : on[d] = o /\ pc[o] = "running" /\ key[o] = key[d]
    BY <2>1 DEF IInv, WaiterHasOwner
  <2> QED BY <1>3, <2>1, <2>2, <2>3
<1> QED BY <1>2, <1>6, <1>7, <1>8 DEF IInv

\* The critical section at the head of the loop keeps the invariant, for a
\* new call and for a retry alike.
LEMMA LookupStep ==
  ASSUME IInv, NEW c \in Calls, NEW k \in Keys, pc[c] # "running", Lookup(c, k)
  PROVE  IInv'
<1>1. /\ Purged \in [Keys -> EntryType]
      /\ \A j \in Keys : Purged[j].status = "pending" => Purged[j] = entries[j]
      /\ \A j \in Keys : entries[j].status = "pending" => Purged[j] = entries[j]
  BY PurgedKeepsPending DEF IInv
<1>2. CASE Own(c, k)
  <2>1. TypeOK'
    <3>1. entries' \in [Keys -> EntryType]
      BY <1>1, <1>2, EntriesTyped DEF Own
    <3> QED BY <1>2, <3>1 DEF IInv, TypeOK, Own, EntryType
  <2>2. \A d \in Calls \ {c} : pc'[d] = pc[d] /\ key'[d] = key[d] /\ on'[d] = on[d]
    BY <1>2 DEF IInv, TypeOK, Own
  <2>3. pc'[c] = "running" /\ key'[c] = k /\ entries'[k] = Pending(c)
    BY <1>1, <1>2 DEF IInv, TypeOK, Own
  <2>4. \A j \in Keys \ {k} : entries'[j] = Purged[j]
    BY <1>1, <1>2 DEF Own
  <2>5. entries[k].status # "pending"
    BY <1>1, <1>2 DEF Own
  <2>6. OwnerHolds'
    BY <1>1, <2>2, <2>3, <2>4, <2>5, EntriesTyped DEF IInv, OwnerHolds, Holds
  <2>7. KeyNeverStranded'
    <3> SUFFICES ASSUME NEW j \in Keys, entries'[j].status = "pending"
                 PROVE  \E d \in Calls : entries'[j].owner = d /\ pc'[d] = "running" /\ key'[d] = j
      BY DEF KeyNeverStranded
    <3>1. CASE j = k
      BY <3>1, <2>3, EntriesTyped
    <3>2. CASE j # k
      <4>1. entries'[j] = entries[j]
        BY <3>2, <2>4, <1>1
      <4>2. PICK d \in Calls : entries[j].owner = d /\ pc[d] = "running" /\ key[d] = j
        BY <4>1 DEF IInv, KeyNeverStranded
      <4> QED BY <4>1, <4>2, <2>2
    <3> QED BY <3>1, <3>2
  <2>8. WaiterHasOwner'
    <3> SUFFICES ASSUME NEW d \in Calls, pc'[d] = "waiting"
                 PROVE  \E o \in Calls : on'[d] = o /\ pc'[o] = "running" /\ key'[o] = key'[d]
      BY DEF WaiterHasOwner
    <3>1. d # c
      BY <2>3
    <3>2. PICK o \in Calls : on[d] = o /\ pc[o] = "running" /\ key[o] = key[d]
      BY <3>1, <2>2 DEF IInv, WaiterHasOwner
    <3> QED BY <3>1, <3>2, <2>2
  <2> QED BY <2>1, <2>6, <2>7, <2>8 DEF IInv
<1>3. CASE Reenter(c, k)
  <2>1. TypeOK'
    BY <1>1, <1>3 DEF IInv, TypeOK, Reenter, Leave, EntryType, Exceptions
  <2> QED
    BY <1>1, <1>3, <2>1, BystanderStep DEF IInv, TypeOK, Reenter, Leave
<1>4. CASE Join(c, k)
  <2>1. PICK o \in Calls : Purged[k].owner = o /\ pc[o] = "running" /\ key[o] = k
    BY <1>1, <1>4 DEF IInv, Join, KeyNeverStranded
  <2>2. TypeOK'
    BY <1>1, <1>4, <2>1 DEF IInv, TypeOK, Join, EntryType
  <2> QED
    BY <1>1, <1>4, <2>1, <2>2, BystanderStep DEF IInv, TypeOK, Join
<1>5. CASE Replay(c, k)
  <2>1. Purged[k].value \in Values \cup {NoValue}
    BY <1>1 DEF EntryType
  <2>2. TypeOK'
    BY <1>1, <1>5, <2>1 DEF IInv, TypeOK, Replay, Leave, EntryType
  <2> QED
    BY <1>1, <1>5, <2>2, BystanderStep DEF IInv, TypeOK, Replay, Leave
<1> QED BY <1>2, <1>3, <1>4, <1>5 DEF Lookup

-----------------------------------------------------------------------------

\* Every step of every call, of purging and of the clock preserves IInv.
LEMMA StepIInv == IInv /\ [Next]_vars => IInv'
<1> SUFFICES ASSUME IInv, [Next]_vars PROVE IInv'
  OBVIOUS
<1>1. ASSUME NEW c \in Calls, NEW k \in Keys, Execute(c, k) PROVE IInv'
  BY <1>1, LookupStep DEF Execute
<1>2. ASSUME NEW c \in Calls, Retry(c) PROVE IInv'
  BY <1>2, LookupStep DEF Retry
<1>3. ASSUME NEW c \in Calls, Deliver(c) PROVE IInv'
  <2>1. TypeOK'
    BY <1>3 DEF IInv, TypeOK, Deliver, Leave, Exceptions
  <2> QED BY <1>3, <2>1, BystanderStep DEF IInv, TypeOK, Deliver, Leave
<1>4. ASSUME NEW c \in Calls, CancelJoined(c) PROVE IInv'
  <2>1. TypeOK'
    BY <1>4 DEF IInv, TypeOK, CancelJoined, Leave, Exceptions
  <2> QED BY <1>4, <2>1, BystanderStep DEF IInv, TypeOK, CancelJoined, Leave
<1>5. ASSUME NEW c \in Calls, Succeed(c) PROVE IInv'
  <2>1. PICK v \in Values, ttl \in TTLs :
          /\ entries' = IF Holds(c) THEN [entries EXCEPT ![key[c]] = Done(c, v, ttl)] ELSE entries
          /\ Resolve(c, v, v)
    BY <1>5 DEF Succeed
  <2>2. Done(c, v, ttl) \in EntryType /\ Done(c, v, ttl).status # "pending"
    BY EntriesTyped
  <2> QED BY <1>5, <2>1, <2>2, ResolveStep DEF Succeed
<1>6. ASSUME NEW c \in Calls, Fail(c) PROVE IInv'
  BY <1>6, EntriesTyped, ResolveStep DEF Fail, Release, Exceptions
<1>7. ASSUME NEW c \in Calls, CancelOwner(c) PROVE IInv'
  BY <1>7, EntriesTyped, ResolveStep DEF CancelOwner, Release, Exceptions
<1>8. ASSUME Purge PROVE IInv'
  <2>1. /\ Purged \in [Keys -> EntryType]
        /\ \A j \in Keys : Purged[j].status = "pending" => Purged[j] = entries[j]
        /\ \A j \in Keys : entries[j].status = "pending" => Purged[j] = entries[j]
    BY PurgedKeepsPending DEF IInv
  <2>2. TypeOK' /\ WaiterHasOwner'
    BY <1>8, <2>1 DEF IInv, TypeOK, EntryType, Purge, WaiterHasOwner
  <2>3. OwnerHolds' /\ KeyNeverStranded'
    BY <1>8, <2>1 DEF IInv, Purge, OwnerHolds, Holds, KeyNeverStranded
  <2> QED BY <2>2, <2>3 DEF IInv
<1>9. ASSUME Tick PROVE IInv'
  <2>1. \A k \in Keys :
          /\ entries'[k] \in EntryType
          /\ entries'[k].status = entries[k].status
          /\ entries'[k].owner = entries[k].owner
    BY <1>9 DEF IInv, TypeOK, EntryType, Tick
  <2>2. TypeOK' /\ WaiterHasOwner'
    BY <1>9, <2>1 DEF IInv, TypeOK, EntryType, Tick, WaiterHasOwner
  <2>3. OwnerHolds' /\ KeyNeverStranded'
    BY <1>9, <2>1 DEF IInv, Tick, OwnerHolds, Holds, KeyNeverStranded
  <2> QED BY <2>2, <2>3 DEF IInv
<1>10. CASE UNCHANGED vars
  BY <1>10 DEF vars, IInv, TypeOK, OwnerHolds, Holds, KeyNeverStranded, WaiterHasOwner
<1> QED
  BY <1>1, <1>2, <1>3, <1>4, <1>5, <1>6, <1>7, <1>8, <1>9, <1>10
     DEF Next, Resume, Finish

\* Type correctness: what execute() leaves in an entry, in a waiting call and
\* as a result never falls outside the values they may have.
THEOREM TypeCorrect == Spec => []TypeOK
BY InitIInv, StepIInv, PTL DEF Spec, IInv

\* Two executions of one key never overlap.
THEOREM AtMostOneExecution == Spec => []OneExecution
<1>1. IInv => OneExecution
  BY DEF IInv, OwnerHolds, Holds, OneExecution
<1> QED BY <1>1, InitIInv, StepIInv, PTL DEF Spec

\* No failure and no cancellation leaves a key occupied.
THEOREM NoKeyStranded == Spec => []KeyNeverStranded
BY InitIInv, StepIInv, PTL DEF Spec, IInv

\* A joined call always waits for an owner that is still executing.
THEOREM NoLostWakeup == Spec => []WaiterHasOwner
BY InitIInv, StepIInv, PTL DEF Spec, IInv

-----------------------------------------------------------------------------
(* The store implements IdempotencyContract.                               *)

\* A call that is not pending wants no key, and only a woken call has a
\* result to take.
CallsClean ==
  \A c \in Calls :
    /\ pc[c] = "idle" => key[c] = NoKey
    /\ pc[c] # "woken" => wake[c] = NoValue

\* Every end of a call clears what it leaves behind.
LEMMA StepCallsClean == IInv /\ CallsClean /\ [Next]_vars => CallsClean'
<1> SUFFICES ASSUME IInv, CallsClean, [Next]_vars PROVE CallsClean'
  OBVIOUS
<1> USE DEF IInv, TypeOK, CallsClean
<1>1. ASSUME NEW c \in Calls, NEW k \in Keys, Lookup(c, k) PROVE CallsClean'
  BY <1>1 DEF Lookup, Own, Reenter, Join, Replay, Leave
<1>2. ASSUME NEW c \in Calls, Deliver(c) \/ CancelJoined(c) PROVE CallsClean'
  BY <1>2 DEF Deliver, CancelJoined, Leave
<1>3. ASSUME NEW c \in Calls, Finish(c) PROVE CallsClean'
  BY <1>3 DEF Finish, Succeed, Fail, CancelOwner, Resolve
<1>4. CASE Purge \/ Tick \/ UNCHANGED vars
  BY <1>4 DEF Purge, Tick, vars
<1> QED BY <1>1, <1>2, <1>3, <1>4 DEF Next, Execute, Resume, Retry

\* The refinement mapping, named for the proof below.
Executing == [k \in Keys |-> IF entries[k].status = "pending" THEN entries[k].owner ELSE NoCall]
Cache == [k \in Keys |->
  IF entries[k].status = "done" /\ entries[k].left > 0
  THEN [value |-> entries[k].value, left |-> entries[k].left]
  ELSE [value |-> NoValue, left |-> 0]]
Offer == [c \in Calls |-> IF wake[c] \in Values THEN wake[c] ELSE NoValue]
Returned == [c \in Calls |-> IF result[c] \in Values THEN result[c] ELSE NoValue]

\* Purging is invisible to the contract.
LEMMA PurgeUnseen ==
  ASSUME IInv, entries' = Purged
  PROVE  Executing' = Executing /\ Cache' = Cache
<1>1. ASSUME NEW k \in Keys
      PROVE  \/ entries'[k] = entries[k]
             \/ /\ entries'[k].status = "absent"
                /\ entries[k].status = "done" /\ entries[k].left = 0
  BY EntriesTyped DEF Purged
<1> QED BY <1>1 DEF Executing, Cache

\* Only executing calls execute in the contract.
LEMMA NotExecuting ==
  ASSUME IInv, NEW c \in Calls, pc[c] # "running"
  PROVE  \A k \in Keys : Executing[k] # c
BY IdempotencyAssumption DEF IInv, KeyNeverStranded, Executing

\* A call that leaves without an execution of its own shares or gives up.
LEMMA LeaveIsShare ==
  ASSUME IInv, CallsClean, NEW c \in Calls, pc[c] # "running",
         NEW r \in Values \cup Exceptions \cup {NoValue}, Leave(c, r),
         r \in Values => r = wake[c],
         Executing' = Executing, Cache' = Cache
  PROVE  Contract!Share(c)
<1>1. Offer' = [Offer EXCEPT ![c] = NoValue]
  BY IdempotencyAssumption DEF IInv, TypeOK, Offer, Leave
<1>2. Returned' = [Returned EXCEPT ![c] = IF r \in Values THEN r ELSE NoValue]
  BY DEF IInv, TypeOK, Returned, Leave
<1>3. r \in Values => r = Offer[c]
  BY DEF Offer
<1> QED
  BY <1>1, <1>2, <1>3, NotExecuting
     DEF Leave, Executing, Cache, Offer, Returned, Contract!Share, Contract!Answer

\* What the contract sees of the four branches of the lookup.
LEMMA LookupContract ==
  ASSUME IInv, CallsClean, NEW c \in Calls, NEW k \in Keys, pc[c] # "running",
         key[c] \in {NoKey, k}, wake[c] \notin Values, Lookup(c, k)
  PROVE  Contract!CNext
<1> USE IdempotencyAssumption
<1>1. \A j \in Keys : Executing[j] # c
  BY NotExecuting
<1>2. /\ Purged[k].status = "pending" => Purged[k] = entries[k]
      /\ Purged[k].status = "done" => Purged[k] = entries[k] /\ entries[k].left > 0
      /\ Purged[k].status = "absent" => ~(entries[k].status = "done" /\ entries[k].left > 0)
      /\ entries[k].status = "pending" => Purged[k] = entries[k]
  <2>1. entries[k] \in EntryType
    BY DEF IInv, TypeOK, EntryType
  <2> QED BY <2>1, EntriesTyped DEF Purged, EntryType
<1>3. CASE Own(c, k)
  <2>1. /\ entries[k].status # "pending"
        /\ ~(entries[k].status = "done" /\ entries[k].left > 0)
    BY <1>2, <1>3 DEF Own
  <2>2. /\ entries'[k] = Pending(c)
        /\ \A j \in Keys \ {k} : entries'[j] = Purged[j]
    BY <1>3, PurgedKeepsPending DEF Own, IInv
  <2>3. ASSUME NEW j \in Keys \ {k}
        PROVE  \/ entries'[j] = entries[j]
               \/ /\ entries'[j].status = "absent"
                  /\ entries[j].status = "done" /\ entries[j].left = 0
    BY <2>2, EntriesTyped DEF Purged
  <2>4. Executing' = [Executing EXCEPT ![k] = c] /\ Executing[k] = NoCall
    <3>1. Executing'[k] = c /\ Executing[k] = NoCall
      BY <2>1, <2>2, EntriesTyped DEF Executing
    <3>2. \A j \in Keys \ {k} : Executing'[j] = Executing[j]
      BY <2>3 DEF Executing
    <3> QED BY <3>1, <3>2 DEF Executing
  <2>5. Cache' = Cache /\ Cache[k] = [value |-> NoValue, left |-> 0]
    BY <2>1, <2>2, <2>3, EntriesTyped DEF Cache
  <2>6. Offer' = Offer
    BY <1>3 DEF Own, Offer, IInv, TypeOK
  <2>7. Returned' = [Returned EXCEPT ![c] = NoValue]
    BY <1>3 DEF Own, Returned, IInv, TypeOK
  <2>8. key' = [key EXCEPT ![c] = k]
    BY <1>3 DEF Own
  <2>9. Contract!Start(c, k)
    BY <1>1, <2>4, <2>5, <2>6, <2>7, <2>8
       DEF Executing, Cache, Offer, Returned, Contract!Start, Contract!Asks,
           Contract!Fresh, Contract!Nothing
  <2> QED BY <2>9 DEF Contract!CNext
<1>4. CASE Reenter(c, k)
  <2>1. Contract!Share(c)
    BY <1>4, PurgeUnseen, LeaveIsShare DEF Reenter, Exceptions
  <2> QED BY <2>1 DEF Contract!CNext
<1>5. CASE Join(c, k)
  <2>1. Executing[k] # NoCall
    BY <1>2, <1>5 DEF Join, Executing, IInv, KeyNeverStranded
  <2>2. Executing' = Executing /\ Cache' = Cache
    BY <1>5, PurgeUnseen DEF Join
  <2>3. Offer' = Offer
    BY <1>5 DEF Join, Offer, IInv, TypeOK
  <2>4. Returned' = [Returned EXCEPT ![c] = NoValue]
    BY <1>5 DEF Join, Returned, IInv, TypeOK
  <2>5. Contract!Wait(c, k)
    BY <1>1, <1>5, <2>1, <2>2, <2>3, <2>4
       DEF Join, Executing, Cache, Offer, Returned, Contract!Wait, Contract!Asks
  <2> QED BY <2>5 DEF Contract!CNext
<1>6. CASE Replay(c, k)
  <2>1. entries[k].status = "done" /\ entries[k].left > 0 /\ entries[k].value = Purged[k].value
    BY <1>2, <1>6 DEF Replay
  <2>2. Cache[k].value = Purged[k].value /\ Cache[k] # [value |-> NoValue, left |-> 0]
    BY <2>1 DEF Cache
  <2>3. Executing' = Executing /\ Cache' = Cache
    BY <1>6, PurgeUnseen DEF Replay
  <2>4. Offer' = [Offer EXCEPT ![c] = NoValue]
    BY <1>6 DEF Replay, Leave, Offer, IInv, TypeOK
  <2>5. entries[k].value \in Values \cup {NoValue}
    BY DEF IInv, TypeOK
  <2>6. Returned' = [Returned EXCEPT ![c] = Cache[k].value]
    BY <1>6, <2>1, <2>2, <2>5 DEF Replay, Leave, Returned, IInv, TypeOK
  <2>7. Contract!Replay(c, k)
    BY <1>1, <1>6, <2>2, <2>3, <2>4, <2>6
       DEF Replay, Leave, Executing, Cache, Offer, Returned, Contract!Replay,
           Contract!Asks, Contract!Answer, Contract!Fresh, Contract!Nothing
  <2> QED BY <2>7 DEF Contract!CNext
<1> QED BY <1>3, <1>4, <1>5, <1>6 DEF Lookup

\* What the contract sees of the end of an execution.
LEMMA FinishContract ==
  ASSUME IInv, CallsClean, NEW c \in Calls, Finish(c)
  PROVE  Contract!CNext
<1> USE IdempotencyAssumption
<1>1. pc[c] = "running"
  BY DEF Finish, Succeed, Fail, CancelOwner
<1>2. PICK k \in Keys : key[c] = k /\ Holds(c)
  BY <1>1 DEF IInv, OwnerHolds
<1>3. Executing[k] = c
  BY <1>2 DEF Executing, Holds
<1>4. ASSUME NEW e, e.status # "pending", entries' = [entries EXCEPT ![k] = e]
      PROVE  Executing' = [Executing EXCEPT ![k] = NoCall]
  <2>1. entries'[k] = e /\ \A j \in Keys \ {k} : entries'[j] = entries[j]
    BY <1>2, <1>4 DEF IInv, TypeOK
  <2>2. Executing'[k] = NoCall /\ \A j \in Keys \ {k} : Executing'[j] = Executing[j]
    BY <1>4, <2>1 DEF Executing
  <2> QED BY <2>2 DEF Executing
<1>5. CASE Succeed(c)
  <2>1. PICK v \in Values, ttl \in TTLs :
          /\ entries' = [entries EXCEPT ![k] = Done(c, v, ttl)]
          /\ Resolve(c, v, v)
    BY <1>2, <1>5 DEF Succeed
  <2>2. Executing' = [Executing EXCEPT ![k] = NoCall]
    BY <1>4, <2>1, EntriesTyped
  <2>3. Cache' = [Cache EXCEPT ![k] = [value |-> v, left |-> ttl]]
    <3>1. /\ entries'[k] = Done(c, v, ttl)
          /\ \A j \in Keys \ {k} : entries'[j] = entries[j]
      BY <1>2, <2>1 DEF IInv, TypeOK
    <3>2. ttl > 0
      OBVIOUS
    <3>3. Cache'[k] = [value |-> v, left |-> ttl]
      BY <1>2, <3>1, <3>2 DEF Cache, Done
    <3>4. \A j \in Keys \ {k} : Cache'[j] = Cache[j]
      BY <3>1 DEF Cache
    <3>5. \A j \in Keys : Cache'[j] = [Cache EXCEPT ![k] = [value |-> v, left |-> ttl]][j]
      BY <3>3, <3>4 DEF Cache
    <3> QED BY <3>5 DEF Cache
  <2> DEFINE S == {d \in Calls : on[d] = c /\ pc[d] = "waiting"}
  <2>4. S \in SUBSET {d \in Calls \ {c} : key[d] = k}
    BY <1>1, <1>2 DEF IInv, WaiterHasOwner
  <2>5. Offer' = [d \in Calls |-> IF d \in S THEN v ELSE Offer[d]]
    BY <2>1 DEF Offer, Resolve
  <2>6. Returned' = [Returned EXCEPT ![c] = v] /\ key' = [key EXCEPT ![c] = NoKey]
    BY <2>1 DEF Returned, Resolve, IInv, TypeOK
  <2> HIDE DEF S
  <2>7. \E x \in Values, t \in TTLs, W \in SUBSET {d \in Calls \ {c} : key[d] = k} :
          /\ Cache' = [Cache EXCEPT ![k] = [value |-> x, left |-> t]]
          /\ Offer' = [d \in Calls |-> IF d \in W THEN x ELSE Offer[d]]
          /\ Returned' = [Returned EXCEPT ![c] = x]
    BY <2>3, <2>4, <2>5, <2>6
  <2>8. Contract!Succeed(c, k)
    BY <1>3, <2>2, <2>6, <2>7 DEF Executing, Cache, Offer, Returned, Contract!Succeed
  <2> QED BY <1>2, <2>8 DEF Contract!CNext
<1>6. CASE Fail(c) \/ CancelOwner(c)
  <2>1. PICK r \in {"failed", "cancelled"} :
          entries' = [entries EXCEPT ![k] = Absent] /\ Resolve(c, r, r)
    BY <1>2, <1>6 DEF Fail, CancelOwner, Release
  <2>2. Executing' = [Executing EXCEPT ![k] = NoCall]
    BY <1>4, <2>1, EntriesTyped
  <2>3. Cache' = Cache
    <3>1. /\ entries'[k].status = "absent" /\ entries[k].status = "pending"
          /\ \A j \in Keys \ {k} : entries'[j] = entries[j]
      BY <1>2, <2>1, EntriesTyped DEF IInv, TypeOK, Holds
    <3> QED BY <3>1 DEF Cache
  <2>4. Offer' = Offer /\ Offer[c] = NoValue
    BY <1>1, <2>1 DEF Offer, Resolve, CallsClean
  <2>5. Returned' = [Returned EXCEPT ![c] = NoValue] /\ key' = [key EXCEPT ![c] = NoKey]
    BY <2>1 DEF Returned, Resolve, IInv, TypeOK
  <2>6. Offer' = [Offer EXCEPT ![c] = NoValue]
    BY <2>4 DEF Offer
  <2>7. Contract!GiveUp(c, k)
    BY <1>3, <2>2, <2>3, <2>5, <2>6
       DEF Executing, Cache, Offer, Returned, Contract!GiveUp, Contract!Answer
  <2> QED BY <1>2, <2>7 DEF Contract!CNext
<1> QED BY <1>5, <1>6 DEF Finish

\* Every step is a step of the contract or invisible to it.
LEMMA StepContract == IInv /\ CallsClean /\ [Next]_vars => [Contract!CNext]_(Contract!cvars)
<1> SUFFICES ASSUME IInv, CallsClean, [Next]_vars
             PROVE  Contract!CNext \/ UNCHANGED Contract!cvars
  OBVIOUS
<1> USE IdempotencyAssumption
<1>1. ASSUME NEW c \in Calls, NEW k \in Keys, Execute(c, k) PROVE Contract!CNext
  BY <1>1, LookupContract DEF Execute, CallsClean
<1>2. ASSUME NEW c \in Calls, Retry(c) PROVE Contract!CNext
  BY <1>2, LookupContract DEF Retry
<1>3. ASSUME NEW c \in Calls, Deliver(c) \/ CancelJoined(c) PROVE Contract!CNext
  <2>1. pc[c] # "running" /\ Executing' = Executing /\ Cache' = Cache
    BY <1>3 DEF Deliver, CancelJoined, Executing, Cache
  <2>2. wake[c] \in Values \cup Exceptions \cup {NoValue}
    BY DEF IInv, TypeOK, Exceptions
  <2>3. Contract!Share(c)
    BY <1>3, <2>1, <2>2, LeaveIsShare DEF Deliver, CancelJoined, Exceptions
  <2> QED BY <2>3 DEF Contract!CNext
<1>4. ASSUME NEW c \in Calls, Finish(c) PROVE Contract!CNext
  BY <1>4, FinishContract
<1>5. CASE Purge
  <2>1. Executing' = Executing /\ Cache' = Cache
    BY <1>5, PurgeUnseen DEF Purge
  <2> QED BY <1>5, <2>1 DEF Purge, Executing, Cache, Contract!cvars
<1>6. CASE Tick
  <2>1. ASSUME NEW k \in Keys
        PROVE  /\ entries'[k].status = entries[k].status
               /\ entries'[k].owner = entries[k].owner
               /\ entries'[k].value = entries[k].value
               /\ entries[k].left \in Nat
               /\ entries'[k].left = IF entries[k].left > 0 THEN entries[k].left - 1 ELSE 0
    BY <1>6 DEF Tick, IInv, TypeOK
  <2>2. Executing' = Executing
    BY <2>1 DEF Executing
  <2>3. Cache' = [k \in Keys |-> IF Cache[k].left > 1
                                  THEN [Cache[k] EXCEPT !.left = @ - 1]
                                  ELSE [value |-> NoValue, left |-> 0]]
    BY <2>1 DEF Cache
  <2>4. Contract!Elapse
    BY <1>6, <2>2, <2>3 DEF Tick, Executing, Cache, Contract!Elapse, Contract!Nothing
  <2> QED BY <2>4 DEF Contract!CNext
<1>7. CASE UNCHANGED vars
  BY <1>7 DEF vars, Contract!cvars
<1> QED BY <1>1, <1>2, <1>3, <1>4, <1>5, <1>6, <1>7 DEF Next, Resume

\* InMemoryIdempotencyStore implements IdempotencyContract: replays are fresh,
\* joined calls share an execution they were pending with, and failures and
\* cancellations leave nothing to return.
THEOREM StoreKeepsContract == Spec => KeepsContract
<1>1. Init => Contract!CInit
  <2>1. Init => /\ Executing = [k \in Keys |-> NoCall]
                /\ Cache = [k \in Keys |-> [value |-> NoValue, left |-> 0]]
    BY EntriesTyped DEF Init, Executing, Cache
  <2> QED
    BY <2>1, IdempotencyAssumption
       DEF Init, Executing, Cache, Contract!CInit, Contract!Nothing
<1>2. Init => CallsClean
  BY DEF Init, CallsClean
<1>3. QED
  BY <1>1, <1>2, InitIInv, StepIInv, StepCallsClean, StepContract, PTL
     DEF Spec, KeepsContract, Contract!CSpec
=============================================================================
