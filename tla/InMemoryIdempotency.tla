------------------------- MODULE InMemoryIdempotency -------------------------
(***************************************************************************)
(* relprim.InMemoryIdempotencyStore: one store shared by asyncio tasks.    *)
(*                                                                         *)
(* execute() looks its key up under the lock and then awaits, either the   *)
(* operation (as owner of a new entry) or the owner's future (joined).     *)
(* Everything between two awaits is one step: the lock is never held over  *)
(* one, and a result, a failure and a cancellation are published without   *)
(* one.  An awaiting call may be cancelled, also between the resolution of *)
(* its future and the moment its task runs again.                          *)
(*                                                                         *)
(* A call of execute() may be nested in the operation of another one, in   *)
(* the same task or in a task of its own; the outer operation awaits it.   *)
(* Since an owner has one unresolved future at a time, a future is         *)
(* identified by its owner.  expires_at is the time left until then.       *)
(***************************************************************************)
EXTENDS Naturals, FiniteSets

CONSTANTS
  Calls,     \* call sites of execute(), each pending at most once
  TaskOf,    \* call -> the asyncio task that runs it
  ParentOf,  \* call -> the call whose operation it is nested in, or NoCall
  Keys,
  MayNest,   \* <<j, k>>: the operation of key j may call execute() with k
  Values,    \* results of operations
  TTLs,      \* ttl_seconds of the callers, in clock ticks
  NoCall, NoKey, NoValue

ASSUME IdempotencyAssumption ==
  /\ NoCall \notin Calls /\ NoKey \notin Keys /\ NoValue \notin Values
  /\ ParentOf \in [Calls -> Calls \cup {NoCall}]
  /\ TTLs \subseteq Nat \ {0}
  /\ Values \cap {"failed", "cancelled", "reentry"} = {}
  /\ NoValue \notin {"failed", "cancelled", "reentry"}

Exceptions == {"failed", "cancelled", "reentry"}

VARIABLES
  entries,  \* _entries: what the store holds for each key
  pc,       \* where each call is in execute()
  key,      \* its validated_key
  on,       \* the owner whose future it awaits
  wake,     \* what that future was resolved with
  result    \* how the last execute() of the call ended

vars == <<entries, pc, key, on, wake, result>>

Absent == [status |-> "absent", owner |-> NoCall, value |-> NoValue, left |-> 0]
Pending(c) == [status |-> "pending", owner |-> c, value |-> NoValue, left |-> 0]
Done(c, v, ttl) == [status |-> "done", owner |-> c, value |-> v, left |-> ttl]

TypeOK ==
  /\ entries \in [Keys -> [status : {"absent", "pending", "done"},
                           owner : Calls \cup {NoCall},
                           value : Values \cup {NoValue}, left : Nat]]
  /\ pc \in [Calls -> {"idle", "running", "waiting", "woken"}]
  /\ key \in [Calls -> Keys \cup {NoKey}]
  /\ on \in [Calls -> Calls \cup {NoCall}]
  /\ wake \in [Calls -> Values \cup {"failed", "cancelled", NoValue}]
  /\ result \in [Calls -> Values \cup Exceptions \cup {NoValue}]

Init ==
  /\ entries = [k \in Keys |-> Absent]
  /\ pc = [c \in Calls |-> "idle"]
  /\ key = [c \in Calls |-> NoKey]
  /\ on = [c \in Calls |-> NoCall]
  /\ wake = [c \in Calls |-> NoValue]
  /\ result = [c \in Calls |-> NoValue]

Children(c) == {d \in Calls : ParentOf[d] = c /\ pc[d] # "idle"}

\* execute() of call c ends with r, a value or an exception.
Leave(c, r) ==
  /\ pc' = [pc EXCEPT ![c] = "idle"]
  /\ key' = [key EXCEPT ![c] = NoKey]
  /\ on' = [on EXCEPT ![c] = NoCall]
  /\ wake' = [wake EXCEPT ![c] = NoValue]
  /\ result' = [result EXCEPT ![c] = r]

-----------------------------------------------------------------------------
(* The critical section at the head of the loop.  Definitions named        *)
(* Fault... are deliberate bugs that no action uses.                       *)

\* Fault: an entry without an expiry time counts as expired.
FaultPurgesPending ==
  [k \in Keys |-> IF entries[k].left = 0 THEN Absent ELSE entries[k]]

\* Fault: nothing is purged before the lookup.
FaultNoPurge == entries

\* _purge_expired_locked(clock())
Purged ==
  [k \in Keys |->
     IF entries[k].status = "done" /\ entries[k].left = 0 THEN Absent ELSE entries[k]]

Own(c, k) ==
  /\ Purged[k].status = "absent"
  /\ entries' = [Purged EXCEPT ![k] = Pending(c)]
  /\ pc' = [pc EXCEPT ![c] = "running"]
  /\ key' = [key EXCEPT ![c] = k]
  /\ on' = [on EXCEPT ![c] = NoCall]
  /\ wake' = [wake EXCEPT ![c] = NoValue]
  /\ result' = [result EXCEPT ![c] = NoValue]

\* IdempotencyReentryError, to the owning task itself.
Reenter(c, k) ==
  /\ Purged[k].status = "pending"
  /\ TaskOf[Purged[k].owner] = TaskOf[c]
  /\ entries' = Purged
  /\ Leave(c, "reentry")

Join(c, k) ==
  /\ Purged[k].status = "pending"
  /\ TaskOf[Purged[k].owner] # TaskOf[c]
  /\ entries' = Purged
  /\ pc' = [pc EXCEPT ![c] = "waiting"]
  /\ key' = [key EXCEPT ![c] = k]
  /\ on' = [on EXCEPT ![c] = Purged[k].owner]
  /\ wake' = [wake EXCEPT ![c] = NoValue]
  /\ result' = [result EXCEPT ![c] = NoValue]

\* A resolved future does not suspend: lookup and replay are one step.
Replay(c, k) ==
  /\ Purged[k].status = "done"
  /\ entries' = Purged
  /\ Leave(c, Purged[k].value)

Lookup(c, k) == Own(c, k) \/ Reenter(c, k) \/ Join(c, k) \/ Replay(c, k)

-----------------------------------------------------------------------------
(* Entering execute(), and running again after an await                    *)

Execute(c, k) ==
  /\ pc[c] = "idle"
  /\ \/ ParentOf[c] = NoCall
     \/ /\ ParentOf[c] \in Calls
        /\ pc[ParentOf[c]] = "running"
        /\ <<key[ParentOf[c]], k>> \in MayNest
  /\ Lookup(c, k)

\* except _OwnerCancelled: continue
Retry(c) ==
  /\ pc[c] = "woken"
  /\ wake[c] = "cancelled"
  /\ \E k \in Keys : key[c] = k /\ Lookup(c, k)

\* The shared result is returned, or the owner's exception raised.
Deliver(c) ==
  /\ pc[c] = "woken"
  /\ wake[c] # "cancelled"
  /\ Leave(c, wake[c])
  /\ UNCHANGED entries

\* The task of a joined call is cancelled; the future is shielded.
CancelJoined(c) ==
  /\ pc[c] \in {"waiting", "woken"}
  /\ Leave(c, "cancelled")
  /\ UNCHANGED entries

-----------------------------------------------------------------------------
(* The end of the owner's operation                                        *)

\* set_result() or set_exception() on the future of c, and the end of c.
Resolve(c, outcome, r) ==
  /\ pc' = [d \in Calls |->
       IF d = c THEN "idle" ELSE IF on[d] = c /\ pc[d] = "waiting" THEN "woken" ELSE pc[d]]
  /\ wake' = [d \in Calls |->
       IF on[d] = c /\ pc[d] = "waiting" THEN outcome ELSE wake[d]]
  /\ on' = [d \in Calls |-> IF on[d] = c THEN NoCall ELSE on[d]]
  /\ key' = [key EXCEPT ![c] = NoKey]
  /\ result' = [result EXCEPT ![c] = r]

\* current_entry.future is future
Holds(c) == entries[key[c]].status = "pending" /\ entries[key[c]].owner = c

\* _remove_entry_now(key, future)
Release(c) == entries' = IF Holds(c) THEN [entries EXCEPT ![key[c]] = Absent] ELSE entries

Succeed(c) ==
  /\ pc[c] = "running"
  /\ Children(c) = {}
  /\ \E v \in Values, ttl \in TTLs :
       /\ entries' = IF Holds(c)
                     THEN [entries EXCEPT ![key[c]] = Done(c, v, ttl)]
                     ELSE entries
       /\ Resolve(c, v, v)

\* Fault: the failure is published like a result.
FaultCachesFailure(c) ==
  /\ pc[c] = "running"
  /\ Children(c) = {}
  /\ \E ttl \in TTLs : entries' = [entries EXCEPT ![key[c]] = Done(c, "failed", ttl)]
  /\ Resolve(c, "failed", "failed")

\* Fault: the key is released and nobody is told.
FaultSilentFailure(c) ==
  /\ pc[c] = "running"
  /\ Children(c) = {}
  /\ Release(c)
  /\ Leave(c, "failed")

Fail(c) ==
  /\ pc[c] = "running"
  /\ Children(c) = {}
  /\ Release(c)
  /\ Resolve(c, "failed", "failed")

\* Fault: only Exception is handled, so a cancelled owner keeps the key.
FaultCancelKeepsKey(c) ==
  /\ pc[c] = "running"
  /\ \A d \in Children(c) : TaskOf[d] # TaskOf[c]
  /\ UNCHANGED entries
  /\ Resolve(c, "cancelled", "cancelled")

\* Fault: the key is released and the joined calls are not woken.
FaultCancelSilent(c) ==
  /\ pc[c] = "running"
  /\ \A d \in Children(c) : TaskOf[d] # TaskOf[c]
  /\ Release(c)
  /\ Leave(c, "cancelled")

\* The owner is cancelled while it awaits its operation.  A nested call of
\* the same task gets the cancellation first.
CancelOwner(c) ==
  /\ pc[c] = "running"
  /\ \A d \in Children(c) : TaskOf[d] # TaskOf[c]
  /\ Release(c)
  /\ Resolve(c, "cancelled", "cancelled")

-----------------------------------------------------------------------------
\* purge_expired() and entry_count()
Purge == entries' = Purged /\ UNCHANGED <<pc, key, on, wake, result>>

\* The store's clock.
Tick ==
  /\ entries' = [k \in Keys |->
       [entries[k] EXCEPT !.left = IF @ > 0 THEN @ - 1 ELSE 0]]
  /\ UNCHANGED <<pc, key, on, wake, result>>

Finish(c) == Succeed(c) \/ Fail(c) \/ CancelOwner(c)
Resume(c) == Retry(c) \/ Deliver(c)

Next ==
  \/ \E c \in Calls, k \in Keys : Execute(c, k)
  \/ \E c \in Calls : Resume(c) \/ CancelJoined(c) \/ Finish(c)
  \/ Purge
  \/ Tick

Spec == Init /\ [][Next]_vars

\* Operations end, after finitely many nested calls (hence strong fairness),
\* and the event loop runs every task whose future is resolved.
Fairness == \A c \in Calls : SF_vars(Finish(c)) /\ WF_vars(Resume(c))

FairSpec == Spec /\ Fairness

-----------------------------------------------------------------------------
(* Properties                                                              *)

\* Two executions of one key never overlap, however owners are cancelled
\* while others join, retry and arrive anew ("execute `operation` at most
\* once at a time per key").
OneExecution ==
  \A c, d \in Calls :
    pc[c] = "running" /\ pc[d] = "running" /\ key[c] = key[d] => c = d

\* An unfinished entry always has an owner that is executing its key: no
\* failure or cancellation, at whatever point, leaves a key occupied.
KeyNeverStranded ==
  \A k \in Keys : entries[k].status = "pending" =>
    \E c \in Calls : entries[k].owner = c /\ pc[c] = "running" /\ key[c] = k

\* A joined call waits for an owner that is still executing its key, so
\* its future will be resolved: no wake-up is ever lost.
WaiterHasOwner ==
  \A c \in Calls : pc[c] = "waiting" =>
    \E o \in Calls : on[c] = o /\ pc[o] = "running" /\ key[o] = key[c]

\* The store implements the contract: what it replays is the last successful
\* result of the key and still within its TTL, although expired entries are
\* only purged lazily; joined calls return the result of an execution they
\* were pending with; failures and cancellations are never replayed.
Contract == INSTANCE IdempotencyContract WITH
  executing <- [k \in Keys |->
    IF entries[k].status = "pending" THEN entries[k].owner ELSE NoCall],
  cache <- [k \in Keys |->
    IF entries[k].status = "done" /\ entries[k].left > 0
    THEN [value |-> entries[k].value, left |-> entries[k].left]
    ELSE [value |-> NoValue, left |-> 0]],
  want <- key,
  offer <- [c \in Calls |-> IF wake[c] \in Values THEN wake[c] ELSE NoValue],
  returned <- [c \in Calls |-> IF result[c] \in Values THEN result[c] ELSE NoValue]

KeepsContract == Contract!CSpec

\* Once owners are no longer cancelled, every joined call gets an answer:
\* retries after a cancelled owner do not go on for ever, and nested calls
\* whose keys are ordered do not wait in a circle.
NoOwnerCancelled ==
  \A c \in Calls : ~(pc[c] = "running" /\ result'[c] = "cancelled")

CallersServed ==
  <>[][NoOwnerCancelled]_vars => \A c \in Calls : pc[c] # "idle" ~> pc[c] = "idle"
=============================================================================
