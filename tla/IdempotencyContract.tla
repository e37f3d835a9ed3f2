------------------------- MODULE IdempotencyContract -------------------------
(***************************************************************************)
(* What an idempotency store promises the callers of execute(), after the  *)
(* IdempotencyStore protocol: one execution of a key at a time, a result   *)
(* shared with the calls that were pending when it came, a successful      *)
(* result replayed until its TTL has elapsed and not a moment longer, and  *)
(* nothing else ever returned.  There are no entries, futures, wake-ups or *)
(* purges here; an expired result is simply gone.  InMemoryIdempotency     *)
(* implements it.                                                          *)
(***************************************************************************)
EXTENDS Naturals

CONSTANTS
  Calls, Keys, Values, TTLs,
  NoCall, NoKey, NoValue

VARIABLES
  executing,  \* key -> the call that executes its operation, or NoCall
  cache,      \* key -> [value, left]: the result to replay, for `left` ticks
  want,       \* call -> the key it is pending on, or NoKey
  offer,      \* call -> the result of an execution it shares, or NoValue
  returned    \* call -> the value its last execute() returned, or NoValue

cvars == <<executing, cache, want, offer, returned>>

Nothing == [value |-> NoValue, left |-> 0]
Fresh(k) == cache[k] # Nothing

CInit ==
  /\ executing = [k \in Keys |-> NoCall]
  /\ cache = [k \in Keys |-> Nothing]
  /\ want = [c \in Calls |-> NoKey]
  /\ offer = [c \in Calls |-> NoValue]
  /\ returned = [c \in Calls |-> NoValue]

\* The call asks for k, now or for some time already.
Asks(c, k) == want[c] \in {NoKey, k} /\ \A j \in Keys : executing[j] # c

\* The call ends with value v, or with an exception if v is NoValue.
Answer(c, v) ==
  /\ want' = [want EXCEPT ![c] = NoKey]
  /\ offer' = [offer EXCEPT ![c] = NoValue]
  /\ returned' = [returned EXCEPT ![c] = v]

\* The key is free and nothing can be replayed: the call executes.
Start(c, k) ==
  /\ Asks(c, k)
  /\ executing[k] = NoCall
  /\ ~Fresh(k)
  /\ executing' = [executing EXCEPT ![k] = c]
  /\ want' = [want EXCEPT ![c] = k]
  /\ returned' = [returned EXCEPT ![c] = NoValue]
  /\ UNCHANGED <<cache, offer>>

\* The call shares the execution in flight.
Wait(c, k) ==
  /\ Asks(c, k)
  /\ executing[k] # NoCall
  /\ want' = [want EXCEPT ![c] = k]
  /\ returned' = [returned EXCEPT ![c] = NoValue]
  /\ UNCHANGED <<executing, cache, offer>>

Replay(c, k) ==
  /\ Asks(c, k)
  /\ Fresh(k)
  /\ Answer(c, cache[k].value)
  /\ UNCHANGED <<executing, cache>>

\* The execution succeeds: its result is cached for its owner's TTL, and
\* offered to calls that are pending on the key.
Succeed(c, k) ==
  /\ executing[k] = c
  /\ executing' = [executing EXCEPT ![k] = NoCall]
  /\ \E v \in Values, ttl \in TTLs, S \in SUBSET {d \in Calls \ {c} : want[d] = k} :
       /\ cache' = [cache EXCEPT ![k] = [value |-> v, left |-> ttl]]
       /\ offer' = [d \in Calls |-> IF d \in S THEN v ELSE offer[d]]
       /\ returned' = [returned EXCEPT ![c] = v]
  /\ want' = [want EXCEPT ![c] = NoKey]

\* A failed or cancelled execution leaves nothing to replay.
GiveUp(c, k) ==
  /\ executing[k] = c
  /\ executing' = [executing EXCEPT ![k] = NoCall]
  /\ Answer(c, NoValue)
  /\ UNCHANGED cache

\* A pending call returns the result it was offered, or an exception.
Share(c) ==
  /\ \A k \in Keys : executing[k] # c
  /\ Answer(c, offer[c]) \/ Answer(c, NoValue)
  /\ UNCHANGED <<executing, cache>>

Elapse ==
  /\ cache' = [k \in Keys |->
       IF cache[k].left > 1 THEN [cache[k] EXCEPT !.left = @ - 1] ELSE Nothing]
  /\ UNCHANGED <<executing, want, offer, returned>>

CNext ==
  \/ \E c \in Calls, k \in Keys :
       Start(c, k) \/ Wait(c, k) \/ Replay(c, k) \/ Succeed(c, k) \/ GiveUp(c, k)
  \/ \E c \in Calls : Share(c)
  \/ Elapse

CSpec == CInit /\ [][CNext]_cvars
=============================================================================
