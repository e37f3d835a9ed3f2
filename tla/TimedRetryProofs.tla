-------------------------- MODULE TimedRetryProofs --------------------------
(***************************************************************************)
(* What a retry loop between two deadlines promises, for any nesting, any  *)
(* backoff, any number of attempts and any number of cancellations.        *)
(***************************************************************************)
EXTENDS TimedRetry, TLAPS, WellFoundedInduction

\* What an expiring deadline adds to task.cancelling().
Own(d) == IF d.state = "expiring" THEN 1 ELSE 0

\* Deadlines are live inside their block and over outside of it.
Open == {"none", "active", "expiring"}
Closed == {"none", "expired", "exited"}

Nested ==
  /\ at # "done" => total.state \in Open /\ outcome = "running"
  /\ at = "done" => total.state \in Closed
  /\ at = "operation" => each.state \in Open
  /\ at # "operation" => each.state \in Closed

\* task.cancelling() counts the callers and the deadlines that are expiring,
\* and nothing else.
Counted ==
  /\ total.entry <= requests
  /\ at # "done" => cancelling = requests + Own(each) + Own(total)

\* A run that is cancelled has the CancelledError on its way until somebody
\* swallows it; and until then both deadlines were entered with the same
\* count, which is what lets the inner one leave the error to the outer one.
Sent ==
  /\ at # "done" /\ RunCancelled /\ ~swallowed => pending \/ owed
  /\ at = "sleep" => ~owed
  /\ at = "operation" /\ ~swallowed => each.entry = total.entry

AllDelays == UNION {DelaysFor(b, n) : b \in Backoffs, n \in 1..MaxAttempts}

\* RetriesAgree with the length of the history while the loop sleeps.
Paced ==
  /\ delays \in Seq(AllDelays)
  /\ at = "sleep" => attempt < MaxAttempts /\ Len(delays) = attempt
  /\ RetriesAgree

Ended == CancellationPropagates /\ ExpiryToldByItsOwn /\ CancellingRestored

IInv == TypeOK /\ Nested /\ Counted /\ Sent /\ Paced /\ Ended

-----------------------------------------------------------------------------
(* The operators of the model                                              *)

DeadlineType ==
  [state : {"none", "active", "expiring", "expired", "exited"}, entry : 0..(MaxCancels + 1)]

\* The parts of TypeOK one by one.
LEMMA Types ==
  ASSUME TypeOK
  PROVE  /\ pending \in BOOLEAN /\ owed \in BOOLEAN /\ swallowed \in BOOLEAN
         /\ total \in DeadlineType /\ each \in DeadlineType
         /\ layout \in Layouts /\ layout.retryOn \subseteq Exceptions
         /\ attempt \in Nat \ {0} /\ attempt <= MaxAttempts
         /\ MaxAttempts \in Nat /\ MaxCancels \in Nat
         /\ cancelling \in Nat /\ requests \in Nat /\ requests <= MaxCancels
BY TimedRetryAssumption DEF TypeOK, DeadlineType, LayoutType

\* What a layer makes of an exception: an expiring deadline answers for a
\* TimeoutError, and for a CancelledError when no other cancellation has
\* been counted since it was entered.
LEMMA AfterDeadlineIs ==
  ASSUME NEW d \in DeadlineType, NEW x, NEW count \in Nat, NEW expiry
  PROVE  AfterDeadline(d, x, count, expiry) =
           IF d.state = "expiring" /\ (x = "timeout" \/ (x = "cancelled" /\ count - 1 <= d.entry))
           THEN expiry ELSE x
BY DEF AfterDeadline, Raised

\* A layer takes back what it has added itself, and its block is then over.
LEMMA DeadlineClosed ==
  ASSUME NEW d \in DeadlineType, NEW count \in Nat
  PROVE  /\ UncancelledBy(d, count) = count - Own(d)
         /\ d.state \in Open =>
              /\ [d EXCEPT !.state = ExitState(d)] \in DeadlineType
              /\ [d EXCEPT !.state = ExitState(d)].state \in Closed
              /\ [d EXCEPT !.state = ExitState(d)].entry = d.entry
              /\ [d EXCEPT !.state = ExitState(d)].state = "expired" <=> d.state = "expiring"
BY DEF UncancelledBy, Own, Open, Closed, ExitState, DeadlineType

\* A delay of the loop is one of AllDelays.
LEMMA DelayTyped ==
  ASSUME TypeOK, NEW delay \in DelaysFor(backoff, attempt)
  PROVE  delay \in AllDelays
BY DEF TypeOK, AllDelays

-----------------------------------------------------------------------------
(* The end of the run                                                      *)

\* Finish closes the total deadline, restores task.cancelling(), and turns
\* the cancellation of an expired total deadline, and no other, into its
\* OperationTimeoutError.
LEMMA FinishEffect ==
  ASSUME IInv, at # "done", NEW x, NEW count \in Nat,
         count = requests + Own(total), Finish(x, count)
  PROVE  /\ at' = "done"
         /\ cancelling' = requests
         /\ total' \in DeadlineType /\ total'.state \in Closed /\ total'.entry = total.entry
         /\ total'.state = "expired" <=> total.state = "expiring"
         /\ outcome' = IF /\ total.state = "expiring"
                          /\ x = "timeout" \/ (x = "cancelled" /\ requests <= total.entry)
                       THEN "total_expired" ELSE x
         /\ delays' = delays
<1>1. /\ total \in DeadlineType /\ requests \in Nat
      /\ total.state \in Open
  BY Types DEF IInv, Nested
<1>2. /\ cancelling' = count - Own(total)
      /\ total' = [total EXCEPT !.state = ExitState(total)]
      /\ outcome' = AfterDeadline(total, x, count, "total_expired")
      /\ at' = "done" /\ delays' = delays
  BY <1>1, DeadlineClosed DEF Finish
<1>3. Own(total) \in {0, 1} /\ (total.state = "expiring" => Own(total) = 1)
  BY DEF Own
<1> QED BY <1>1, <1>2, <1>3, DeadlineClosed, AfterDeadlineIs

\* A run that ends where it should, by the operation's last attempt or by
\* the cancellation of a sleep, keeps every part of the invariant.
LEMMA DoneStep ==
  ASSUME IInv, at # "done", NEW x \in {"exhausted"} \cup Exceptions \cup Results,
         NEW count \in Nat, count = requests + Own(total), Finish(x, count),
         UNCHANGED <<layout, backoff, attempt, requests>>,
         pending' \in BOOLEAN, owed' \in BOOLEAN, swallowed' \in BOOLEAN,
         last' \in layout.retryOn \cup {"none"},
         each' \in DeadlineType, each'.state \in Closed,
         x \notin layout.retryOn,
         x = "each_expired" => each'.state = "expired",
         x = "exhausted" => attempt = MaxAttempts,
         Len(delays) = attempt - 1 \/ (Len(delays) = attempt /\ x = "cancelled"),
         RunCancelled /\ ~swallowed' => x = "cancelled",
         raised' \in Results \cup {"none"},
         raised' = "none" \/ each'.state = "expired"
           \/ x = IF raised' \in layout.retryOn THEN "exhausted" ELSE raised'
  PROVE  IInv'
<1>1. /\ at' = "done" /\ cancelling' = requests /\ delays' = delays
      /\ total' \in DeadlineType /\ total'.state \in Closed /\ total'.entry = total.entry
      /\ total'.state = "expired" <=> total.state = "expiring"
      /\ outcome' = IF /\ total.state = "expiring"
                       /\ x = "timeout" \/ (x = "cancelled" /\ requests <= total.entry)
                    THEN "total_expired" ELSE x
  BY FinishEffect
<1>2. /\ requests \in Nat /\ requests <= MaxCancels /\ MaxCancels \in Nat
      /\ total \in DeadlineType /\ total.entry <= requests
      /\ layout.retryOn \subseteq Exceptions
      /\ attempt \in Nat
  BY Types DEF IInv, Counted
<1>3. TypeOK'
  <2>1. outcome' \in {"running", "exhausted", "total_expired"} \cup Exceptions \cup Results
    BY <1>1
  <2>2. /\ layout' \in Layouts /\ backoff' \in Backoffs
        /\ at' \in {"operation", "sleep", "done"} /\ attempt' \in 1..MaxAttempts
        /\ last' \in layout'.retryOn \cup {"none"}
        /\ requests' \in 0..MaxCancels /\ raised' \in Results \cup {"none"}
    BY <1>1 DEF IInv, TypeOK
  <2>3. cancelling' \in 0..(MaxCancels + 2)
    BY <1>1, <1>2
  <2> QED BY <1>1, <2>1, <2>2, <2>3 DEF TypeOK, DeadlineType
<1>4. Nested' /\ Counted' /\ Sent'
  BY <1>1, <1>2 DEF Nested, Counted, Sent
<1>5. Paced'
  <2>1. outcome' \notin layout.retryOn
    BY <1>1, <1>2 DEF Exceptions
  <2>2. outcome' = "exhausted" => attempt = MaxAttempts
    BY <1>1
  <2>3. Len(delays) = attempt => outcome' \in {"cancelled", "total_expired"}
    BY <1>1, <1>2
  <2> QED BY <1>1, <1>2, <2>1, <2>2, <2>3 DEF IInv, Paced, RetriesAgree
<1>6. Ended'
  <2>1. CancellationPropagates'
    BY <1>1, <1>2 DEF CancellationPropagates, RunCancelled, DeadlineType
  <2>2. ExpiryToldByItsOwn'
    <3>1. /\ outcome' = "total_expired" => total'.state = "expired"
          /\ outcome' = "each_expired" => each'.state = "expired"
          /\ at' = "sleep" /\ last' = "each_expired" => each'.state = "expired"
      BY <1>1, <1>2 DEF Exceptions, Results
    <3>2. total'.state = "expired" /\ requests' = total'.entry /\ ~swallowed'
            => outcome' = "total_expired"
      BY <1>1, <1>2 DEF RunCancelled, DeadlineType
    <3>3. raised' # "none" /\ "expired" \notin {total'.state, each'.state}
            => outcome' = IF raised' \in layout'.retryOn THEN "exhausted" ELSE raised'
      BY <1>1
    <3> QED BY <3>1, <3>2, <3>3 DEF ExpiryToldByItsOwn
  <2> QED BY <1>1, <2>1, <2>2 DEF Ended, CancellingRestored
<1> QED BY <1>3, <1>4, <1>5, <1>6 DEF IInv

-----------------------------------------------------------------------------
(* The steps                                                               *)

\* The run starts with both deadlines entered at the same count.
LEMMA InitIInv == Init => IInv
<1> SUFFICES ASSUME Init PROVE IInv
  OBVIOUS
<1> USE TimedRetryAssumption
<1>1. cancelling \in 0..MaxCancels
  BY DEF Init
<1>2. TypeOK
  <2>1. \A present \in BOOLEAN : Entered(present, cancelling) \in DeadlineType
    BY <1>1 DEF Entered, Deadline, DeadlineType
  <2>2. layout.total \in BOOLEAN /\ layout.each \in BOOLEAN
    BY DEF Init, LayoutType
  <2>3. total \in DeadlineType /\ each \in DeadlineType
    BY <2>1, <2>2 DEF Init
  <2>4. cancelling \in 0..(MaxCancels + 2) /\ requests \in 0..MaxCancels
    BY <1>1 DEF Init
  <2>5. attempt \in 1..MaxAttempts
    BY DEF Init
  <2>6. /\ layout \in Layouts /\ backoff \in Backoffs
        /\ at \in {"operation", "sleep", "done"}
        /\ last \in layout.retryOn \cup {"none"}
        /\ {pending, owed, swallowed} \subseteq BOOLEAN
        /\ outcome \in {"running", "exhausted", "total_expired"} \cup Exceptions \cup Results
        /\ raised \in Results \cup {"none"}
    BY Zenon DEF Init
  <2> QED BY <2>3, <2>4, <2>5, <2>6 DEF TypeOK, DeadlineType
<1>3. Nested /\ Counted /\ Sent
  BY <1>1 DEF Init, Nested, Counted, Sent, Own, Open, Closed, RunCancelled, Entered, Deadline
<1>4. Paced
  BY DEF Init, Paced, RetriesAgree, LayoutType, Exceptions
<1>5. Ended
  BY DEF Init, Ended, CancellationPropagates, ExpiryToldByItsOwn, CancellingRestored
<1> QED BY <1>2, <1>3, <1>4, <1>5 DEF IInv

\* A deadline or a caller cancels the task while the operation or a sleep
\* is awaited: one count more, and a CancelledError on its way.
LEMMA CancelStep ==
  ASSUME IInv, EachFires \/ TotalFires \/ CancelCall
  PROVE  IInv'
<1>1. /\ at # "done" /\ pending' = TRUE /\ cancelling' = cancelling + 1
      /\ UNCHANGED <<layout, backoff, at, attempt, last, outcome, delays, raised, owed,
                     swallowed>>
  BY DEF EachFires, TotalFires, CancelCall, TaskCancel
<1>2. /\ total \in DeadlineType /\ each \in DeadlineType
      /\ total'.entry = total.entry /\ each'.entry = each.entry
      /\ cancelling \in Nat /\ requests \in Nat /\ requests' \in Nat /\ requests' >= requests
      /\ total' \in DeadlineType /\ each' \in DeadlineType
      /\ requests' <= MaxCancels /\ MaxCancels \in Nat
  BY Types DEF IInv, EachFires, TotalFires, CancelCall, DeadlineType
<1>3. Nested'
  BY <1>1, <1>2 DEF IInv, Nested, EachFires, TotalFires, CancelCall, Open, Closed, DeadlineType
<1>4. Counted'
  BY <1>1, <1>2 DEF IInv, Counted, Nested, EachFires, TotalFires, CancelCall, Own, Open,
                    Closed, DeadlineType
<1>5. TypeOK'
  <2>1. cancelling' = requests' + Own(each') + Own(total')
    BY <1>1, <1>4 DEF Counted, Own
  <2>2. Own(each') \in {0, 1} /\ Own(total') \in {0, 1}
    BY DEF Own
  <2>3. cancelling' \in 0..(MaxCancels + 2)
    BY <1>2, <2>1, <2>2
  <2> QED BY <1>1, <1>2, <2>3, Types DEF IInv, TypeOK, DeadlineType
<1>6. Sent'
  BY <1>1, <1>2 DEF IInv, Sent
<1>7. Paced'
  BY <1>1 DEF IInv, Paced, RetriesAgree
<1>8. Ended'
  <2>1. each.state = "expired" => each'.state = "expired"
    BY DEF EachFires, TotalFires, CancelCall
  <2>2. outcome = "running"
    BY <1>1 DEF IInv, Nested
  <2> QED
    BY <1>1, <2>1, <2>2
       DEF IInv, Ended, CancellationPropagates, ExpiryToldByItsOwn, CancellingRestored
<1> QED BY <1>3, <1>4, <1>5, <1>6, <1>7, <1>8 DEF IInv

\* An operation that catches its CancelledError still owes it.
LEMMA CleansUpStep == IInv /\ OperationCleansUp => IInv'
<1> SUFFICES ASSUME IInv, OperationCleansUp PROVE IInv'
  OBVIOUS
<1>1. TypeOK'
  BY Types DEF IInv, TypeOK, OperationCleansUp
<1>2. Nested' /\ Counted' /\ Paced' /\ Ended'
  BY DEF IInv, OperationCleansUp, Nested, Counted, Paced, RetriesAgree, Ended, Own,
         CancellationPropagates, ExpiryToldByItsOwn, CancellingRestored
<1>3. Sent'
  BY DEF IInv, OperationCleansUp, Sent, RunCancelled
<1> QED BY <1>1, <1>2, <1>3 DEF IInv

\* What the loop sees of the operation: an expiring deadline of the attempt
\* answers for it only where no one cancels the run as a whole.
Seen(x) == AfterDeadline(each, x, cancelling, "each_expired")

\* The CancelledError of a cancelled run reaches the loop as one, and the
\* deadline of the attempt leaves the count of the others behind.
LEMMA SeenIs ==
  ASSUME IInv, at = "operation", NEW x \in Results
  PROVE  /\ Seen(x) \in Results \cup {"each_expired"}
         /\ Seen(x) = "each_expired" => each.state = "expiring"
         /\ RunCancelled /\ ~swallowed /\ x = "cancelled" => Seen(x) = "cancelled"
         /\ UncancelledBy(each, cancelling) = requests + Own(total)
         /\ UncancelledBy(each, cancelling) \in Nat
<1>1. /\ each \in DeadlineType /\ total \in DeadlineType
      /\ cancelling \in Nat /\ requests \in Nat /\ total.entry <= requests
      /\ cancelling = requests + Own(each) + Own(total)
      /\ swallowed \in BOOLEAN
      /\ ~swallowed => each.entry = total.entry
  BY Types DEF IInv, Counted, Sent
<1>2. Own(total) \in {0, 1} /\ Own(each) \in {0, 1}
  BY DEF Own
<1>3. UncancelledBy(each, cancelling) = requests + Own(total)
  <2>1. UncancelledBy(each, cancelling) = cancelling - Own(each)
    BY <1>1, DeadlineClosed
  <2> QED BY <1>1, <1>2, <2>1
<1>4. Seen(x) = IF /\ each.state = "expiring"
                   /\ x = "timeout" \/ (x = "cancelled" /\ cancelling - 1 <= each.entry)
                THEN "each_expired" ELSE x
  BY <1>1, AfterDeadlineIs DEF Seen
<1>5. ASSUME RunCancelled, ~swallowed, each.state = "expiring"
      PROVE  ~(cancelling - 1 <= each.entry)
  <2>1. Own(each) = 1 /\ (total.state = "expiring" => Own(total) = 1)
    BY <1>5 DEF Own
  <2>2. requests + Own(total) > total.entry
    BY <1>1, <1>2, <1>5, <2>1 DEF RunCancelled, DeadlineType
  <2> QED BY <1>1, <1>2, <1>5, <2>1, <2>2 DEF DeadlineType
<1> QED BY <1>1, <1>2, <1>3, <1>4, <1>5 DEF Results

\* The operation ends: the loop is left with what it has seen, gives up, or
\* sleeps.  It sleeps only when nobody cancels the run, or a cancellation
\* has been swallowed.
LEMMA EndsStep ==
  ASSUME IInv, NEW x \in Results, OperationEnds(x)
  PROVE  IInv'
<1> DEFINE y == Seen(x)
           count == UncancelledBy(each, cancelling)
<1>1. /\ at = "operation" /\ pending' = FALSE /\ owed' = FALSE /\ raised' = x
      /\ swallowed' = (swallowed \/ (RunCancelled /\ x # "cancelled"))
      /\ UNCHANGED <<layout, backoff, attempt, requests>>
      /\ each' = [each EXCEPT !.state = ExitState(each)]
      /\ last' = IF y \in layout.retryOn THEN y ELSE last
      /\ AfterAttempt(y, count)
  BY DEF OperationEnds, Seen
<1>2. /\ each \in DeadlineType /\ each.state \in Open /\ total \in DeadlineType
      /\ total.state \in Open /\ outcome = "running"
      /\ cancelling \in Nat /\ requests \in Nat /\ total.entry <= requests
      /\ layout.retryOn \subseteq Exceptions /\ layout \in Layouts
      /\ attempt \in Nat \ {0} /\ attempt <= MaxAttempts /\ MaxAttempts \in Nat
      /\ requests <= MaxCancels /\ MaxCancels \in Nat
      /\ swallowed \in BOOLEAN
      /\ delays \in Seq(AllDelays) /\ Len(delays) = attempt - 1
  BY <1>1, Types DEF IInv, Nested, Counted, Paced, RetriesAgree
<1>3. /\ each' \in DeadlineType /\ each'.state \in Closed
      /\ each'.state = "expired" <=> each.state = "expiring"
  BY <1>1, <1>2, DeadlineClosed
<1>4. /\ y \in Results \cup {"each_expired"}
      /\ y = "each_expired" => each'.state = "expired"
      /\ RunCancelled /\ ~swallowed /\ x = "cancelled" => y = "cancelled"
      /\ count = requests + Own(total) /\ count \in Nat
  BY <1>1, <1>3, SeenIs
<1>5. RunCancelled \in BOOLEAN /\ swallowed' \in BOOLEAN
  BY <1>1, <1>2 DEF RunCancelled
<1>6. RunCancelled /\ ~swallowed' => y = "cancelled"
  BY <1>1, <1>4, <1>5
<1>7. last' \in layout.retryOn \cup {"none"}
  BY <1>1 DEF IInv, TypeOK
<1>8. y = x \/ each'.state = "expired"
  BY <1>1, <1>2, <1>3, AfterDeadlineIs DEF Seen
<1> HIDE DEF y, count
<1>9. CASE y \notin layout.retryOn
  <2>1. Finish(y, count)
    BY <1>1, <1>9 DEF AfterAttempt
  <2>2. y \in {"exhausted"} \cup Exceptions \cup Results /\ y # "exhausted"
    BY <1>4 DEF Exceptions, Results
  <2>3. each'.state = "expired" \/ y = IF x \in layout.retryOn THEN "exhausted" ELSE x
    BY <1>9, <1>8
  <2> QED
    BY <1>1, <1>2, <1>3, <1>4, <1>5, <1>6, <1>7, <1>9, <2>1, <2>2, <2>3, DoneStep
<1>10. CASE y \in layout.retryOn /\ attempt >= MaxAttempts
  <2>1. Finish("exhausted", count)
    BY <1>1, <1>10 DEF AfterAttempt
  <2>2. ~(RunCancelled /\ ~swallowed')
    BY <1>2, <1>6, <1>10 DEF Exceptions
  <2>3. attempt = MaxAttempts /\ "exhausted" \notin layout.retryOn
    BY <1>2, <1>10 DEF Exceptions
  <2>4. \/ each'.state = "expired"
        \/ "exhausted" = IF x \in layout.retryOn THEN "exhausted" ELSE x
    BY <1>10, <1>8
  <2> QED BY <1>1, <1>2, <1>3, <1>4, <1>5, <1>7, <2>1, <2>2, <2>3, <2>4, DoneStep
<1>11. CASE y \in layout.retryOn /\ attempt < MaxAttempts
  <2>1. PICK delay \in DelaysFor(backoff, attempt) : delays' = Append(delays, delay)
    BY <1>1, <1>2, <1>11 DEF AfterAttempt
  <2>2. at' = "sleep" /\ cancelling' = count /\ UNCHANGED <<outcome, total>>
    BY <1>1, <1>2, <1>11 DEF AfterAttempt
  <2>3. ~(RunCancelled /\ ~swallowed')
    BY <1>2, <1>6, <1>11 DEF Exceptions
  <2>4. Own(total) \in {0, 1} /\ Own(each') = 0
    BY <1>3 DEF Own, Closed
  <2>5. TypeOK'
    <3>1. cancelling' \in 0..(MaxCancels + 2)
      BY <1>2, <1>4, <2>2, <2>4
    <3> QED
      BY <1>1, <1>2, <1>3, <1>5, <1>7, <2>2, <3>1 DEF IInv, TypeOK, DeadlineType
  <2>6. Nested' /\ Counted'
    BY <1>1, <1>2, <1>3, <1>4, <2>2, <2>4 DEF Nested, Counted, Own
  <2>7. Sent'
    BY <1>1, <2>2, <2>3 DEF Sent, RunCancelled
  <2>8. Paced'
    <3>1. delays' \in Seq(AllDelays) /\ Len(delays') = attempt
      BY <1>2, <2>1, DelayTyped DEF IInv
    <3> QED BY <1>1, <1>2, <1>11, <2>2, <3>1 DEF Paced, RetriesAgree
  <2>9. Ended'
    BY <1>1, <1>2, <1>4, <1>11, <2>2
       DEF Ended, CancellationPropagates, ExpiryToldByItsOwn, CancellingRestored
  <2> QED BY <2>5, <2>6, <2>7, <2>8, <2>9 DEF IInv
<1> QED BY <1>2, <1>9, <1>10, <1>11

\* A sleep ends: in the next attempt, or in the cancellation that was sent.
LEMMA WakeStep == IInv /\ Wake => IInv'
<1> SUFFICES ASSUME IInv, Wake PROVE IInv'
  OBVIOUS
<1>1. /\ at = "sleep" /\ pending' = FALSE /\ ~owed /\ raised' = "none"
      /\ UNCHANGED <<layout, backoff, last, requests, owed, swallowed>>
  BY DEF Wake, IInv, Sent
<1>2. /\ each \in DeadlineType /\ each.state \in Closed /\ total \in DeadlineType
      /\ total.state \in Open /\ outcome = "running"
      /\ cancelling \in Nat /\ requests \in Nat /\ total.entry <= requests
      /\ layout.retryOn \subseteq Exceptions /\ layout \in Layouts
      /\ attempt \in Nat \ {0} /\ attempt < MaxAttempts /\ MaxAttempts \in Nat
      /\ requests <= MaxCancels /\ MaxCancels \in Nat
      /\ swallowed \in BOOLEAN /\ owed \in BOOLEAN /\ pending \in BOOLEAN
      /\ delays \in Seq(AllDelays) /\ Len(delays) = attempt
  BY <1>1, Types DEF IInv, Nested, Counted, Paced
<1>3. cancelling = requests + Own(total) /\ Own(total) \in {0, 1}
  BY <1>1, <1>2 DEF IInv, Counted, Own, Closed
<1>4. CASE pending
  <2>1. Finish("cancelled", cancelling) /\ UNCHANGED <<attempt, each>>
    BY <1>4 DEF Wake
  <2>2. "cancelled" \notin layout.retryOn
    BY <1>2 DEF Exceptions
  <2>3. last' \in layout.retryOn \cup {"none"} /\ owed' \in BOOLEAN /\ swallowed' \in BOOLEAN
    BY <1>1, <1>2 DEF IInv, TypeOK
  <2>4. "cancelled" \in {"exhausted"} \cup Exceptions \cup Results
    BY DEF Results
  <2> QED BY <1>1, <1>2, <1>3, <2>1, <2>2, <2>3, <2>4, DoneStep
<1>5. CASE ~pending
  <2>1. /\ at' = "operation" /\ attempt' = attempt + 1
        /\ each' = Entered(layout.each, cancelling)
        /\ UNCHANGED <<outcome, total, cancelling, delays>>
    BY <1>1, <1>5 DEF Wake
  <2>2. RunCancelled => swallowed
    BY <1>1, <1>5 DEF IInv, Sent
  <2>3. /\ each' \in DeadlineType /\ each'.state \in {"none", "active"}
        /\ each'.entry = cancelling
    <3>1. cancelling \in 0..(MaxCancels + 1)
      BY <1>2, <1>3
    <3> QED BY <2>1, <3>1 DEF Entered, Deadline, DeadlineType
  <2>4. TypeOK'
    <3>1. attempt' \in 1..MaxAttempts
      BY <1>2, <2>1
    <3> QED BY <1>1, <1>2, <2>1, <2>3, <3>1 DEF IInv, TypeOK, DeadlineType
  <2>5. Nested' /\ Counted'
    BY <1>1, <1>2, <1>3, <2>1, <2>3 DEF Nested, Counted, Own, Open
  <2>6. Sent'
    <3>1. ~swallowed => cancelling = total.entry
      BY <1>2, <1>3, <2>2 DEF RunCancelled, Own, DeadlineType
    <3> QED BY <1>1, <2>1, <2>2, <2>3, <3>1 DEF Sent, RunCancelled
  <2>7. Paced'
    BY <1>1, <1>2, <2>1 DEF Paced, RetriesAgree
  <2>8. Ended'
    BY <1>1, <1>2, <2>1 DEF Ended, CancellationPropagates, ExpiryToldByItsOwn,
                              CancellingRestored
  <2> QED BY <2>4, <2>5, <2>6, <2>7, <2>8 DEF IInv
<1> QED BY <1>4, <1>5

\* Every step of the task, its deadlines and its callers preserves IInv.
LEMMA StepIInv == IInv /\ [Next]_vars => IInv'
<1> SUFFICES ASSUME IInv, [Next]_vars PROVE IInv'
  OBVIOUS
<1>1. CASE EachFires \/ TotalFires \/ CancelCall
  BY <1>1, CancelStep
<1>2. ASSUME NEW x \in Results, OperationEnds(x) PROVE IInv'
  BY <1>2, EndsStep
<1>3. CASE OperationCleansUp
  BY <1>3, CleansUpStep
<1>4. CASE Wake
  BY <1>4, WakeStep
<1>5. CASE UNCHANGED vars
  BY <1>5 DEF vars, task, IInv, TypeOK, Nested, Counted, Sent, RunCancelled, Paced,
              RetriesAgree, Ended, CancellationPropagates, ExpiryToldByItsOwn,
              CancellingRestored
<1> QED BY <1>1, <1>2, <1>3, <1>4, <1>5 DEF Next

-----------------------------------------------------------------------------
(* The delays                                                              *)

\* A set with 0, and with the successor of every number below n it has, has
\* every number up to n.
LEMMA UpTo ==
  ASSUME NEW n \in Nat, NEW S, 0 \in S, \A k \in 0..(n - 1) : k \in S => k + 1 \in S
  PROVE  \A k \in 0..n : k \in S
<1> DEFINE R == OpToRel(<, Nat)
           T == {k \in 0..n : k \notin S}
<1> SUFFICES ASSUME T # {} PROVE FALSE
  OBVIOUS
<1>1. IsWellFoundedOn(R, Nat)
  BY NatLessThanWellFounded
<1>2. T \subseteq Nat
  OBVIOUS
<1>3. \A x, y \in Nat : x < y => <<x, y>> \in R
  BY DEF OpToRel
<1> HIDE DEF R
<1>4. PICK k \in T : \A y \in T : <<y, k>> \notin R
  BY <1>1, <1>2, WFMin
<1>5. k # 0 /\ k \in 0..n /\ k \notin S
  OBVIOUS
<1>6. k - 1 \in 0..(n - 1) /\ k - 1 < k /\ k - 1 \in Nat /\ k \in Nat
  BY <1>5
<1>7. k - 1 \notin T
  BY <1>3, <1>4, <1>6
<1>8. k - 1 \in S
  BY <1>6, <1>7
<1> QED BY <1>5, <1>6, <1>8

\* A product of two counts is a count.
LEMMA ProductTyped ==
  ASSUME NEW x \in Nat, NEW y \in Nat
  PROVE  x * y \in Nat /\ (y >= 1 => x * y >= x)
BY SMTT(30)

\* The powers of a multiplier satisfy the recursion that defines them.
LEMMA PowerIs ==
  ASSUME NEW m \in Nat, m >= 1
  PROVE  /\ Power(m)[0] = 1
         /\ \A n \in 1..MaxAttempts : Power(m)[n] = Power(m)[n - 1] * m
         /\ \A n \in 0..MaxAttempts : Power(m)[n] \in Nat /\ Power(m)[n] >= 1
<1> DEFINE Upto(k, p) == p[0] = 1 /\ \A n \in 1..k : p[n] = p[n - 1] * m
           S == {k \in 0..MaxAttempts : \E p \in [0..k -> Nat] : Upto(k, p)}
           Rec(p) == [n \in 0..MaxAttempts |-> IF n = 0 THEN 1 ELSE p[n - 1] * m]
<1>1. MaxAttempts \in Nat
  BY TimedRetryAssumption
<1>2. 0 \in S
  <2>1. [n \in 0..0 |-> 1] \in [0..0 -> Nat] /\ Upto(0, [n \in 0..0 |-> 1])
    OBVIOUS
  <2> HIDE DEF Upto
  <2> QED BY <1>1, <2>1
<1>3. ASSUME NEW k \in 0..(MaxAttempts - 1), k \in S PROVE k + 1 \in S
  <2>1. PICK p \in [0..k -> Nat] : Upto(k, p)
    BY <1>3
  <2> DEFINE q == [n \in 0..(k + 1) |-> IF n <= k THEN p[n] ELSE p[k] * m]
  <2>2. q \in [0..(k + 1) -> Nat]
    BY ProductTyped
  <2>3. Upto(k + 1, q)
    BY <2>1
  <2> HIDE DEF Upto, q
  <2> QED BY <1>1, <2>2, <2>3
<1> HIDE DEF S
<1>4. MaxAttempts \in S
  BY <1>1, <1>2, <1>3, UpTo
<1>5. PICK p \in [0..MaxAttempts -> Nat] : Upto(MaxAttempts, p)
  BY <1>4 DEF S
<1>6. p = Rec(p)
  BY <1>1, <1>5
<1>7. Power(m) = CHOOSE x : x = Rec(x)
  BY DEF Power
<1>8. Power(m) = Rec(Power(m))
  BY <1>6, <1>7
<1> HIDE DEF Rec
<1>9. Upto(MaxAttempts, Power(m))
  BY <1>1, <1>8 DEF Rec
<1> DEFINE N == {n \in 0..MaxAttempts : Power(m)[n] \in Nat /\ Power(m)[n] >= 1}
<1>10. 0 \in N
  BY <1>1, <1>9
<1>11. ASSUME NEW n \in 0..(MaxAttempts - 1), n \in N PROVE n + 1 \in N
  <2>1. n + 1 \in 1..MaxAttempts /\ Power(m)[n + 1] = Power(m)[n] * m
    BY <1>1, <1>9
  <2>2. Power(m)[n] \in Nat /\ Power(m)[n] >= 1 /\ n + 1 \in 0..MaxAttempts
    BY <1>1, <1>11
  <2>3. Power(m)[n] * m \in Nat /\ Power(m)[n] * m >= Power(m)[n]
    BY <2>2, ProductTyped
  <2>4. Power(m)[n + 1] \in Nat /\ Power(m)[n + 1] >= 1
    BY <2>1, <2>2, <2>3
  <2> QED BY <2>2, <2>4
<1>12. \A n \in 0..MaxAttempts : n \in N
  <2> HIDE DEF N
  <2> QED BY <1>1, <1>10, <1>11, UpTo
<1> QED BY <1>9, <1>12

\* Capping before a multiplication makes no difference after the cap that
\* follows it.
LEMMA CapAgain ==
  ASSUME NEW x \in Nat, NEW m \in Nat, NEW limit \in Nat, m >= 1
  PROVE  AtMost(AtMost(x, limit) * m, limit) = AtMost(x * m, limit)
<1>1. x * m \in Nat /\ limit * m \in Nat /\ x * m >= x /\ limit * m >= limit
  BY ProductTyped
<1> QED BY <1>1 DEF AtMost

LEMMA ProductGrouped ==
  ASSUME NEW x \in Nat, NEW y \in Nat, NEW z \in Nat
  PROVE  x * (y * z) = (x * y) * z
OBVIOUS

\* The documented delays, step by step, are the capped products of the base
\* delay and a power.
LEMMA DocumentedIs ==
  ASSUME NEW b \in Backoffs, NEW n \in 1..MaxAttempts
  PROVE  Documented(b)[n] = AtMost(b.base * Power(b.multiplier)[n - 1], b.max)
<1> DEFINE P == Power(b.multiplier)
           D == [k \in 1..MaxAttempts |-> AtMost(b.base * P[k - 1], b.max)]
           Rec(f) == [k \in 1..MaxAttempts |->
                        IF k = 1 THEN b.base ELSE AtMost(f[k - 1] * b.multiplier, b.max)]
<1>1. /\ MaxAttempts \in Nat /\ b.base \in Nat /\ b.max \in Nat /\ b.base <= b.max
      /\ b.multiplier \in Nat /\ b.multiplier >= 1
  BY TimedRetryAssumption DEF BackoffType, ValidBackoff
<1>2. /\ P[0] = 1
      /\ \A k \in 1..MaxAttempts : P[k] = P[k - 1] * b.multiplier
      /\ \A k \in 0..MaxAttempts : P[k] \in Nat
  BY <1>1, PowerIs
<1> HIDE DEF P
<1>3. D[1] = b.base
  BY <1>1, <1>2 DEF AtMost
<1>4. ASSUME NEW k \in 2..MaxAttempts PROVE D[k] = AtMost(D[k - 1] * b.multiplier, b.max)
  <2>1. /\ P[k - 2] \in Nat /\ P[k - 1] = P[k - 2] * b.multiplier
        /\ b.base * P[k - 2] \in Nat
    BY <1>1, <1>2, ProductTyped
  <2>2. b.base * P[k - 1] = (b.base * P[k - 2]) * b.multiplier
    BY <1>1, <2>1, ProductGrouped
  <2>3. D[k] = AtMost(b.base * P[k - 1], b.max) /\ D[k - 1] = AtMost(b.base * P[k - 2], b.max)
    BY <1>1
  <2> HIDE DEF D
  <2>4. AtMost(AtMost(b.base * P[k - 2], b.max) * b.multiplier, b.max)
          = AtMost((b.base * P[k - 2]) * b.multiplier, b.max)
    BY <1>1, <2>1, CapAgain
  <2>5. D[k - 1] * b.multiplier = AtMost(b.base * P[k - 2], b.max) * b.multiplier
    BY <2>3
  <2> QED BY <2>2, <2>3, <2>4, <2>5
<1>5. D = Rec(D)
  <2>1. \A k \in 1..MaxAttempts : D[k] = Rec(D)[k]
    <3> SUFFICES ASSUME NEW k \in 1..MaxAttempts PROVE D[k] = Rec(D)[k]
      OBVIOUS
    <3>1. k = 1 \/ k \in 2..MaxAttempts
      BY <1>1
    <3>2. Rec(D)[k] = IF k = 1 THEN b.base ELSE AtMost(D[k - 1] * b.multiplier, b.max)
      OBVIOUS
    <3> HIDE DEF D, Rec
    <3> QED BY <1>3, <1>4, <3>1, <3>2
  <2> QED BY <2>1
<1>6. Documented(b) = CHOOSE f : f = Rec(f)
  BY DEF Documented
<1> HIDE DEF Rec
<1>7. Documented(b) = Rec(Documented(b))
  BY <1>5, <1>6
<1>8. /\ Documented(b)[1] = b.base
      /\ \A k \in 2..MaxAttempts :
           Documented(b)[k] = AtMost(Documented(b)[k - 1] * b.multiplier, b.max)
  BY <1>1, <1>7 DEF Rec
<1> DEFINE S == {k \in 0..(MaxAttempts - 1) : Documented(b)[k + 1] = D[k + 1]}
<1> HIDE DEF D
<1>9. MaxAttempts - 1 \in Nat /\ 0 \in S
  BY <1>1, <1>3, <1>8
<1>10. ASSUME NEW k \in 0..(MaxAttempts - 2), k \in S PROVE k + 1 \in S
  <2>1. k + 2 \in 2..MaxAttempts /\ (k + 2) - 1 = k + 1 /\ (k + 1) + 1 = k + 2
    BY <1>1
  <2> QED BY <1>1, <1>4, <1>8, <1>10, <2>1
<1> HIDE DEF S
<1>11. \A k \in 0..(MaxAttempts - 1) : k \in S
  BY <1>1, <1>9, <1>10, UpTo
<1>12. n - 1 \in S /\ (n - 1) + 1 = n
  BY <1>1, <1>11
<1> QED BY <1>12 DEF S, D, P

\* What reaches the cap is cut to it.
LEMMA CapReached ==
  ASSUME NEW x \in Nat, NEW limit \in Nat, limit <= x
  PROVE  AtMost(x, limit) = limit
BY DEF AtMost

\* Multiplication is monotonic.
LEMMA ProductGrows ==
  ASSUME NEW x \in Nat, NEW y \in Nat, NEW z \in Nat, y <= z
  PROVE  x * y <= x * z
<1>1. PICK d \in Nat : z = y + d
  <2>1. z - y \in Nat /\ z = y + (z - y)
    OBVIOUS
  <2> QED BY <2>1
<1>2. x * z = x * y + x * d /\ x * d \in Nat /\ x * y \in Nat
  BY <1>1, ProductTyped
<1> QED BY <1>2

\* What is computed for a retry is documented, unless the power overflows
\* before its product with the base delay has reached the cap.
LEMMA DelayIs ==
  ASSUME NEW b \in Backoffs, NEW n \in 1..MaxAttempts
  PROVE  /\ FullDelay(b, n) \in Nat /\ FullDelay(b, n) <= b.max
         /\ Power(b.multiplier)[n - 1] <= FloatMax \/ b.base * FloatMax >= b.max
              => FullDelay(b, n) = Documented(b)[n]
<1> DEFINE p == Power(b.multiplier)[n - 1]
<1>1. /\ b.base \in Nat /\ b.max \in Nat /\ FloatMax \in Nat
      /\ b.multiplier \in Nat /\ b.multiplier >= 1 /\ MaxAttempts \in Nat
  BY TimedRetryAssumption DEF BackoffType, ValidBackoff
<1>2. p \in Nat
  BY <1>1, PowerIs
<1>3. Documented(b)[n] = AtMost(b.base * p, b.max)
  BY DocumentedIs
<1>4. b.base * p \in Nat /\ b.base * FloatMax \in Nat
  BY <1>1, <1>2, ProductTyped
<1>5. FullDelay(b, n) = IF p > FloatMax THEN b.max ELSE AtMost(b.base * p, b.max)
  BY DEF FullDelay
<1> HIDE DEF p
<1>6. FullDelay(b, n) \in Nat /\ FullDelay(b, n) <= b.max
  BY <1>1, <1>4, <1>5 DEF AtMost
<1>7. CASE p <= FloatMax
  BY <1>1, <1>2, <1>3, <1>5, <1>6, <1>7
<1>8. CASE p > FloatMax
  <2>1. b.base * FloatMax <= b.base * p
    BY <1>1, <1>2, <1>8, ProductGrows
  <2>2. ASSUME b.base * FloatMax >= b.max PROVE AtMost(b.base * p, b.max) = b.max
    <3>1. b.max <= b.base * p
      BY <1>1, <1>4, <2>1, <2>2
    <3> QED BY <1>1, <1>4, <3>1, CapReached
  <2> QED BY <1>1, <1>2, <1>3, <1>5, <1>6, <1>8, <2>2 DEF p
<1> QED BY <1>1, <1>2, <1>7, <1>8

\* Every delay that was slept is one that was computed for its retry.
Slept == \A n \in DOMAIN delays : delays[n] \in DelaysFor(backoff, n)

\* Only the end of an attempt adds a delay: the one for its number, which
\* is the number of the sleeps so far and one more.
LEMMA StepSlept == IInv /\ Slept /\ [Next]_vars => Slept'
<1> SUFFICES ASSUME IInv, Slept, [Next]_vars PROVE Slept'
  OBVIOUS
<1>1. backoff' = backoff
  BY DEF Next, EachFires, TotalFires, CancelCall, OperationEnds, OperationCleansUp, Wake, vars
<1>2. CASE delays' = delays
  BY <1>1, <1>2 DEF Slept
<1>3. CASE delays' # delays
  <2>1. PICK x \in Results : OperationEnds(x)
    BY <1>3 DEF Next, EachFires, TotalFires, CancelCall, OperationCleansUp, Wake, Finish, vars
  <2>2. at = "operation" /\ AfterAttempt(Seen(x), UncancelledBy(each, cancelling))
    BY <2>1 DEF OperationEnds, Seen
  <2>3. PICK delay \in DelaysFor(backoff, attempt) : delays' = Append(delays, delay)
    BY <1>3, <2>2 DEF AfterAttempt, Finish
  <2>4. delays \in Seq(AllDelays) /\ Len(delays) = attempt - 1 /\ attempt \in Nat
    BY <2>2, Types DEF IInv, Paced, RetriesAgree
  <2>5. delay \in AllDelays
    BY <2>3, DelayTyped DEF IInv
  <2>6. SUFFICES ASSUME NEW n \in DOMAIN delays' PROVE delays'[n] \in DelaysFor(backoff, n)
    BY <1>1 DEF Slept
  <2>7. n \in 1..(Len(delays) + 1)
    BY <2>3, <2>4, <2>5
  <2>8. CASE n = Len(delays) + 1
    BY <2>3, <2>4, <2>5, <2>8
  <2>9. CASE n \in 1..Len(delays)
    <3>1. delays'[n] = delays[n] /\ n \in DOMAIN delays
      BY <2>3, <2>4, <2>5, <2>9
    <3> QED BY <3>1 DEF Slept
  <2> QED BY <2>4, <2>7, <2>8, <2>9
<1> QED BY <1>2, <1>3

\* No delay is for a retry beyond the last attempt, so that each has a
\* documented one to be compared with.
LEMMA SleptRight == IInv /\ Slept => DelaysRightOrCapped
<1> SUFFICES ASSUME IInv, Slept, NEW n \in DOMAIN delays
             PROVE  /\ delays[n] <= backoff.max
                    /\ \/ Power(backoff.multiplier)[n - 1] <= FloatMax
                       \/ backoff.base * FloatMax >= backoff.max
                       => Agrees(delays[n], Documented(backoff)[n])
  BY Zenon DEF DelaysRightOrCapped
<1>1. /\ delays \in Seq(AllDelays) /\ Len(delays) <= attempt
      /\ attempt \in Nat /\ attempt <= MaxAttempts /\ MaxAttempts \in Nat
  BY Types DEF IInv, Paced, RetriesAgree
<1>2. n \in 1..MaxAttempts
  BY <1>1
<1>3. backoff \in Backoffs /\ delays[n] \in DelaysFor(backoff, n)
  BY DEF IInv, TypeOK, Slept
<1>4. /\ FullDelay(backoff, n) \in Nat /\ FullDelay(backoff, n) <= backoff.max
      /\ \/ Power(backoff.multiplier)[n - 1] <= FloatMax
         \/ backoff.base * FloatMax >= backoff.max
         => FullDelay(backoff, n) = Documented(backoff)[n]
  BY <1>2, <1>3, DelayIs
<1>5. /\ delays[n] \in 0..FullDelay(backoff, n)
      /\ ~backoff.jitter => delays[n] = FullDelay(backoff, n)
  BY <1>3, <1>4 DEF DelaysFor
<1>6. delays[n] <= FullDelay(backoff, n) /\ delays[n] <= backoff.max
  <2>1. backoff.max \in Nat
    BY <1>3, TimedRetryAssumption DEF BackoffType
  <2> QED BY <1>4, <1>5, <2>1
<1>7. Agrees(delays[n], FullDelay(backoff, n))
  BY <1>5, <1>6 DEF Agrees
<1> QED BY <1>4, <1>6, <1>7

-----------------------------------------------------------------------------
(* The theorems                                                            *)

\* Type correctness: neither the nesting of deadlines nor the number of
\* retries takes a counter beyond its bound.
THEOREM TypeCorrect == Spec => []TypeOK
BY InitIInv, StepIInv, PTL DEF Spec, IInv

\* task.cancelling() is restored on every path out of run_async().
THEOREM CancellingAlwaysRestored == Spec => []CancellingRestored
BY InitIInv, StepIInv, PTL DEF Spec, IInv, Ended

\* OperationTimeoutError tells of the deadline that raises it, and of nothing
\* else, in any nesting.
THEOREM ExpiryAlwaysToldByItsOwn == Spec => []ExpiryToldByItsOwn
BY InitIInv, StepIInv, PTL DEF Spec, IInv, Ended

\* A cancellation from outside propagates as CancelledError through any
\* number of expired deadlines and retries.
THEOREM CancellationAlwaysPropagates == Spec => []CancellationPropagates
BY InitIInv, StepIInv, PTL DEF Spec, IInv, Ended

\* For any max_attempts the loop sleeps between its attempts only, and gives
\* up with RetryError exactly when they are used up.
THEOREM RetriesAlwaysAgree == Spec => []RetriesAgree
BY InitIInv, StepIInv, PTL DEF Spec, IInv, Paced

\* For any backoff, any number of retries and any largest float the loop
\* sleeps as long as the backoff documents, capped products for capped
\* powers, unless the power overflows before the product reaches the cap.
THEOREM DelaysAlwaysRightOrCapped == Spec => []DelaysRightOrCapped
<1>1. Init => Slept
  BY DEF Init, Slept
<1> QED BY <1>1, InitIInv, StepIInv, StepSlept, SleptRight, PTL DEF Spec

\* No attempt starts once the run is cancelled or its time is over.
THEOREM NeverAttemptedAfterCancel == Spec => NoAttemptAfterCancel
<1>1. IInv /\ [Next]_vars => [RunCancelled => attempt' = attempt \/ swallowed']_vars
  <2> SUFFICES ASSUME IInv, Next, RunCancelled, attempt' # attempt
               PROVE  swallowed'
    BY DEF vars, task
  <2>1. Wake /\ ~pending /\ at = "sleep" /\ UNCHANGED swallowed
    BY DEF Next, EachFires, TotalFires, CancelCall, OperationEnds, OperationCleansUp, Wake
  <2> QED BY <2>1, Types DEF IInv, Sent
<1> QED BY <1>1, InitIInv, StepIInv, PTL DEF Spec, NoAttemptAfterCancel
=============================================================================
