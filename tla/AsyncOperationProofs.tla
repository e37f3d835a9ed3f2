------------------------ MODULE AsyncOperationProofs ------------------------
(***************************************************************************)
(* What a run of an operation promises for any policies, any number of     *)
(* attempts, candidates and sinks.                                         *)
(***************************************************************************)
EXTENDS AsyncOperation, SequenceTheorems, FiniteSetTheorems, TLAPS

Statuses == {"succeeded", "failed", "timed_out"}

MetaType == [verdict : {"none", "valid", "invalid"},
             flags : SUBSET {"open", "limited", "exceeded"}]

AttemptType ==
  [number : Nat, status : Statuses, retryable : BOOLEAN, fallback : BOOLEAN, meta : MetaType]

\* The events of a run that carry no more than a number.
EventTypes == {
  "operation.started", "operation.succeeded", "operation.failed",
  "attempt.started", "attempt.succeeded", "attempt.failed",
  "rate_limit.detected", "rate_limit.wait_exceeded", "circuit_breaker.rejected",
  "validation.succeeded", "validation.failed",
  "fallback.started", "fallback.succeeded", "fallback.failed"}

\* The items of todo.
Items ==
       [type : EventTypes \cup {"call", "candidate"}, n : Nat]
  \cup [type : {"retry.scheduled", "sleep"}, n : Nat, limited : BOOLEAN]
  \cup [type : {"append"}, attempt : AttemptType]
  \cup [type : Ends]

\* What the sinks are given.
Events == {x \in Items : x.type \notin Awaits \cup Ends \cup {"append"}}

\* What may still be ahead when a result has been accepted.
Quiet == {x \in Items : x.type \notin Awaits \cup {"failed"}}

\* A path leads over events and records to one await or to the end, and a
\* record is followed by an event or an await.
Path(s) ==
  /\ s \in Seq(Items) /\ s # <<>>
  /\ \A i \in 1..Len(s) : s[i].type \in Awaits \cup Ends <=> i = Len(s)
  /\ \A i \in 1..(Len(s) - 1) : s[i].type = "append" => s[i + 1].type \notin Ends \cup {"append"}

Typed ==
  /\ cfg \in Configs
  /\ todo \in Seq(Items)
  /\ attempts \in Seq(AttemptType)
  /\ failures \in Seq(Classes)
  /\ sink \in Nat \ {0}
  /\ received \in [Sinks -> Seq(Items)]

\* A run is at an event or at an await; one that has ended is nowhere.
Suspended ==
  IF Running THEN Path(todo) /\ Head(todo).type \notin Ends \cup {"append"} ELSE todo = <<>>

\* AcceptedIsFinal, with all that lies ahead.
Final == accepted => todo \in Seq(Quiet) /\ result.kind # "failed"

\* While an event is on its way the sinks before `sink` have it, and nothing
\* else tells one sink from another.
UpTo(r, m, N, x) ==
  \A s \in 1..N : r[s] = IF s < m THEN Append(r[N], x) ELSE r[N]

OnItsWay ==
  /\ Running => /\ sink = 1 \/ sink \in 1..cfg.sinks
                /\ UpTo(received, sink, cfg.sinks, Head(todo))
                /\ ~AtEvent => sink = 1
  /\ SinksInOrder

IInv == Typed /\ Suspended /\ Final /\ OnItsWay

-----------------------------------------------------------------------------
(* Sequences of events and paths                                           *)

\* An optional item keeps a sequence a sequence.
LEMMA WhenIs ==
  ASSUME NEW S, NEW x \in S, NEW b \in BOOLEAN
  PROVE  When(b, x) \in Seq(S)
BY DEF When

\* An event with a number is an event to the sinks.
LEMMA EventIs ==
  ASSUME NEW n \in Nat
  PROVE  \A t \in EventTypes : Ev(t, n) \in Events /\ Ev(t, n) \in Items /\ Ev(t, n) \in Quiet
BY DEF EventTypes, Ev, Events, Quiet, Items, Awaits, Ends

\* Events before a path make a path.
LEMMA PathAfterEvents ==
  ASSUME NEW e \in Seq(Events), NEW s, Path(s)
  PROVE  Path(e \o s)
<1>1. e \in Seq(Items) /\ s \in Seq(Items) /\ Len(e) \in Nat /\ Len(s) \in Nat \ {0}
  BY SeqMonotonic DEF Events, Path
<1>2. /\ e \o s \in Seq(Items) /\ Len(e \o s) = Len(e) + Len(s)
      /\ \A i \in 1..(Len(e) + Len(s)) :
           (e \o s)[i] = IF i <= Len(e) THEN e[i] ELSE s[i - Len(e)]
  BY <1>1, ConcatProperties
<1>3. \A i \in 1..Len(e) : e[i].type \notin Awaits \cup Ends \cup {"append"}
  BY ElementOfSeq DEF Events
<1>4. ASSUME NEW i \in 1..Len(e \o s)
      PROVE  (e \o s)[i].type \in Awaits \cup Ends <=> i = Len(e \o s)
  <2>1. CASE i <= Len(e)
    BY <1>1, <1>2, <1>3, <2>1
  <2>2. CASE i > Len(e)
    <3>1. (e \o s)[i] = s[i - Len(e)] /\ i - Len(e) \in 1..Len(s)
      BY <1>1, <1>2, <2>2
    <3>2. s[i - Len(e)].type \in Awaits \cup Ends <=> i - Len(e) = Len(s)
      BY <3>1 DEF Path
    <3> QED BY <1>1, <1>2, <3>1, <3>2
  <2> QED BY <1>1, <2>1, <2>2
<1>5. ASSUME NEW i \in 1..(Len(e \o s) - 1), (e \o s)[i].type = "append"
      PROVE  (e \o s)[i + 1].type \notin Ends \cup {"append"}
  <2>1. i > Len(e)
    BY <1>1, <1>2, <1>3, <1>5
  <2>2. (e \o s)[i] = s[i - Len(e)] /\ (e \o s)[i + 1] = s[(i - Len(e)) + 1]
    BY <1>1, <1>2, <2>1
  <2> QED BY <1>1, <1>2, <1>5, <2>1, <2>2 DEF Path
<1>6. e \o s # <<>>
  BY <1>1, <1>2
<1> QED BY <1>2, <1>4, <1>5, <1>6 DEF Path

\* The record of an attempt and the event about it before a path make one.
LEMMA PathAfterRecord ==
  ASSUME NEW r \in [type : {"append"}, attempt : AttemptType], NEW v \in Events,
         NEW s, Path(s)
  PROVE  Path(<<r, v>> \o s)
<1>1. <<v>> \in Seq(Events) /\ <<r>> \in Seq(Items) /\ <<v>> \in Seq(Items) /\ s \in Seq(Items)
  BY DEF Events, Items, Path
<1> DEFINE t == <<v>> \o s
<1>2. Path(t)
  BY <1>1, PathAfterEvents
<1>3. t[1] = v /\ t \in Seq(Items) /\ Len(t) \in Nat \ {0}
  BY <1>1, <1>2, ConcatProperties DEF Path
<1>4. <<r, v>> \o s = <<r>> \o t
  <2>1. <<r, v>> = Append(<<r>>, v)
    OBVIOUS
  <2>2. Append(<<r>>, v) = <<r>> \o <<v>>
    BY <1>1, AppendIsConcat DEF Events
  <2> QED BY <1>1, <2>1, <2>2, ConcatAssociative
<1> HIDE DEF t
<1>5. /\ <<r>> \o t \in Seq(Items) /\ Len(<<r>> \o t) = 1 + Len(t)
      /\ \A i \in 1..(1 + Len(t)) : (<<r>> \o t)[i] = IF i = 1 THEN r ELSE t[i - 1]
  BY <1>1, <1>3, ConcatProperties
<1>6. ASSUME NEW i \in 1..(1 + Len(t))
      PROVE  (<<r>> \o t)[i].type \in Awaits \cup Ends <=> i = 1 + Len(t)
  BY <1>2, <1>3, <1>5, <1>6 DEF Path, Awaits, Ends
<1>7. ASSUME NEW i \in 1..Len(t), (<<r>> \o t)[i].type = "append"
      PROVE  (<<r>> \o t)[i + 1].type \notin Ends \cup {"append"}
  BY <1>2, <1>3, <1>5, <1>7 DEF Path, Events
<1>8. <<r>> \o t # <<>>
  BY <1>3, <1>5
<1> QED BY <1>3, <1>4, <1>5, <1>6, <1>7, <1>8 DEF Path

\* The end, or an await, is a path; so is an event before one.
LEMMA PathEnds ==
  ASSUME NEW x \in Items, x.type \in Awaits \cup Ends
  PROVE  Path(<<x>>) /\ \A v \in Events : Path(<<v, x>>)
<1>1. Path(<<x>>)
  BY DEF Path
<1>2. ASSUME NEW v \in Events PROVE Path(<<v, x>>)
  BY <1>2 DEF Path, Events
<1> QED BY <1>1, <1>2

\* The last record of a run, with the events that tell of it and the end.
LEMMA PathOfLast ==
  ASSUME NEW r \in [type : {"append"}, attempt : AttemptType],
         NEW u \in Events, NEW v \in Events, NEW w \in Events,
         NEW x \in Items, x.type \in Ends
  PROVE  Path(<<r, u, v, x>>) /\ Path(<<r, u, v, w, x>>)
<1>1. r \in Items /\ u \in Items /\ v \in Items /\ w \in Items
  BY DEF Items, Events
<1>2. /\ r.type = "append"
      /\ \A e \in {u, v, w} : e.type \notin Awaits \cup Ends \cup {"append"}
  BY DEF Events
<1>3. Path(<<r, u, v, x>>)
  BY <1>1, <1>2 DEF Path, Awaits, Ends
<1>4. Path(<<r, u, v, w, x>>)
  BY <1>1, <1>2 DEF Path, Awaits, Ends
<1> QED BY <1>3, <1>4

\* Past an event or a record the path goes on.
LEMMA PathGoesOn ==
  ASSUME NEW s, Path(s), Head(s).type \notin Awaits \cup Ends
  PROVE  /\ Path(Tail(s))
         /\ Head(s).type = "append" => Head(Tail(s)).type \notin Ends \cup {"append"}
         /\ s \in Seq(Quiet) => Tail(s) \in Seq(Quiet)
<1>1. s \in Seq(Items) /\ Len(s) \in Nat \ {0} /\ Head(s) = s[1] /\ Head(s) \in Items
  BY DEF Path
<1>2. Len(s) > 1
  BY <1>1 DEF Path
<1>3. /\ Tail(s) \in Seq(Items) /\ Len(Tail(s)) = Len(s) - 1
      /\ \A i \in 1..(Len(s) - 1) : Tail(s)[i] = s[i + 1]
  BY <1>1, <1>2
<1>4. Path(Tail(s))
  <2>1. Tail(s) # <<>>
    <3>1. Len(Tail(s)) # 0
      BY <1>1, <1>2, <1>3
    <3>2. Len(<<>>) = 0
      OBVIOUS
    <3> QED BY <3>1, <3>2
  <2>2. ASSUME NEW i \in 1..Len(Tail(s))
        PROVE  Tail(s)[i].type \in Awaits \cup Ends <=> i = Len(Tail(s))
    <3>1. i + 1 \in 1..Len(s) /\ Tail(s)[i] = s[i + 1]
      BY <1>1, <1>3
    <3>2. s[i + 1].type \in Awaits \cup Ends <=> i + 1 = Len(s)
      BY <3>1 DEF Path
    <3>3. i + 1 = Len(s) <=> i = Len(Tail(s))
      BY <1>1, <1>3
    <3> QED BY <3>1, <3>2, <3>3
  <2>3. ASSUME NEW i \in 1..(Len(Tail(s)) - 1), Tail(s)[i].type = "append"
        PROVE  Tail(s)[i + 1].type \notin Ends \cup {"append"}
    <3>1. i + 1 \in 1..(Len(s) - 1) /\ Tail(s)[i] = s[i + 1] /\ Tail(s)[i + 1] = s[(i + 1) + 1]
      BY <1>1, <1>3
    <3> QED BY <2>3, <3>1 DEF Path
  <2> QED BY <1>3, <2>1, <2>2, <2>3 DEF Path
<1>5. ASSUME Head(s).type = "append"
      PROVE  Head(Tail(s)).type \notin Ends \cup {"append"}
  <2>1. Head(Tail(s)) = s[1 + 1] /\ 1 \in 1..(Len(s) - 1)
    BY <1>1, <1>2, <1>3
  <2> QED BY <1>1, <1>5, <2>1 DEF Path
<1>6. s \in Seq(Quiet) => Tail(s) \in Seq(Quiet)
  BY <1>1
<1> QED BY <1>4, <1>5, <1>6
-----------------------------------------------------------------------------
(* The paths of the code                                                   *)

\* What a step leaves when it goes on along a path.
LEMMA ContinueStep ==
  ASSUME NEW s, Path(s), Running, attempts \in Seq(AttemptType), Continue(s)
  PROVE  /\ todo' \in Seq(Items)
         /\ attempts' \in Seq(AttemptType)
         /\ Suspended'
         /\ s \in Seq(Quiet) => todo' \in Seq(Quiet) /\ result'.kind # "failed"
<1>1. s \in Seq(Items) /\ Len(s) \in Nat \ {0} /\ Head(s) = s[1] /\ Head(s) \in Items
  BY DEF Path
<1>2. CASE Head(s).type = "append"
  <2>1. Path(Tail(s)) /\ Head(Tail(s)).type \notin Ends \cup {"append"}
    BY <1>1, <1>2, PathGoesOn DEF Awaits, Ends
  <2>2. s \in Seq(Quiet) => Tail(s) \in Seq(Quiet)
    BY <1>1
  <2>3. Head(s).attempt \in AttemptType
    BY <1>1, <1>2 DEF Items, EventTypes, Ends
  <2>4. todo' = Tail(s) /\ result' = result /\ attempts' \in Seq(AttemptType)
    BY <1>2, <2>3 DEF Continue
  <2> QED BY <2>1, <2>2, <2>4 DEF Suspended, Running, Path
<1>3. CASE Head(s).type \in Ends
  <2>1. todo' = <<>> /\ result' = Report(Head(s).type) /\ attempts' = attempts
    BY <1>3 DEF Continue, Ends
  <2>2. result'.kind \in {"value_error", Head(s).type}
    BY <2>1 DEF Report, Ended
  <2>3. s \in Seq(Quiet) => Head(s).type # "failed"
    BY <1>1 DEF Quiet
  <2> QED BY <1>3, <2>1, <2>2, <2>3 DEF Suspended, Running, Ends
<1>4. CASE Head(s).type \notin Ends \cup {"append"}
  BY <1>1, <1>4 DEF Continue, Suspended, Running
<1> QED BY <1>2, <1>3, <1>4

\* Records are items that nothing has to be awaited for.
LEMMA RecordIs ==
  ASSUME NEW a \in AttemptType
  PROVE  /\ Record(a) \in [type : {"append"}, attempt : AttemptType]
         /\ Record(a) \in Quiet
BY DEF Record, Quiet, Items, Awaits

\* The ends are items, and only a failure is not quiet.
LEMMA StopIs ==
  /\ \A kind \in Ends : Stop(kind) \in Items /\ Stop(kind).type \in Ends
  /\ Stop("returned") \in Quiet
BY DEF Stop, Items, Ends, Quiet, Awaits

\* An attempt that succeeds leads to the end of the run, with nothing to
\* await but sinks.
LEMMA SuccessPath ==
  ASSUME NEW n \in Nat, cfg \in Configs
  PROVE  Path(SuccessSteps(n)) /\ SuccessSteps(n) \in Seq(Quiet)
<1> DEFINE R == Record(Attempt(n, "succeeded", FALSE, FALSE, Meta(Accepted, {})))
           A == Ev("attempt.succeeded", n)
           O == Ev("operation.succeeded", n)
           V == When(cfg.validation, Ev("validation.succeeded", n))
           E == <<R, A, O, Stop("returned")>>
<1>1. cfg.validation \in BOOLEAN
  BY ConfigAssumption DEF ConfigType
<1>2. /\ Ev("validation.succeeded", n) \in Events \cap Quiet
      /\ A \in Events \cap Quiet /\ O \in Events \cap Quiet
  BY EventIs DEF EventTypes
<1>3. V \in Seq(Events) /\ V \in Seq(Quiet)
  BY <1>1, <1>2, WhenIs
<1>4. R \in [type : {"append"}, attempt : AttemptType] /\ R \in Quiet
  BY RecordIs DEF Accepted, Attempt, Meta, AttemptType, MetaType, Statuses
<1>5. Stop("returned") \in Items /\ Stop("returned").type \in Ends /\ Stop("returned") \in Quiet
  BY StopIs DEF Ends
<1>6. SuccessSteps(n) = V \o E
  BY DEF SuccessSteps
<1> HIDE DEF R, A, O, V
<1>7. Path(E) /\ E \in Seq(Quiet)
  <2>1. Path(E)
    BY <1>2, <1>4, <1>5, PathOfLast
  <2>2. E \in Seq(Quiet)
    BY <1>2, <1>4, <1>5
  <2> QED BY <2>1, <2>2
<1> HIDE DEF E
<1> QED BY <1>3, <1>6, <1>7, PathAfterEvents, ConcatProperties

\* So does a candidate that succeeds.
LEMMA RescuedPath ==
  ASSUME NEW n \in Nat, NEW es \in Seq(Events), es \in Seq(Quiet), cfg \in Configs
  PROVE  LET s ==    es \o When(cfg.validation, Ev("validation.succeeded", n))
                  \o <<Record(Attempt(n, "succeeded", FALSE, TRUE, Meta(Accepted, {}))),
                       Ev("fallback.succeeded", n), Ev("attempt.succeeded", n),
                       Ev("operation.succeeded", n), Stop("returned")>>
         IN  Path(s) /\ s \in Seq(Quiet)
<1> DEFINE R == Record(Attempt(n, "succeeded", FALSE, TRUE, Meta(Accepted, {})))
           F == Ev("fallback.succeeded", n)
           A == Ev("attempt.succeeded", n)
           O == Ev("operation.succeeded", n)
           V == When(cfg.validation, Ev("validation.succeeded", n))
           E == <<R, F, A, O, Stop("returned")>>
<1>1. cfg.validation \in BOOLEAN
  BY ConfigAssumption DEF ConfigType
<1>2. /\ Ev("validation.succeeded", n) \in Events \cap Quiet
      /\ F \in Events \cap Quiet /\ A \in Events \cap Quiet /\ O \in Events \cap Quiet
  BY EventIs DEF EventTypes
<1>3. V \in Seq(Events) /\ V \in Seq(Quiet)
  BY <1>1, <1>2, WhenIs
<1>4. R \in [type : {"append"}, attempt : AttemptType] /\ R \in Quiet
  BY RecordIs DEF Accepted, Attempt, Meta, AttemptType, MetaType, Statuses
<1>5. Stop("returned") \in Items /\ Stop("returned").type \in Ends /\ Stop("returned") \in Quiet
  BY StopIs DEF Ends
<1> HIDE DEF R, F, A, O, V
<1>6. Path(E) /\ E \in Seq(Quiet)
  <2>1. Path(E)
    BY <1>2, <1>4, <1>5, PathOfLast
  <2>2. E \in Seq(Quiet)
    BY <1>2, <1>4, <1>5
  <2> QED BY <2>1, <2>2
<1> HIDE DEF E
<1>7. es \o V \in Seq(Events) /\ es \o V \in Seq(Quiet)
  BY <1>3, ConcatProperties
<1>8. Path((es \o V) \o E) /\ (es \o V) \o E \in Seq(Quiet)
  BY <1>6, <1>7, PathAfterEvents, ConcatProperties
<1> QED BY <1>8 DEF E, R, F, A, O, V

\* The invalid results of a chain are told by events.
LEMMA InvalidEventsAre ==
  ASSUME NEW fs \in Seq(Classes), NEW n \in Nat
  PROVE  InvalidEvents(fs, n) \in Seq(Events) /\ InvalidEvents(fs, n) \in Seq(Quiet)
<1> DEFINE J == {j \in DOMAIN fs : fs[j] = "invalid"}
<1>1. IsFiniteSet(DOMAIN fs)
  BY LenProperties, FS_Interval
<1>2. Cardinality(J) \in Nat
  BY <1>1, FS_Subset, FS_CardinalityType
<1>3. Ev("validation.failed", n) \in Events /\ Ev("validation.failed", n) \in Quiet
  BY EventIs DEF EventTypes
<1>4. InvalidEvents(fs, n) = [i \in 1..Cardinality(J) |-> Ev("validation.failed", n)]
  BY DEF InvalidEvents
<1> HIDE DEF J
<1> QED BY <1>2, <1>3, <1>4, SeqDef

\* The chain that fails leads to the end of the run.
LEMMA FallbackFailsPath ==
  ASSUME NEW n \in Nat, NEW es \in Seq(Events), NEW status \in Statuses,
         NEW class \in Classes, NEW exhausted \in BOOLEAN
  PROVE  Path(es \o <<Record(Attempt(n, status, FALSE, TRUE, FallbackMeta(class, exhausted))),
                      Ev("fallback.failed", n), Ev("attempt.failed", n),
                      Ev("operation.failed", n), Stop("failed")>>)
<1> DEFINE R == Record(Attempt(n, status, FALSE, TRUE, FallbackMeta(class, exhausted)))
           F == Ev("fallback.failed", n)
           A == Ev("attempt.failed", n)
           O == Ev("operation.failed", n)
<1>1. F \in Events /\ A \in Events /\ O \in Events
  BY EventIs DEF EventTypes
<1>2. R \in [type : {"append"}, attempt : AttemptType]
  BY RecordIs DEF FallbackMeta, Attempt, Meta, AttemptType, MetaType
<1>3. Stop("failed") \in Items /\ Stop("failed").type \in Ends
  BY StopIs DEF Ends
<1> HIDE DEF R, F, A, O
<1>4. Path(<<R, F, A, O, Stop("failed")>>)
  BY <1>1, <1>2, <1>3, PathOfLast
<1>5. Path(es \o <<R, F, A, O, Stop("failed")>>)
  BY <1>4, PathAfterEvents
<1> QED BY <1>5 DEF R, F, A, O

\* An attempt that fails leads to a delay, to the fallback chain or to the
\* end of the run.
LEMMA FailurePath ==
  ASSUME NEW n \in Nat, NEW class \in Classes, NEW hint \in Hints,
         NEW p, p.limited \in BOOLEAN, p.exceeded \in BOOLEAN, p.retryable \in BOOLEAN,
         Len(attempts) \in Nat, cfg \in Configs
  PROVE  LET e == Error(class, hint)
         IN  Path(FailureEvents(e, n, p) \o AfterFailure(e, n, p))
<1> DEFINE e == Error(class, hint)
           W1 == When(p.limited, Ev("rate_limit.detected", n))
           W2 == When(p.exceeded, Ev("rate_limit.wait_exceeded", n))
           W3 == When(e.class = "invalid", Ev("validation.failed", n))
           W4 == When(e.class = "open", Ev("circuit_breaker.rejected", n))
           R == Record(Attempt(n, StatusOf(e), p.retryable, FALSE, FailureMeta(e, p)))
           A == Ev("attempt.failed", n)
           T == AfterFailure(e, n, p)
           W == W1 \o W2 \o W3 \o W4
<1>1. /\ Ev("rate_limit.detected", n) \in Events /\ Ev("rate_limit.wait_exceeded", n) \in Events
      /\ Ev("validation.failed", n) \in Events /\ Ev("circuit_breaker.rejected", n) \in Events
      /\ A \in Events
  BY EventIs DEF EventTypes
<1>2. W1 \in Seq(Events) /\ W2 \in Seq(Events) /\ W3 \in Seq(Events) /\ W4 \in Seq(Events)
  BY <1>1, WhenIs
<1>3. R \in [type : {"append"}, attempt : AttemptType]
  BY RecordIs DEF FailureMeta, StatusOf, Attempt, Meta, AttemptType, MetaType, Statuses
<1>4. Path(T)
  <2>1. /\ Scheduled(n, p.limited) \in Events
        /\ Sleep(n, p.limited) \in Items /\ Sleep(n, p.limited).type \in Awaits
    BY DEF Scheduled, Sleep, Items, Events, Awaits, Ends
  <2>2. /\ Ev("fallback.started", Len(attempts) + 2) \in Events
        /\ Candidate(1) \in Items /\ Candidate(1).type \in Awaits
    BY EventIs DEF EventTypes, Candidate, Items, Awaits
  <2>3. /\ Ev("operation.failed", n) \in Events
        /\ Stop("failed") \in Items /\ Stop("failed").type \in Ends
    BY EventIs, StopIs DEF EventTypes, Ends
  <2> QED BY <2>1, <2>2, <2>3, PathEnds DEF AfterFailure
<1>5. FailureEvents(e, n, p) = W \o <<R, A>>
  BY DEF FailureEvents
<1> HIDE DEF e, W1, W2, W3, W4, R, A, T
<1>6. W \in Seq(Events)
  BY <1>2, ConcatProperties
<1> HIDE DEF W
<1>7. Path(W \o (<<R, A>> \o T))
  BY <1>1, <1>3, <1>4, <1>6, PathAfterRecord, PathAfterEvents
<1>8. (W \o <<R, A>>) \o T = W \o (<<R, A>> \o T)
  <2>1. W \in Seq(Items) /\ T \in Seq(Items) /\ <<R, A>> \in Seq(Items)
    BY <1>1, <1>3, <1>4, <1>6, SeqMonotonic DEF Events, Items, Path
  <2> QED BY <2>1, ConcatAssociative
<1> QED BY <1>5, <1>7, <1>8 DEF e, T

-----------------------------------------------------------------------------
(* The sinks                                                               *)

\* Sinks of which the first ones have one event more are in order.
LEMMA InOrder ==
  ASSUME NEW N \in Nat, NEW r \in [1..N -> Seq(Items)], NEW h \in Seq(Items), NEW x \in Items,
         NEW m \in Nat, \A s \in 1..N : r[s] = IF s < m THEN Append(h, x) ELSE h
  PROVE  \A s \in (1..N) \ {1} :
           /\ IsPrefix(r[s], r[s - 1])
           /\ \A t \in 1..(s - 1) : Len(r[t]) <= Len(r[s]) + 1
<1>1. /\ Append(h, x) \in Seq(Items) /\ Len(Append(h, x)) = Len(h) + 1 /\ Len(h) \in Nat
      /\ \A i \in 1..Len(h) : Append(h, x)[i] = h[i]
  BY AppendProperties
<1>2. IsPrefix(h, h)
  BY <1>1 DEF IsPrefix
<1>3. IsPrefix(Append(h, x), Append(h, x))
  BY <1>1 DEF IsPrefix
<1>4. IsPrefix(h, Append(h, x))
  <2>1. SubSeq(h, 1, Len(h)) = SubSeq(Append(h, x), 1, Len(h))
    BY <1>1
  <2> QED BY <1>1, <2>1 DEF IsPrefix
<1> SUFFICES ASSUME NEW s \in (1..N) \ {1}
             PROVE  /\ IsPrefix(r[s], r[s - 1])
                    /\ \A t \in 1..(s - 1) : Len(r[t]) <= Len(r[s]) + 1
  OBVIOUS
<1>5. IsPrefix(r[s], r[s - 1])
  <2>1. s - 1 \in 1..N /\ (s < m => s - 1 < m)
    OBVIOUS
  <2> QED BY <1>2, <1>3, <1>4, <2>1
<1>6. ASSUME NEW t \in 1..(s - 1) PROVE Len(r[t]) <= Len(r[s]) + 1
  <2>1. t \in 1..N /\ s \in 1..N
    OBVIOUS
  <2>2. Len(r[t]) \in {Len(h), Len(h) + 1} /\ Len(r[s]) \in {Len(h), Len(h) + 1}
    BY <1>1, <2>1
  <2> QED BY <1>1, <2>2
<1> QED BY <1>5, <1>6

-----------------------------------------------------------------------------
(* The steps                                                               *)

\* The run starts with an event to nobody but the first sink.
LEMMA InitIInv == Init => IInv
<1> SUFFICES ASSUME Init PROVE IInv
  OBVIOUS
<1>1. cfg.sinks \in Nat
  BY ConfigAssumption DEF Init, ConfigType
<1>2. Path(todo) /\ Head(todo) \in Events
  <2>1. Ev("operation.started", 0) \in Events /\ Ev("attempt.started", 1) \in Events
    BY EventIs DEF EventTypes
  <2>2. CallAttempt(1) \in Items /\ CallAttempt(1).type \in Awaits
    BY DEF CallAttempt, Items, Awaits
  <2>3. Path(<<Ev("operation.started", 0), Ev("attempt.started", 1), CallAttempt(1)>>)
    BY <2>1, <2>2 DEF Path, Events
  <2> QED BY <2>1, <2>3 DEF Init
<1>3. Typed
  BY <1>1, <1>2 DEF Init, Typed, Path, Sinks
<1>4. Suspended
  BY <1>2 DEF Init, Suspended, Running, Ended, Events
<1>5. Final
  BY DEF Init, Final
<1>6. UpTo(received, sink, cfg.sinks, Head(todo))
  BY <1>1 DEF Init, UpTo
<1>7. SinksInOrder
  <2>1. received \in [1..cfg.sinks -> Seq(Items)] /\ \A s \in 1..cfg.sinks : received[s] = <<>>
    BY DEF Init
  <2>2. Head(todo) \in Items /\ <<>> \in Seq(Items)
    BY <1>2 DEF Events
  <2>3. \A s \in 1..cfg.sinks : received[s] = IF s < 0 THEN Append(<<>>, Head(todo)) ELSE <<>>
    BY <2>1
  <2> QED BY <1>1, <2>1, <2>2, <2>3, InOrder DEF SinksInOrder, Sinks
<1> QED BY <1>1, <1>3, <1>4, <1>5, <1>6, <1>7 DEF IInv, OnItsWay, Init

\* While a run goes on, something lies ahead of it; after an accepted result
\* that is an event.
LEMMA AheadIs ==
  ASSUME IInv, Running
  PROVE  /\ todo \in Seq(Items) /\ todo # <<>> /\ Head(todo) \in Items
         /\ AtEvent => Head(todo) \in Events
         /\ accepted => AtEvent
<1>1. todo \in Seq(Items) /\ todo # <<>> /\ Head(todo) \in Items
  BY DEF IInv, Suspended, Path
<1>2. AtEvent => Head(todo) \in Events
  BY <1>1 DEF IInv, Suspended, AtEvent, Events
<1>3. accepted => Head(todo) \in Quiet
  BY <1>1 DEF IInv, Final
<1> QED BY <1>1, <1>2, <1>3 DEF AtEvent, Quiet

\* A run that goes on along a path, when all its sinks are alike.
LEMMA GoesOn ==
  ASSUME IInv, Running, NEW s, Path(s), Continue(s), cfg' = cfg, sink' = 1,
         failures' \in Seq(Classes), received' \in [Sinks -> Seq(Items)],
         \A t \in Sinks : received'[t] = received'[cfg.sinks],
         accepted' => s \in Seq(Quiet)
  PROVE  IInv'
<1>1. cfg.sinks \in Nat
  BY ConfigAssumption DEF IInv, Typed, ConfigType
<1>2. /\ todo' \in Seq(Items) /\ attempts' \in Seq(AttemptType) /\ Suspended'
      /\ accepted' => todo' \in Seq(Quiet) /\ result'.kind # "failed"
  BY ContinueStep DEF IInv, Typed
<1>3. Typed'
  BY <1>2 DEF IInv, Typed, Sinks
<1>4. SinksInOrder'
  <2>1. CASE cfg.sinks = 0
    BY <2>1 DEF SinksInOrder, Sinks
  <2>2. CASE cfg.sinks > 0
    <3> DEFINE h == received'[cfg.sinks]
    <3>1. received' \in [1..cfg.sinks -> Seq(Items)] /\ cfg.sinks \in 1..cfg.sinks
      BY <1>1, <2>2 DEF Sinks
    <3>2. h \in Seq(Items)
      BY <3>1
    <3>3. PICK x : x \in Items
      BY AheadIs
    <3>4. \A t \in 1..cfg.sinks : received'[t] = IF t < 0 THEN Append(h, x) ELSE h
      BY <1>1 DEF Sinks
    <3> HIDE DEF h
    <3>5. \A t \in (1..cfg.sinks) \ {1} :
           /\ IsPrefix(received'[t], received'[t - 1])
           /\ \A u \in 1..(t - 1) : Len(received'[u]) <= Len(received'[t]) + 1
      BY <1>1, <3>1, <3>2, <3>3, <3>4, InOrder
    <3> QED BY <3>5 DEF SinksInOrder, Sinks
  <2> QED BY <1>1, <2>1, <2>2
<1>5. UpTo(received', 1, cfg.sinks, Head(todo'))
  BY <1>1 DEF UpTo, Sinks
<1>6. OnItsWay'
  BY <1>1, <1>4, <1>5 DEF OnItsWay
<1> QED BY <1>2, <1>3, <1>6 DEF IInv, Final

\* A run that goes on from an await, where no event is on its way.
LEMMA GoesOnFromAwait ==
  ASSUME IInv, Running, ~AtEvent, NEW s, Path(s), Continue(s), cfg' = cfg,
         failures' \in Seq(Classes), UNCHANGED emitter, accepted' => s \in Seq(Quiet)
  PROVE  IInv'
<1>1. cfg.sinks \in Nat
  BY ConfigAssumption DEF IInv, Typed, ConfigType
<1>2. sink = 1 /\ \A t \in Sinks : received[t] = received[cfg.sinks]
  BY <1>1 DEF IInv, OnItsWay, UpTo, Sinks
<1>3. sink' = 1 /\ received' \in [Sinks -> Seq(Items)]
      /\ \A t \in Sinks : received'[t] = received'[cfg.sinks]
  BY <1>2 DEF emitter, IInv, Typed
<1> QED BY <1>3, GoesOn

\* A run that is left, by an exception that nothing in it handles.
LEMMA LeavesStep ==
  ASSUME IInv, Running, todo' = <<>>, result'.kind \notin {"running", "failed"},
         UNCHANGED <<cfg, attempts, failures, sink, accepted>>,
         UNCHANGED received \/ (AtEvent /\ cfg.sinks > 0 /\ Stored(sink))
  PROVE  IInv'
<1>1. cfg.sinks \in Nat
  BY ConfigAssumption DEF IInv, Typed, ConfigType
<1>2. received' \in [Sinks -> Seq(Items)] /\ SinksInOrder'
  <2>1. CASE UNCHANGED received
    BY <2>1 DEF IInv, Typed, OnItsWay, SinksInOrder, Sinks
  <2>2. CASE AtEvent /\ cfg.sinks > 0 /\ Stored(sink)
    <3> DEFINE h == received[cfg.sinks]
               x == Head(todo)
    <3>1. x \in Items /\ received \in [1..cfg.sinks -> Seq(Items)] /\ cfg.sinks \in 1..cfg.sinks
      BY <1>1, <2>2, AheadIs DEF IInv, Typed, Sinks
    <3>2. h \in Seq(Items) /\ Append(h, x) \in Seq(Items)
      BY <3>1, AppendProperties
    <3>3. /\ sink \in 1..cfg.sinks
          /\ \A t \in 1..cfg.sinks : received[t] = IF t < sink THEN Append(h, x) ELSE h
      BY <2>2, <1>1 DEF IInv, Typed, OnItsWay, UpTo
    <3>4. \A t \in 1..cfg.sinks : received'[t] = IF t < sink + 1 THEN Append(h, x) ELSE h
      BY <1>1, <2>2, <3>1, <3>3 DEF Stored
    <3>5. received' \in [1..cfg.sinks -> Seq(Items)]
      BY <2>2, <3>1, <3>2, <3>3 DEF Stored
    <3>6. sink + 1 \in Nat
      BY <3>3
    <3> HIDE DEF h, x
    <3>7. \A t \in (1..cfg.sinks) \ {1} :
           /\ IsPrefix(received'[t], received'[t - 1])
           /\ \A u \in 1..(t - 1) : Len(received'[u]) <= Len(received'[t]) + 1
      BY <1>1, <3>1, <3>2, <3>4, <3>5, <3>6, InOrder
    <3>8. Sinks' = 1..cfg.sinks
      BY DEF Sinks
    <3> QED BY <3>5, <3>7, <3>8 DEF SinksInOrder, Sinks
  <2> QED BY <2>1, <2>2
<1>3. Typed'
  BY <1>2, EmptySeq DEF IInv, Typed, Sinks
<1>4. Suspended' /\ Final' /\ OnItsWay'
  BY <1>2, EmptySeq DEF IInv, Suspended, Final, OnItsWay, Running
<1> QED BY <1>3, <1>4 DEF IInv

\* A sink takes the event, and the last one lets the run go on.
LEMMA DeliverStep == IInv /\ Deliver => IInv'
<1> SUFFICES ASSUME IInv, Deliver PROVE IInv'
  OBVIOUS
<1>1. /\ Running /\ AtEvent /\ cfg' = cfg /\ cfg.sinks \in Nat
      /\ UNCHANGED <<failures, accepted>>
  BY ConfigAssumption DEF Deliver, AtEvent, IInv, Typed, ConfigType
<1>2. /\ todo \in Seq(Items) /\ Head(todo) \in Items
      /\ received \in [1..cfg.sinks -> Seq(Items)] /\ sink \in Nat \ {0}
      /\ UpTo(received, sink, cfg.sinks, Head(todo))
  BY <1>1, AheadIs DEF IInv, Typed, Sinks, OnItsWay
<1>3. /\ Path(Tail(todo))
      /\ accepted => Tail(todo) \in Seq(Quiet)
  <2>1. Path(todo) /\ Head(todo).type \notin Awaits \cup Ends
    BY <1>1 DEF IInv, Suspended, AtEvent
  <2>2. accepted => todo \in Seq(Quiet)
    BY DEF IInv, Final
  <2> QED BY <2>1, <2>2, PathGoesOn
<1>4. CASE /\ sink < cfg.sinks
           /\ Stored(sink)
           /\ sink' = sink + 1
           /\ UNCHANGED <<todo, attempts, result>>
  <2> DEFINE h == received[cfg.sinks]
             x == Head(todo)
  <2>1. /\ cfg.sinks \in 1..cfg.sinks /\ sink \in 1..cfg.sinks
        /\ h \in Seq(Items) /\ Append(h, x) \in Seq(Items)
    BY <1>1, <1>2, <1>4, AppendProperties
  <2>2. \A t \in 1..cfg.sinks : received[t] = IF t < sink THEN Append(h, x) ELSE h
    BY <1>2 DEF UpTo
  <2>3. \A t \in 1..cfg.sinks : received'[t] = IF t < sink + 1 THEN Append(h, x) ELSE h
    BY <1>1, <1>2, <1>4, <2>1, <2>2 DEF Stored
  <2>4. received' \in [1..cfg.sinks -> Seq(Items)] /\ received'[cfg.sinks] = h
    BY <1>2, <1>4, <2>1, <2>2, <2>3 DEF Stored
  <2>5. UpTo(received', sink + 1, cfg.sinks, x)
    BY <2>3, <2>4 DEF UpTo
  <2>6. x \in Items /\ sink + 1 \in Nat
    BY <1>2
  <2> HIDE DEF h, x
  <2>7. \A t \in (1..cfg.sinks) \ {1} :
           /\ IsPrefix(received'[t], received'[t - 1])
           /\ \A u \in 1..(t - 1) : Len(received'[u]) <= Len(received'[t]) + 1
    <3>1. cfg.sinks \in Nat /\ received' \in [1..cfg.sinks -> Seq(Items)] /\ h \in Seq(Items)
      BY <1>1, <2>1, <2>4
    <3> QED BY <2>3, <2>6, <3>1, InOrder
  <2>8. SinksInOrder'
    BY <1>1, <2>7 DEF SinksInOrder, Sinks
  <2>9. Typed' /\ Suspended' /\ Final' /\ AtEvent' /\ Running'
    BY <1>1, <1>2, <1>4, <2>4
       DEF IInv, Typed, Suspended, Final, AtEvent, Running, Sinks
  <2>10. OnItsWay'
    <3>1. UpTo(received', sink', cfg.sinks, Head(todo')) /\ sink' \in 1..cfg.sinks
      BY <1>1, <1>4, <2>1, <2>5 DEF x
    <3> QED BY <1>1, <2>8, <2>9, <3>1 DEF OnItsWay
  <2> QED BY <2>9, <2>10 DEF IInv
<1>5. CASE sink = cfg.sinks /\ Stored(sink) /\ sink' = 1 /\ Continue(Tail(todo))
  <2> DEFINE h == received[cfg.sinks]
             x == Head(todo)
  <2>1. /\ cfg.sinks \in 1..cfg.sinks
        /\ h \in Seq(Items) /\ Append(h, x) \in Seq(Items)
    BY <1>1, <1>2, <1>5, AppendProperties
  <2>2. received' = [received EXCEPT ![cfg.sinks] = Append(h, x)]
    BY <1>5 DEF Stored
  <2>3. \A t \in 1..cfg.sinks : t # cfg.sinks => received[t] = Append(h, x)
    <3>1. \A t \in 1..cfg.sinks : t # cfg.sinks => t < sink
      BY <1>1, <1>5
    <3> QED BY <1>2, <3>1 DEF UpTo
  <2>4. \A t \in 1..cfg.sinks : received'[t] = Append(h, x)
    BY <1>2, <2>1, <2>2, <2>3
  <2>5. received' \in [1..cfg.sinks -> Seq(Items)]
    BY <1>2, <2>1, <2>2
  <2> HIDE DEF h, x
  <2>6. received' \in [Sinks -> Seq(Items)] /\ \A t \in Sinks : received'[t] = received'[cfg.sinks]
    BY <2>1, <2>4, <2>5 DEF Sinks
  <2> QED BY <1>1, <1>3, <1>5, <2>6, GoesOn DEF IInv, Typed
<1>6. CASE cfg.sinks = 0 /\ Continue(Tail(todo)) /\ UNCHANGED emitter
  <2>1. received' \in [Sinks -> Seq(Items)] /\ Sinks = {}
    BY <1>2, <1>6 DEF Sinks, emitter
  <2>2. sink' = 1
    BY <1>1, <1>6 DEF emitter, IInv, OnItsWay
  <2> QED BY <1>1, <1>3, <1>6, <2>1, <2>2, GoesOn DEF IInv, Typed
<1> QED BY <1>4, <1>5, <1>6 DEF Deliver

\* At an await the run is at no event, and no result has been accepted.
LEMMA AwaitIs ==
  ASSUME IInv, NEW type \in Awaits, At(type)
  PROVE  /\ Running /\ ~AtEvent /\ ~accepted
         /\ Head(todo).n \in Nat
         /\ type = "sleep" => Head(todo) \in Items
<1>1. Running /\ ~AtEvent
  BY DEF At, AtEvent
<1>2. ~accepted /\ Head(todo) \in Items /\ Head(todo).type = type
  BY <1>1, AheadIs DEF At
<1> QED BY <1>1, <1>2 DEF Items, Awaits, Ends

\* An attempt returns a valid result.
LEMMA AttemptSucceedsStep == IInv /\ AttemptSucceeds => IInv'
<1> SUFFICES ASSUME IInv, AttemptSucceeds PROVE IInv'
  OBVIOUS
<1>1. Running /\ ~AtEvent /\ Head(todo).n \in Nat
  BY AwaitIs DEF AttemptSucceeds, Awaits
<1>2. Path(SuccessSteps(Head(todo).n)) /\ SuccessSteps(Head(todo).n) \in Seq(Quiet)
  BY <1>1, SuccessPath DEF IInv, Typed
<1> QED BY <1>1, <1>2, GoesOnFromAwait DEF AttemptSucceeds, IInv, Typed

\* An attempt fails, and its failure is recorded and followed.
LEMMA AttemptFailsStep == ASSUME NEW e \in Errors PROVE IInv /\ AttemptFails(e) => IInv'
<1> SUFFICES ASSUME IInv, AttemptFails(e) PROVE IInv'
  OBVIOUS
<1>1. Running /\ ~AtEvent /\ ~accepted /\ Head(todo).n \in Nat
  BY AwaitIs DEF AttemptFails, Awaits
<1>2. /\ cfg \in Configs /\ cfg.maxAttempts \in Nat
      /\ cfg.retry \in BOOLEAN /\ cfg.rateLimit \in BOOLEAN
      /\ cfg.raises \subseteq Classes /\ Len(attempts) \in Nat /\ failures \in Seq(Classes)
  BY ConfigAssumption DEF IInv, Typed, ConfigType
<1>3. PICK class \in Classes, hint \in Hints : e = Error(class, hint)
  BY <1>2 DEF Errors, Classes, Hints
<1>4. ASSUME NEW c \in Classes, NEW h \in Hints, NEW p,
             p.limited \in BOOLEAN, p.exceeded \in BOOLEAN, p.retryable \in BOOLEAN,
             Recorded(Error(c, h), p)
      PROVE  IInv'
  <2> DEFINE s ==    FailureEvents(Error(c, h), Head(todo).n, p)
                  \o AfterFailure(Error(c, h), Head(todo).n, p)
  <2>1. CASE ValidPlan(p)
    <3>1. Path(s)
      BY <1>1, <1>2, <1>4, FailurePath
    <3>2. Continue(s)
      BY <1>4, <2>1 DEF Recorded
    <3>3. cfg' = cfg /\ failures' \in Seq(Classes) /\ UNCHANGED emitter /\ ~accepted'
      BY <1>1, <1>2 DEF AttemptFails
    <3> HIDE DEF s
    <3> QED BY <1>1, <3>1, <3>2, <3>3, GoesOnFromAwait
  <2>2. CASE ~ValidPlan(p)
    <3>1. /\ todo' = <<>> /\ result'.kind \notin {"running", "failed"}
          /\ UNCHANGED <<cfg, attempts, failures, sink, accepted, received>>
      BY <1>4, <2>2 DEF Recorded, Ended, AttemptFails, emitter
    <3> QED BY <1>1, <3>1, LeavesStep
  <2> QED BY <2>1, <2>2
<1>5. CASE Unusable(e)
  <2>1. Recorded(Error("extraction", "none"), NoPlan)
    BY <1>5 DEF AttemptFails
  <2>2. "extraction" \in Classes /\ "none" \in Hints
    BY DEF Classes, Hints
  <2>3. NoPlan.limited \in BOOLEAN /\ NoPlan.exceeded \in BOOLEAN /\ NoPlan.retryable \in BOOLEAN
    BY DEF NoPlan
  <2> QED BY <1>4, <2>1, <2>2, <2>3
<1>6. CASE ~Unusable(e)
  <2> DEFINE p == Plan(e, Head(todo).n)
  <2>1. Recorded(e, p)
    BY <1>6 DEF AttemptFails
  <2>2. p.limited \in BOOLEAN /\ p.exceeded \in BOOLEAN /\ p.retryable \in BOOLEAN
    BY DEF Plan, Limited, Eligible
  <2> HIDE DEF p
  <2> QED BY <1>3, <1>4, <2>1, <2>2
<1> QED BY <1>5, <1>6

\* A delay is over.
LEMMA WakeStep == IInv /\ Wake => IInv'
<1> SUFFICES ASSUME IInv, Wake PROVE IInv'
  OBVIOUS
<1> DEFINE n == Head(todo).n + 1
           s == <<Ev("attempt.started", n), CallAttempt(n)>>
<1>1. Running /\ ~AtEvent /\ ~accepted /\ n \in Nat
  BY AwaitIs DEF Wake, Awaits
<1>2. Path(s)
  <2>1. Ev("attempt.started", n) \in Events
    BY <1>1, EventIs DEF EventTypes
  <2>2. CallAttempt(n) \in Items /\ CallAttempt(n).type \in Awaits
    BY <1>1 DEF CallAttempt, Items, Awaits
  <2> QED BY <2>1, <2>2, PathEnds
<1>3. Continue(s) /\ cfg' = cfg /\ failures' \in Seq(Classes) /\ UNCHANGED emitter /\ ~accepted'
  BY <1>1 DEF Wake, IInv, Typed
<1> HIDE DEF s
<1> QED BY <1>1, <1>2, <1>3, GoesOnFromAwait

\* A candidate returns a valid result.
LEMMA CandidateSucceedsStep == IInv /\ CandidateSucceeds => IInv'
<1> SUFFICES ASSUME IInv, CandidateSucceeds PROVE IInv'
  OBVIOUS
<1> DEFINE n == Len(attempts) + 1
           s ==    InvalidEvents(failures, n)
                \o When(cfg.validation, Ev("validation.succeeded", n))
                \o <<Record(Attempt(n, "succeeded", FALSE, TRUE, Meta(Accepted, {}))),
                     Ev("fallback.succeeded", n), Ev("attempt.succeeded", n),
                     Ev("operation.succeeded", n), Stop("returned")>>
<1>1. Running /\ ~AtEvent
  BY AwaitIs DEF CandidateSucceeds, Awaits
<1>2. n \in Nat /\ failures \in Seq(Classes) /\ cfg \in Configs
  BY DEF IInv, Typed
<1>3. InvalidEvents(failures, n) \in Seq(Events) /\ InvalidEvents(failures, n) \in Seq(Quiet)
  BY <1>2, InvalidEventsAre
<1>4. Path(s) /\ s \in Seq(Quiet)
  BY <1>2, <1>3, RescuedPath
<1>5. Continue(s) /\ cfg' = cfg /\ failures' = failures /\ UNCHANGED emitter
  BY DEF CandidateSucceeds
<1> HIDE DEF s
<1> QED BY <1>1, <1>2, <1>4, <1>5, GoesOnFromAwait

\* A candidate fails: the next one, or the end.
LEMMA CandidateFailsStep ==
  ASSUME NEW class \in cfg.candidateRaises
  PROVE  IInv /\ CandidateFails(class) => IInv'
<1> SUFFICES ASSUME IInv, CandidateFails(class) PROVE IInv'
  OBVIOUS
<1> DEFINE n == Len(attempts) + 1
           i == Head(todo).n
           s(es, status, exhausted) ==
                es \o <<Record(Attempt(n, status, FALSE, TRUE, FallbackMeta(class, exhausted))),
                        Ev("fallback.failed", n), Ev("attempt.failed", n),
                        Ev("operation.failed", n), Stop("failed")>>
<1>1. Running /\ ~AtEvent /\ ~accepted /\ i \in Nat
  BY AwaitIs DEF CandidateFails, Awaits
<1>2. n \in Nat /\ failures \in Seq(Classes) /\ class \in Classes
  BY ConfigAssumption DEF IInv, Typed, ConfigType
<1>3. cfg' = cfg /\ UNCHANGED emitter /\ ~accepted'
  BY <1>1 DEF CandidateFails
<1>4. ASSUME failures' = Append(failures, class), Continue(<<Candidate(i + 1)>>)
      PROVE  IInv'
  <2>1. Path(<<Candidate(i + 1)>>)
    <3>1. Candidate(i + 1) \in Items /\ Candidate(i + 1).type \in Awaits
      BY <1>1 DEF Candidate, Items, Awaits
    <3> QED BY <3>1, PathEnds
  <2>2. failures' \in Seq(Classes)
    BY <1>2, <1>4, AppendProperties
  <2> QED BY <1>1, <1>3, <1>4, <2>1, <2>2, GoesOnFromAwait
<1>5. ASSUME NEW es \in Seq(Events), NEW status \in Statuses, NEW exhausted \in BOOLEAN,
             FallbackFails(status, FallbackMeta(class, exhausted), es),
             failures' \in Seq(Classes)
      PROVE  IInv'
  <2>1. Path(s(es, status, exhausted))
    BY <1>2, FallbackFailsPath
  <2>2. Continue(s(es, status, exhausted))
    BY <1>5 DEF FallbackFails
  <2> HIDE DEF s
  <2> QED BY <1>1, <1>3, <1>5, <2>1, <2>2, GoesOnFromAwait
<1>6. CASE class \in cfg.fallbackOn /\ ~(i < cfg.candidates)
           /\ failures' = Append(failures, class)
           /\ FallbackFails("failed", FallbackMeta(class, TRUE),
                            InvalidEvents(Append(failures, class), n))
  <2>1. Append(failures, class) \in Seq(Classes)
    BY <1>2, AppendProperties
  <2>2. InvalidEvents(Append(failures, class), n) \in Seq(Events)
    BY <1>2, <2>1, InvalidEventsAre
  <2> QED BY <1>5, <1>6, <2>1, <2>2 DEF Statuses
<1>7. CASE class \notin cfg.fallbackOn
           /\ FallbackFails(StatusOf(Error(class, "none")), FallbackMeta(class, FALSE),
                            When(class = "invalid", Ev("validation.failed", n)))
           /\ UNCHANGED failures
  <2>1. Ev("validation.failed", n) \in Events
    BY <1>2, EventIs DEF EventTypes
  <2>2. When(class = "invalid", Ev("validation.failed", n)) \in Seq(Events)
    BY <2>1, WhenIs
  <2>3. StatusOf(Error(class, "none")) \in Statuses
    BY DEF StatusOf, Statuses
  <2> QED BY <1>2, <1>5, <1>7, <2>2, <2>3
<1> QED BY <1>4, <1>6, <1>7 DEF CandidateFails

\* Every step of a run, its sinks and its callers preserves IInv.
LEMMA StepIInv == IInv /\ [Next]_vars => IInv'
<1> SUFFICES ASSUME IInv, [Next]_vars PROVE IInv'
  OBVIOUS
<1>1. ASSUME NEW e \in Errors, PlanningRaises(e) PROVE IInv'
  <2>1. Running
    BY <1>1 DEF PlanningRaises, At
  <2>2. /\ todo' = <<>> /\ result'.kind \notin {"running", "failed"}
        /\ UNCHANGED <<cfg, attempts, failures, sink, accepted, received>>
    BY <1>1 DEF PlanningRaises, Ended, emitter
  <2> QED BY <2>1, <2>2, LeavesStep
<1>2. CASE SinkRaises \/ Cancel
  <2>1. PICK kind \in {"sink_error", "cancelled"} :
          Running /\ Abandon(kind) /\ (AtEvent => cfg.sinks > 0)
    BY <1>2 DEF SinkRaises, Cancel, AtEvent
  <2>2. /\ todo' = <<>> /\ result'.kind \notin {"running", "failed"}
        /\ UNCHANGED <<cfg, attempts, failures, sink, accepted>>
        /\ UNCHANGED received \/ (AtEvent /\ cfg.sinks > 0 /\ Stored(sink))
    BY <2>1 DEF Abandon, Ended
  <2> QED BY <2>1, <2>2, LeavesStep
<1>3. CASE UNCHANGED vars
  BY <1>3 DEF vars, IInv, Typed, Suspended, Final, OnItsWay, SinksInOrder, Sinks, UpTo,
              Running, AtEvent, Path
<1> QED
  BY <1>1, <1>2, <1>3, DeliverStep, AttemptSucceedsStep, AttemptFailsStep, WakeStep,
     CandidateSucceedsStep, CandidateFailsStep DEF Next, Progress

\* Every sink holds what the sinks before it hold, at most one event behind,
\* wherever the run is left.
THEOREM SinksAlwaysInOrder == Spec => []SinksInOrder
BY InitIInv, StepIInv, PTL DEF Spec, IInv, OnItsWay

\* An accepted result is final: no attempt, delay or candidate follows it,
\* and the run does not fail.
THEOREM AcceptedAlwaysFinal == Spec => []AcceptedIsFinal
<1>1. IInv => AcceptedIsFinal
  <2> SUFFICES ASSUME IInv, accepted PROVE AcceptedIsFinal
    BY DEF AcceptedIsFinal
  <2>1. todo \in Seq(Quiet) /\ result.kind # "failed"
    BY DEF IInv, Final
  <2> QED BY <2>1, ElementOfSeq, LenProperties DEF AcceptedIsFinal, Quiet
<1> QED BY <1>1, InitIInv, StepIInv, PTL DEF Spec
=============================================================================
