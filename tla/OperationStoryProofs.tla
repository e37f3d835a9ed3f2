------------------------ MODULE OperationStoryProofs ------------------------
(***************************************************************************)
(* For any policies, attempts and sinks: the events of a run, its recorded *)
(* attempts and its report tell one story, and retries come before the     *)
(* fallback chain and the end.                                             *)
(*                                                                         *)
(* What a sink has received and what lies ahead on todo are two halves of  *)
(* one story about A, the attempts that are recorded or about to be.  The  *)
(* delivery of an event moves it from the one half to the other and a      *)
(* record from todo to the attempts; neither changes the story.  Only the  *)
(* end of an await continues it.                                           *)
(***************************************************************************)
EXTENDS AsyncOperationProofs

-----------------------------------------------------------------------------
(* The attempts                                                            *)

\* What is told of an attempt before its record.
Preludes == {
  "rate_limit.detected", "rate_limit.wait_exceeded", "circuit_breaker.rejected",
  "validation.succeeded", "validation.failed"}

\* The attempts recorded, with the one that s is about to record.
Written(past, s) ==
  IF Positions(s, {"append"}) = {} THEN {past}
  ELSE {Append(past, s[q].attempt) : q \in Positions(s, {"append"})}

\* The number of primary attempts: none follows a fallback.
Primary(A) == IF A # <<>> /\ A[Len(A)].fallback THEN Len(A) - 1 ELSE Len(A)

Ran(max, A) ==
  /\ A \in Seq(AttemptType)
  /\ \A i \in 1..Len(A) :
       /\ A[i].number = i
       /\ i < Len(A) => ~A[i].fallback /\ A[i].status # "succeeded"
       /\ i < Primary(A) => A[i].retryable
       /\ A[i].fallback => i > 1 /\ A[i].meta.flags \subseteq {"open"}
       /\ "exceeded" \in A[i].meta.flags => ~A[i].retryable
  /\ Primary(A) <= max

\* Another attempt may follow.
MayGoOn(max, A) ==
  /\ Len(A) < max
  /\ \A i \in 1..Len(A) : ~A[i].fallback /\ A[i].retryable /\ A[i].status # "succeeded"

\* No retry is left.
GivenUp(max, A) ==
  \E n \in 1..max :
    Primaries(A) = 1..n /\ (~A[n].retryable \/ n = max)

-----------------------------------------------------------------------------
(* What lies ahead                                                         *)

\* Where the path leads.
Leads(max, x, A) ==
  /\ x.type = "call" => x.n = Len(A) + 1 /\ MayGoOn(max, A)
  /\ x.type = "sleep" => x.n = Len(A) /\ Len(A) > 0 /\ MayGoOn(max, A)
  /\ x.type = "candidate" => ~A[Len(A)].fallback
  /\ x.type \in {"candidate", "failed"} =>
       Len(A) > 0 /\ GivenUp(max, A) /\ A[Len(A)].status # "succeeded"
  /\ x.type = "returned" => Len(A) > 0 /\ A[Len(A)].status = "succeeded"

\* An event is about an attempt of A, as it was.
Fits(max, x, A) ==
  /\ x.type \in Preludes \cup AttemptEnds \cup {"retry.scheduled"} => x.n \in 1..Len(A)
  /\ x.type \in AttemptEnds =>
       (x.type = "attempt.succeeded" <=> A[x.n].status = "succeeded")
  /\ x.type = "retry.scheduled" =>
       A[x.n].retryable /\ (x.limited <=> "limited" \in A[x.n].meta.flags)
  /\ x.type \in {"fallback.started", "operation.failed"} => GivenUp(max, A)

\* First what is told of the attempt, then its record, then the rest; a
\* delay is announced, and so is the end.
Ordered(s) ==
  /\ \A i, j \in 1..Len(s) :
       i < j /\ s[j].type \in Preludes \cup {"append"} => s[i].type \in Preludes
  /\ Positions(s, Preludes) # {} => Positions(s, {"append"}) # {}
  /\ Positions(s, {"append"}) # {} => Positions(s, AttemptEnds) # {}
  /\ \A i \in 1..(Len(s) - 1) :
       /\ s[i].type \in OperationEnds <=> s[i + 1].type \in Ends
       /\ s[i].type = "operation.succeeded" <=> s[i + 1].type = "returned"
       /\ s[i].type = "retry.scheduled" <=> s[i + 1].type = "sleep"
       /\ s[i + 1].type = "sleep" => s[i].limited = s[i + 1].limited

Course(max, s, A) ==
  /\ Ordered(s)
  /\ \A i \in 1..Len(s) :
       /\ Fits(max, s[i], A)
       /\ s[i].type \in Preludes \cup AttemptEnds => s[i].n = Len(A)
  /\ Leads(max, s[Len(s)], A)

-----------------------------------------------------------------------------
(* What a sink r has received, with s still ahead                          *)

\* s has at most one event of these types, which is the next one for r.
Once(r, s, types, m) ==
  /\ \A p, q \in Positions(s, types) : p = q
  /\ \A q \in Positions(s, types) : s[q].n = m /\ m > 0
  /\ OnceEach(r, types, 1..(IF Positions(s, types) = {} THEN m ELSE m - 1))

\* What is told before its record agrees with attempt i, called a.
Heard(r, s, i, a) ==
  LET H(type) == Has(r, type, i) \/ Has(s, type, i)
  IN /\ a.meta.verdict = "valid" <=> H("validation.succeeded")
     /\ a.meta.verdict = "invalid" => H("validation.failed")
     /\ ~a.fallback =>
          /\ H("validation.failed") => a.meta.verdict = "invalid"
          /\ "open" \in a.meta.flags <=> H("circuit_breaker.rejected")
     /\ "limited" \in a.meta.flags <=> H("rate_limit.detected")
     /\ "exceeded" \in a.meta.flags <=> H("rate_limit.wait_exceeded")

LimitedRetries(r) == {p \in Positions(r, {"retry.scheduled"}) : r[p].limited}

Tale(max, r, s, past, A) ==
  /\ \A p \in 1..Len(r) :
       /\ Fits(max, r[p], A)
       /\ r[p].type \in {"fallback.started", "operation.failed"} => GivenUp(max, past)
  /\ \A i \in 1..Len(A) : Heard(r, s, i, A[i])
  /\ Once(r, s, AttemptEnds, Len(A))
  /\ Once(r, s, {"attempt.started"},
          IF s[Len(s)].type = "call" THEN Len(A) + 1 ELSE Primary(A))
  /\ Once(r, s, {"retry.scheduled"},
          IF s[Len(s)].type \in {"call", "sleep"} THEN Len(A) ELSE Primary(A) - 1)
  /\ Positions(r, OperationEnds) = IF s[1].type \in Ends THEN {Len(r)} ELSE {}
  /\ s[1].type \in Ends =>
       (s[1].type = "returned" <=> r[Len(r)].type = "operation.succeeded")

\* The rate-limited retries among what r has received are those waited for,
\* and the one whose delay is next.
Waited(l, r, s) ==
  Cardinality(LimitedRetries(r))
    = l.waits + (IF s[1].type = "sleep" /\ s[1].limited THEN 1 ELSE 0)

-----------------------------------------------------------------------------

\* The rest for sink t.
Rest(t) == IF t < sink THEN Tail(todo) ELSE todo

Limits(l, A) ==
  /\ l \in [encountered : BOOLEAN, exceeded : BOOLEAN, waits : Nat]
  /\ l.encountered <=> \E i \in 1..Len(A) : "limited" \in A[i].meta.flags
  /\ l.exceeded <=> \E i \in 1..Len(A) : "exceeded" \in A[i].meta.flags

Telling ==
  LET max == cfg.maxAttempts
  IN \E A \in Written(attempts, todo) :
       /\ Ran(max, A) /\ Limits(limits, A) /\ Course(max, todo, A)
       /\ \A t \in Sinks : /\ Tale(max, received[t], Rest(t), attempts, A)
                          /\ Waited(limits, received[t], Rest(t))

SInv ==
  /\ IInv
  /\ Running => Telling
  /\ EventsFollowAttempts /\ ReportAgrees /\ RetriesComeFirst

\* What is told of the last attempt of A before its record.
Opening(E, A) ==
  /\ E \in Seq(Items)
  /\ \A i \in 1..Len(E) : E[i].type \in Preludes /\ E[i].n = Len(A)
  /\ Heard(<<>>, E, Len(A), A[Len(A)])

\* A record, the event about it, and where the path leads: nothing else
\* begins, and a retry is announced where its delay is next.
Closing(max, T, A) ==
  /\ T \in Seq(Items) /\ Len(T) > 0 /\ T[1] = Record(A[Len(A)]) /\ Course(max, T, A)
  /\ \A p, q \in Positions(T, AttemptEnds) : p = q
  /\ Positions(T, {"attempt.started"}) = {} /\ T[Len(T)].type # "call"
  /\ \A p, q \in Positions(T, {"retry.scheduled"}) : p = q
  /\ \A p \in Positions(T, {"retry.scheduled"}) : T[p].n = Len(A)
  /\ Positions(T, {"retry.scheduled"}) = {} <=> T[Len(T)].type # "sleep"

-----------------------------------------------------------------------------
(* Positions, heads and tails                                              *)

\* The first item and the others.
LEMMA TailIs ==
  ASSUME NEW s \in Seq(Items), s # <<>>
  PROVE  /\ Len(s) \in Nat \ {0} /\ Head(s) = s[1] /\ s[1] \in Items
         /\ Tail(s) \in Seq(Items) /\ Len(Tail(s)) = Len(s) - 1
         /\ \A i \in 1..(Len(s) - 1) : Tail(s)[i] = s[i + 1]
OBVIOUS

\* What is somewhere in s is its head or in its tail.
LEMMA PositionsTail ==
  ASSUME NEW s \in Seq(Items), s # <<>>, NEW types
  PROVE  /\ \A q : q \in Positions(Tail(s), types) <=>
                  q \in Nat \ {0} /\ q + 1 \in Positions(s, types)
         /\ Positions(s, types) = {} <=> s[1].type \notin types /\ Positions(Tail(s), types) = {}
         /\ \A q \in Positions(s, types) : q = 1 \/ q - 1 \in Positions(Tail(s), types)
<1>1. \A q : q \in Positions(Tail(s), types) <=> q \in Nat \ {0} /\ q + 1 \in Positions(s, types)
  <2> SUFFICES ASSUME NEW q
               PROVE  q \in Positions(Tail(s), types)
                        <=> q \in Nat \ {0} /\ q + 1 \in Positions(s, types)
    OBVIOUS
  <2>1. q \in Positions(Tail(s), types) => q \in Nat \ {0} /\ q + 1 \in Positions(s, types)
    BY TailIs DEF Positions
  <2>2. ASSUME q \in Nat \ {0}, q + 1 \in Positions(s, types)
        PROVE  q \in Positions(Tail(s), types)
    BY <2>2, TailIs DEF Positions
  <2> QED BY <2>1, <2>2
<1>2. \A q \in Positions(s, types) : q = 1 \/ q - 1 \in Positions(Tail(s), types)
  BY TailIs DEF Positions
<1>3. s[1].type \in types => 1 \in Positions(s, types)
  BY TailIs DEF Positions
<1>4. 1 \in Positions(s, types) => s[1].type \in types
  BY DEF Positions
<1> QED BY <1>1, <1>2, <1>3, <1>4

\* What is somewhere in r with one more event is in r or the last.
LEMMA PositionsAppend ==
  ASSUME NEW r \in Seq(Items), NEW h \in Items, NEW types
  PROVE  /\ Append(r, h) \in Seq(Items) /\ Len(Append(r, h)) = Len(r) + 1
         /\ \A p \in 1..Len(r) : Append(r, h)[p] = r[p]
         /\ Append(r, h)[Len(r) + 1] = h
         /\ Positions(Append(r, h), types)
              = Positions(r, types) \cup (IF h.type \in types THEN {Len(r) + 1} ELSE {})
<1>1. /\ Append(r, h) \in Seq(Items) /\ Len(Append(r, h)) = Len(r) + 1
      /\ \A p \in 1..Len(r) : Append(r, h)[p] = r[p]
      /\ Append(r, h)[Len(r) + 1] = h
  BY AppendProperties
<1>2. DOMAIN Append(r, h) = 1..(Len(r) + 1) /\ DOMAIN r = 1..Len(r) /\ Len(r) \in Nat
  BY <1>1
<1>3. \A p : p \in 1..(Len(r) + 1) <=> p \in 1..Len(r) \/ p = Len(r) + 1
  BY <1>2
<1> QED BY <1>1, <1>2, <1>3 DEF Positions

\* Has() of a sequence taken apart.
LEMMA HasTail ==
  ASSUME NEW s \in Seq(Items), s # <<>>, NEW type, NEW n
  PROVE  Has(s, type, n) <=> (s[1].type = type /\ s[1].n = n) \/ Has(Tail(s), type, n)
<1>1. ASSUME Has(s, type, n) PROVE (s[1].type = type /\ s[1].n = n) \/ Has(Tail(s), type, n)
  <2>1. PICK q \in Positions(s, {type}) : s[q].n = n
    BY <1>1 DEF Has
  <2>2. CASE q = 1
    BY <2>1, <2>2 DEF Positions
  <2>3. CASE q - 1 \in Positions(Tail(s), {type})
    <3>1. q - 1 \in 1..(Len(s) - 1) /\ q \in Nat
      BY <2>1, <2>3, TailIs DEF Positions
    <3>2. Tail(s)[q - 1] = s[q]
      BY <3>1, TailIs
    <3> QED BY <2>1, <2>3, <3>2 DEF Has
  <2> QED BY <2>1, <2>2, <2>3, PositionsTail
<1>2. ASSUME s[1].type = type, s[1].n = n PROVE Has(s, type, n)
  BY <1>2, TailIs DEF Has, Positions
<1>3. ASSUME Has(Tail(s), type, n) PROVE Has(s, type, n)
  <2>1. PICK q \in Positions(Tail(s), {type}) : Tail(s)[q].n = n
    BY <1>3 DEF Has
  <2>2. q + 1 \in Positions(s, {type}) /\ Tail(s)[q] = s[q + 1]
    BY <2>1, PositionsTail, TailIs DEF Positions
  <2> QED BY <2>1, <2>2 DEF Has
<1> QED BY <1>1, <1>2, <1>3

\* Has() of a sequence with one more event.
LEMMA HasAppend ==
  ASSUME NEW r \in Seq(Items), NEW h \in Items, NEW type, NEW n
  PROVE  Has(Append(r, h), type, n) <=> Has(r, type, n) \/ (h.type = type /\ h.n = n)
<1>1. /\ \A p \in 1..Len(r) : Append(r, h)[p] = r[p]
      /\ Append(r, h)[Len(r) + 1] = h
      /\ Positions(Append(r, h), {type})
           = Positions(r, {type}) \cup (IF h.type = type THEN {Len(r) + 1} ELSE {})
  BY PositionsAppend
<1>2. \A p \in Positions(r, {type}) : p \in 1..Len(r)
  BY DEF Positions
<1> QED BY <1>1, <1>2 DEF Has

\* An event of the types is the next one.
LEMMA OnceAppend ==
  ASSUME NEW r \in Seq(Items), NEW h \in Items, NEW types, NEW m \in Nat \ {0},
         OnceEach(r, types, 1..(m - 1)), h.type \in types, h.n = m
  PROVE  OnceEach(Append(r, h), types, 1..m)
<1> DEFINE e == Append(r, h)
<1>1. /\ \A p \in 1..Len(r) : e[p] = r[p]
      /\ e[Len(r) + 1] = h /\ Len(r) \in Nat
      /\ Positions(e, types) = Positions(r, types) \cup {Len(r) + 1}
  BY PositionsAppend
<1>2. \A p \in Positions(r, types) : p \in 1..Len(r)
  BY DEF Positions
<1> HIDE DEF e
<1>3. {e[p].n : p \in Positions(e, types)} = {r[p].n : p \in Positions(r, types)} \cup {m}
  BY <1>1, <1>2
<1>4. 1..m = 1..(m - 1) \cup {m}
  OBVIOUS
<1>5. {e[p].n : p \in Positions(e, types)} = 1..m
  BY <1>3, <1>4 DEF OnceEach
<1>6. \A p \in Positions(r, types) : r[p].n \in 1..(m - 1)
  BY DEF OnceEach
<1>7. \A p, q \in Positions(e, types) : p < q => e[p].n < e[q].n
  <2> SUFFICES ASSUME NEW p \in Positions(e, types), NEW q \in Positions(e, types), p < q
               PROVE  e[p].n < e[q].n
    OBVIOUS
  <2>1. p \in Positions(r, types)
    BY <1>1, <1>2
  <2>2. CASE q \in Positions(r, types)
    BY <1>1, <1>2, <2>1, <2>2 DEF OnceEach
  <2>3. CASE q = Len(r) + 1
    <3>1. e[q].n = m
      BY <1>1, <2>3
    <3>2. e[p].n \in 1..(m - 1)
      BY <1>1, <1>2, <1>6, <2>1
    <3> QED BY <3>1, <3>2
  <2> QED BY <1>1, <2>2, <2>3
<1> QED BY <1>5, <1>7 DEF OnceEach, e

\* An event of other types changes nothing.
LEMMA OnceSame ==
  ASSUME NEW r \in Seq(Items), NEW h \in Items, NEW types, NEW N,
         OnceEach(r, types, N), h.type \notin types
  PROVE  OnceEach(Append(r, h), types, N)
<1>1. /\ \A p \in 1..Len(r) : Append(r, h)[p] = r[p]
      /\ Positions(Append(r, h), types) = Positions(r, types)
  <2>1. Positions(Append(r, h), types)
          = Positions(r, types) \cup (IF h.type \in types THEN {Len(r) + 1} ELSE {})
    BY PositionsAppend
  <2>2. Positions(Append(r, h), types) = Positions(r, types) \cup {}
    BY <2>1
  <2> QED BY <2>2, PositionsAppend
<1>2. \A p \in Positions(r, types) : p \in 1..Len(r)
  BY DEF Positions
<1>3. \A p \in Positions(r, types) : Append(r, h)[p] = r[p]
  BY <1>1, <1>2
<1>4. {Append(r, h)[p].n : p \in Positions(r, types)} = {r[p].n : p \in Positions(r, types)}
  BY <1>3
<1> QED BY <1>1, <1>3, <1>4 DEF OnceEach

\* Once() from the one half of the story to the other.
LEMMA OnceMoves ==
  ASSUME NEW r \in Seq(Items), NEW s \in Seq(Items), s # <<>>, NEW types, NEW m \in Int,
         Once(r, s, types, m)
  PROVE  Once(Append(r, s[1]), Tail(s), types, m)
<1>1. s[1] \in Items
  BY TailIs
<1>2. \A p, q \in Positions(Tail(s), types) : p = q
  <2>1. \A p, q \in Positions(Tail(s), types) : p + 1 = q + 1 /\ p \in Nat /\ q \in Nat
    BY PositionsTail DEF Once
  <2> QED BY <2>1
<1>3. \A q \in Positions(Tail(s), types) : Tail(s)[q].n = m /\ m > 0
  <2>1. \A q \in Positions(Tail(s), types) :
          Tail(s)[q] = s[q + 1] /\ q + 1 \in Positions(s, types)
    BY PositionsTail, TailIs DEF Positions
  <2> QED BY <2>1 DEF Once
<1>4. CASE s[1].type \in types
  <2>1. 1 \in Positions(s, types)
    BY <1>4, TailIs DEF Positions
  <2>2. Positions(Tail(s), types) = {}
    BY <2>1, PositionsTail DEF Once
  <2>3. s[1].n = m /\ m \in Nat \ {0} /\ OnceEach(r, types, 1..(m - 1))
    BY <2>1 DEF Once
  <2>4. OnceEach(Append(r, s[1]), types, 1..m)
    BY <1>1, <1>4, <2>3, OnceAppend
  <2> QED BY <1>2, <1>3, <2>2, <2>4 DEF Once
<1>5. CASE s[1].type \notin types
  <2>1. Positions(Tail(s), types) = {} <=> Positions(s, types) = {}
    BY <1>5, PositionsTail
  <2>2. OnceEach(Append(r, s[1]), types, 1..(IF Positions(s, types) = {} THEN m ELSE m - 1))
    BY <1>1, <1>5, OnceSame DEF Once
  <2> QED BY <1>2, <1>3, <2>1, <2>2 DEF Once
<1> QED BY <1>4, <1>5

\* Once() where something else leaves todo.
LEMMA OnceDrops ==
  ASSUME NEW r, NEW s \in Seq(Items), s # <<>>, NEW types, NEW m, Once(r, s, types, m),
         s[1].type \notin types
  PROVE  Once(r, Tail(s), types, m)
<1>1. \A p, q \in Positions(Tail(s), types) : p = q
  <2>1. \A p, q \in Positions(Tail(s), types) : p + 1 = q + 1 /\ p \in Nat /\ q \in Nat
    BY PositionsTail DEF Once
  <2> QED BY <2>1
<1>2. \A q \in Positions(Tail(s), types) : Tail(s)[q].n = m /\ m > 0
  <2>1. \A q \in Positions(Tail(s), types) :
          Tail(s)[q] = s[q + 1] /\ q + 1 \in Positions(s, types)
    BY PositionsTail, TailIs DEF Positions
  <2> QED BY <2>1 DEF Once
<1>3. Positions(Tail(s), types) = {} <=> Positions(s, types) = {}
  BY PositionsTail
<1> QED BY <1>1, <1>2, <1>3 DEF Once

-----------------------------------------------------------------------------
(* From the one half of the story to the other                             *)

\* Past its first item a path is shorter by one.
LEMMA RestIs ==
  ASSUME NEW s, Path(s), s[1].type \notin Awaits \cup Ends
  PROVE  /\ s \in Seq(Items) /\ s # <<>> /\ s[1] \in Items /\ Head(s) = s[1]
         /\ Len(s) \in Nat /\ Len(s) > 1 /\ Path(Tail(s)) /\ Tail(s) \in Seq(Items)
         /\ Len(Tail(s)) = Len(s) - 1 /\ Len(Tail(s)) \in Nat \ {0}
         /\ \A i \in 1..(Len(s) - 1) : Tail(s)[i] = s[i + 1]
         /\ Tail(s)[1] = s[2] /\ Tail(s)[Len(Tail(s))] = s[Len(s)]
<1>1. s \in Seq(Items) /\ s # <<>>
  BY DEF Path
<1>2. /\ Len(s) \in Nat \ {0} /\ Head(s) = s[1] /\ s[1] \in Items
      /\ Tail(s) \in Seq(Items) /\ Len(Tail(s)) = Len(s) - 1
      /\ \A i \in 1..(Len(s) - 1) : Tail(s)[i] = s[i + 1]
  BY <1>1, TailIs
<1>3. Path(Tail(s))
  BY <1>2, PathGoesOn
<1>4. Len(Tail(s)) \in Nat \ {0}
  BY <1>3 DEF Path
<1>5. Tail(s)[1] = s[2] /\ Tail(s)[Len(Tail(s))] = s[Len(s)]
  <2>1. 1 \in 1..(Len(s) - 1) /\ Len(s) - 1 \in 1..(Len(s) - 1)
    BY <1>2, <1>4
  <2>2. Tail(s)[1] = s[1 + 1] /\ Tail(s)[Len(s) - 1] = s[(Len(s) - 1) + 1]
    BY <1>2, <2>1
  <2>3. 1 + 1 = 2 /\ (Len(s) - 1) + 1 = Len(s)
    BY <1>2
  <2>4. Tail(s)[1] = s[2] /\ Tail(s)[Len(s) - 1] = s[Len(s)]
    BY <2>2, <2>3
  <2> QED BY <1>2, <2>4
<1> QED BY <1>1, <1>2, <1>3, <1>4, <1>5

\* The rest of a course is one.
LEMMA CourseTail ==
  ASSUME NEW max, NEW s, Path(s), s[1].type \notin Awaits \cup Ends, NEW A, Course(max, s, A)
  PROVE  Course(max, Tail(s), A)
<1>1. /\ s \in Seq(Items) /\ s # <<>> /\ Len(s) \in Nat /\ Len(s) > 1
      /\ Len(Tail(s)) = Len(s) - 1
      /\ \A i \in 1..(Len(s) - 1) : Tail(s)[i] = s[i + 1]
      /\ Tail(s)[Len(Tail(s))] = s[Len(s)]
  BY RestIs
<1>2. ASSUME NEW i \in 1..Len(Tail(s)), NEW j \in 1..Len(Tail(s)), i < j,
             Tail(s)[j].type \in Preludes \cup {"append"}
      PROVE  Tail(s)[i].type \in Preludes
  <2>1. /\ i + 1 \in 1..Len(s) /\ j + 1 \in 1..Len(s) /\ i + 1 < j + 1
        /\ Tail(s)[i] = s[i + 1] /\ Tail(s)[j] = s[j + 1]
    BY <1>1, <1>2
  <2> QED BY <1>2, <2>1 DEF Course, Ordered
<1>3. ASSUME NEW q \in Positions(Tail(s), Preludes \cup {"append"})
      PROVE  s[1].type \in Preludes
  <2>1. q + 1 \in 1..Len(s) /\ 1 \in 1..Len(s) /\ 1 < q + 1 /\ Tail(s)[q] = s[q + 1]
    BY <1>1 DEF Positions
  <2>2. s[q + 1].type \in Preludes \cup {"append"}
    BY <2>1 DEF Positions
  <2> QED BY <2>1, <2>2 DEF Course, Ordered
<1>4. \A types : Positions(s, types) # {} =>
        s[1].type \in types \/ Positions(Tail(s), types) # {}
  BY <1>1, PositionsTail
<1>5. \A types : Positions(Tail(s), types) # {} => Positions(s, types) # {}
  BY <1>1, PositionsTail
<1>6. Positions(Tail(s), Preludes) # {} => Positions(Tail(s), {"append"}) # {}
  <2> SUFFICES ASSUME Positions(Tail(s), Preludes) # {}
               PROVE  Positions(Tail(s), {"append"}) # {}
    OBVIOUS
  <2>1. PICK q : q \in Positions(Tail(s), Preludes)
    OBVIOUS
  <2>2. s[1].type \in Preludes
    BY <1>3, <2>1 DEF Positions
  <2>3. s[1].type \notin {"append"}
    BY <2>2 DEF Preludes
  <2>4. Positions(s, {"append"}) # {}
    BY <1>5 DEF Course, Ordered
  <2> QED BY <1>4, <2>3, <2>4
<1>7. Positions(Tail(s), {"append"}) # {} => Positions(Tail(s), AttemptEnds) # {}
  <2> SUFFICES ASSUME Positions(Tail(s), {"append"}) # {}
               PROVE  Positions(Tail(s), AttemptEnds) # {}
    OBVIOUS
  <2>1. PICK q : q \in Positions(Tail(s), {"append"})
    OBVIOUS
  <2>2. s[1].type \in Preludes
    BY <1>3, <2>1 DEF Positions
  <2>3. s[1].type \notin AttemptEnds
    BY <2>2 DEF Preludes, AttemptEnds
  <2>4. Positions(s, AttemptEnds) # {}
    BY <1>5 DEF Course, Ordered
  <2> QED BY <1>4, <2>3, <2>4
<1>8. ASSUME NEW i \in 1..(Len(Tail(s)) - 1)
      PROVE  /\ Tail(s)[i].type \in OperationEnds <=> Tail(s)[i + 1].type \in Ends
             /\ Tail(s)[i].type = "operation.succeeded" <=> Tail(s)[i + 1].type = "returned"
             /\ Tail(s)[i].type = "retry.scheduled" <=> Tail(s)[i + 1].type = "sleep"
             /\ Tail(s)[i + 1].type = "sleep" => Tail(s)[i].limited = Tail(s)[i + 1].limited
  <2>1. /\ i + 1 \in 1..(Len(s) - 1)
        /\ Tail(s)[i] = s[i + 1] /\ Tail(s)[i + 1] = s[(i + 1) + 1]
    BY <1>1
  <2> QED BY <2>1 DEF Course, Ordered
<1>9. Ordered(Tail(s))
  BY <1>2, <1>6, <1>7, <1>8 DEF Ordered
<1>10. ASSUME NEW i \in 1..Len(Tail(s))
       PROVE  /\ Fits(max, Tail(s)[i], A)
              /\ Tail(s)[i].type \in Preludes \cup AttemptEnds => Tail(s)[i].n = Len(A)
  <2>1. i + 1 \in 1..Len(s) /\ Tail(s)[i] = s[i + 1]
    BY <1>1
  <2> QED BY <2>1 DEF Course
<1>11. Leads(max, Tail(s)[Len(Tail(s))], A)
  BY <1>1 DEF Course
<1> QED BY <1>9, <1>10, <1>11 DEF Course

\* The attempts that are recorded, or about to be, stay the same.
LEMMA WrittenTail ==
  ASSUME NEW s, Path(s), s[1].type \notin Awaits \cup Ends, Ordered(s),
         NEW past, NEW A \in Written(past, s)
  PROVE  /\ s[1].type # "append" => A \in Written(past, Tail(s))
         /\ s[1].type = "append" => A = Append(past, s[1].attempt) /\ A \in Written(A, Tail(s))
         /\ s[1].type \notin Preludes \cup {"append"} => A = past
<1>1. /\ s \in Seq(Items) /\ s # <<>> /\ Len(s) \in Nat /\ Len(s) > 1
      /\ \A i \in 1..(Len(s) - 1) : Tail(s)[i] = s[i + 1]
  BY RestIs
<1>2. ASSUME NEW q \in Positions(s, {"append"}), q # 1
      PROVE  s[1].type \in Preludes
  <2>1. q \in 1..Len(s) /\ 1 \in 1..Len(s) /\ 1 < q /\ s[q].type \in Preludes \cup {"append"}
    BY <1>1, <1>2 DEF Positions
  <2> QED BY <2>1 DEF Ordered
<1>3. s[1].type \in Preludes => s[1].type # "append"
  BY DEF Preludes
<1>4. \A q \in Positions(Tail(s), {"append"}) :
        q + 1 \in Positions(s, {"append"}) /\ q + 1 # 1 /\ Tail(s)[q] = s[q + 1]
  <2> SUFFICES ASSUME NEW q \in Positions(Tail(s), {"append"})
               PROVE  q + 1 \in Positions(s, {"append"}) /\ q + 1 # 1 /\ Tail(s)[q] = s[q + 1]
    OBVIOUS
  <2>1. q \in Nat \ {0} /\ q + 1 \in Positions(s, {"append"})
    BY <1>1, PositionsTail
  <2>2. q + 1 \in 1..Len(s)
    BY <1>1, <2>1 DEF Positions
  <2> QED BY <1>1, <2>1, <2>2
<1>5. \A q \in Positions(s, {"append"}) : q # 1 =>
        q - 1 \in Positions(Tail(s), {"append"}) /\ Tail(s)[q - 1] = s[q]
  <2> SUFFICES ASSUME NEW q \in Positions(s, {"append"}), q # 1
               PROVE  q - 1 \in Positions(Tail(s), {"append"}) /\ Tail(s)[q - 1] = s[q]
    OBVIOUS
  <2>1. q - 1 \in Positions(Tail(s), {"append"}) /\ q - 1 \in 1..(Len(s) - 1)
    BY <1>1, PositionsTail DEF Positions
  <2>2. Tail(s)[q - 1] = s[(q - 1) + 1] /\ q \in Nat
    BY <1>1, <2>1 DEF Positions
  <2> QED BY <2>1, <2>2
<1>6. CASE s[1].type = "append"
  <2>1. 1 \in Positions(s, {"append"})
    BY <1>1, <1>6 DEF Positions
  <2>2. \A q \in Positions(s, {"append"}) : q = 1
    BY <1>2, <1>3, <1>6
  <2>3. A = Append(past, s[1].attempt)
    BY <2>1, <2>2 DEF Written
  <2>4. Positions(Tail(s), {"append"}) = {}
    BY <1>4, <2>2
  <2> QED BY <1>6, <2>3, <2>4 DEF Written
<1>7. CASE s[1].type # "append"
  <2>1. 1 \notin Positions(s, {"append"})
    BY <1>7 DEF Positions
  <2>2. CASE Positions(s, {"append"}) = {}
    <3>1. Positions(Tail(s), {"append"}) = {}
      BY <1>4, <2>2
    <3> QED BY <1>7, <2>2, <3>1 DEF Written
  <2>3. CASE Positions(s, {"append"}) # {}
    <3>1. PICK q \in Positions(s, {"append"}) : A = Append(past, s[q].attempt)
      BY <2>3 DEF Written
    <3>2. q # 1 /\ s[1].type \in Preludes
      BY <1>2, <2>1, <3>1
    <3>3. q - 1 \in Positions(Tail(s), {"append"}) /\ A = Append(past, Tail(s)[q - 1].attempt)
      BY <1>5, <3>1, <3>2
    <3>4. A \in Written(past, Tail(s))
      BY <3>3 DEF Written
    <3> QED BY <1>7, <3>2, <3>4
  <2> QED BY <2>2, <2>3
<1> QED BY <1>6, <1>7

\* A sink's rate-limited retries can be counted.
LEMMA RetriesCounted ==
  ASSUME NEW r \in Seq(Items)
  PROVE  /\ IsFiniteSet(LimitedRetries(r)) /\ Cardinality(LimitedRetries(r)) \in Nat
         /\ LimitedRetries(r) \subseteq 1..Len(r) /\ Len(r) \in Nat
<1>1. Len(r) \in Nat /\ DOMAIN r = 1..Len(r)
  BY LenProperties
<1>2. LimitedRetries(r) \subseteq 1..Len(r)
  BY <1>1 DEF LimitedRetries, Positions
<1>3. IsFiniteSet(1..Len(r))
  BY <1>1, FS_Interval
<1> QED BY <1>1, <1>2, <1>3, FS_Subset, FS_CardinalityType


\* An event that a sink takes is told in the one half instead of the other.
LEMMA EventMoves ==
  ASSUME NEW max, NEW r \in Seq(Items), NEW s, Path(s),
         s[1].type \notin Awaits \cup Ends \cup {"append"},
         NEW past, NEW A \in Written(past, s), A \in Seq(AttemptType),
         Course(max, s, A), Tale(max, r, s, past, A)
  PROVE  Tale(max, Append(r, s[1]), Tail(s), past, A)
<1> DEFINE e == Append(r, s[1])
<1>1. /\ s \in Seq(Items) /\ s # <<>> /\ s[1] \in Items /\ Len(s) \in Nat /\ Len(s) > 1
      /\ Tail(s)[1] = s[2] /\ Tail(s)[Len(Tail(s))] = s[Len(s)]
  BY RestIs
<1>2. Len(A) \in Nat /\ Primary(A) \in Int
  BY DEF Primary
<1>3. /\ e \in Seq(Items) /\ Len(e) = Len(r) + 1 /\ Len(r) \in Nat
      /\ \A p \in 1..Len(r) : e[p] = r[p]
      /\ e[Len(r) + 1] = s[1]
  BY <1>1, PositionsAppend
<1>4. Positions(e, OperationEnds)
        = Positions(r, OperationEnds) \cup (IF s[1].type \in OperationEnds THEN {Len(e)} ELSE {})
  BY <1>1, <1>3, PositionsAppend
<1>5. \A type, i : Has(e, type, i) \/ Has(Tail(s), type, i) <=> Has(r, type, i) \/ Has(s, type, i)
  BY <1>1, HasAppend, HasTail
<1> HIDE DEF e
<1>6. ASSUME NEW p \in 1..Len(e)
      PROVE  /\ Fits(max, e[p], A)
             /\ e[p].type \in {"fallback.started", "operation.failed"} => GivenUp(max, past)
  <2>1. CASE p \in 1..Len(r)
    BY <1>3, <2>1 DEF Tale
  <2>2. CASE p = Len(r) + 1
    <3>1. e[p] = s[1] /\ Fits(max, s[1], A)
      BY <1>1, <1>3, <2>2 DEF Course
    <3>2. s[1].type \in {"fallback.started", "operation.failed"} =>
            s[1].type \notin Preludes \cup {"append"}
      BY DEF Preludes
    <3>3. s[1].type \in {"fallback.started", "operation.failed"} => A = past
      BY <3>2, WrittenTail DEF Course
    <3> QED BY <3>1, <3>3 DEF Fits
  <2>3. p \in 1..Len(r) \/ p = Len(r) + 1
    BY <1>3
  <2> QED BY <2>1, <2>2, <2>3
<1>7. \A i \in 1..Len(A) : Heard(e, Tail(s), i, A[i])
  BY <1>5 DEF Tale, Heard
<1>8. \A types : \A m \in Int : Once(r, s, types, m) => Once(e, Tail(s), types, m)
  BY <1>1, OnceMoves DEF e
<1>9. Once(e, Tail(s), AttemptEnds, Len(A))
  BY <1>2, <1>8 DEF Tale
<1>10. Once(e, Tail(s), {"attempt.started"},
            IF Tail(s)[Len(Tail(s))].type = "call" THEN Len(A) + 1 ELSE Primary(A))
  <2>1. (IF s[Len(s)].type = "call" THEN Len(A) + 1 ELSE Primary(A)) \in Int
    BY <1>2
  <2> QED BY <1>1, <1>8, <2>1 DEF Tale
<1>11. Once(e, Tail(s), {"retry.scheduled"},
            IF Tail(s)[Len(Tail(s))].type \in {"call", "sleep"} THEN Len(A) ELSE Primary(A) - 1)
  <2>1. (IF s[Len(s)].type \in {"call", "sleep"} THEN Len(A) ELSE Primary(A) - 1) \in Int
    BY <1>2
  <2> QED BY <1>1, <1>8, <2>1 DEF Tale
<1>12. /\ s[1].type \in OperationEnds <=> s[2].type \in Ends
       /\ s[1].type = "operation.succeeded" <=> s[2].type = "returned"
  <2>1. 1 \in 1..(Len(s) - 1) /\ 1 + 1 = 2
    BY <1>1
  <2> QED BY <2>1 DEF Course, Ordered
<1>13. Positions(r, OperationEnds) = {}
  BY DEF Tale
<1>14. Positions(e, OperationEnds) = IF Tail(s)[1].type \in Ends THEN {Len(e)} ELSE {}
  BY <1>1, <1>4, <1>12, <1>13
<1>15. Tail(s)[1].type = "returned" <=> e[Len(e)].type = "operation.succeeded"
  BY <1>1, <1>3, <1>12
<1> QED BY <1>6, <1>7, <1>9, <1>10, <1>11, <1>14, <1>15 DEF Tale, e

\* An announced delay is waited for next.
LEMMA EventCounts ==
  ASSUME NEW max, NEW r \in Seq(Items), NEW s, Path(s), NEW A, Course(max, s, A),
         s[1].type \notin Awaits \cup Ends \cup {"append"},
         NEW l, l.waits \in Nat, Waited(l, r, s)
  PROVE  Waited(l, Append(r, s[1]), Tail(s))
<1> DEFINE e == Append(r, s[1])
           L == LimitedRetries(r)
<1>1. /\ s \in Seq(Items) /\ s # <<>> /\ s[1] \in Items /\ Len(s) \in Nat /\ Len(s) > 1
      /\ Tail(s)[1] = s[2]
  BY RestIs
<1>2. /\ s[1].type = "retry.scheduled" <=> s[2].type = "sleep"
      /\ s[2].type = "sleep" => s[1].limited = s[2].limited
  <2>1. 1 \in 1..(Len(s) - 1) /\ 1 + 1 = 2
    BY <1>1
  <2> QED BY <2>1 DEF Course, Ordered
<1>3. Cardinality(L) = l.waits
  BY DEF Waited, Awaits
<1>4. IsFiniteSet(L) /\ L \subseteq 1..Len(r) /\ Len(r) \in Nat
  BY RetriesCounted
<1>5. /\ \A p \in 1..Len(r) : e[p] = r[p]
      /\ e[Len(r) + 1] = s[1]
      /\ Positions(e, {"retry.scheduled"}) = Positions(r, {"retry.scheduled"})
           \cup (IF s[1].type \in {"retry.scheduled"} THEN {Len(r) + 1} ELSE {})
      /\ \A p \in Positions(r, {"retry.scheduled"}) : p \in 1..Len(r)
  BY <1>1, PositionsAppend DEF Positions
<1> HIDE DEF e
<1>6. CASE s[1].type = "retry.scheduled" /\ s[1].limited
  <2>1. LimitedRetries(e) = L \cup {Len(r) + 1}
    BY <1>5, <1>6 DEF LimitedRetries
  <2>2. Len(r) + 1 \notin L
    BY <1>4
  <2>3. Cardinality(LimitedRetries(e)) = Cardinality(L) + 1
    BY <1>4, <2>1, <2>2, FS_AddElement
  <2> QED BY <1>1, <1>2, <1>3, <1>6, <2>3 DEF Waited, e
<1>7. CASE ~(s[1].type = "retry.scheduled" /\ s[1].limited)
  <2>1. LimitedRetries(e) = L
    BY <1>5, <1>7 DEF LimitedRetries
  <2>2. ~(s[2].type = "sleep" /\ s[2].limited)
    BY <1>2, <1>7
  <2> QED BY <1>1, <1>3, <2>1, <2>2 DEF Waited, e
<1> QED BY <1>6, <1>7

\* A record changes no half of the story.
LEMMA RecordMoves ==
  ASSUME NEW max, NEW r \in Seq(Items), NEW s, Path(s), s[1].type = "append",
         NEW past, NEW A, Course(max, s, A), Tale(max, r, s, past, A), NEW l, Waited(l, r, s)
  PROVE  Tale(max, r, Tail(s), A, A) /\ Waited(l, r, Tail(s))
<1>1. /\ s \in Seq(Items) /\ s # <<>> /\ s[1] \in Items /\ Len(s) \in Nat /\ Len(s) > 1
      /\ Tail(s)[1] = s[2] /\ Tail(s)[Len(Tail(s))] = s[Len(s)]
  BY RestIs DEF Awaits, Ends
<1>2. s[1].type \notin AttemptEnds \cup OperationEnds \cup Ends \cup
        {"attempt.started", "retry.scheduled", "sleep"}
  BY DEF AttemptEnds, OperationEnds, Ends
<1>3. s[2].type \notin Ends /\ s[2].type # "sleep"
  <2>1. 1 \in 1..(Len(s) - 1) /\ 1 + 1 = 2
    BY <1>1
  <2> QED BY <1>2, <2>1 DEF Course, Ordered
<1>4. \A p \in 1..Len(r) :
        /\ Fits(max, r[p], A)
        /\ r[p].type \in {"fallback.started", "operation.failed"} => GivenUp(max, A)
  BY DEF Tale, Fits
<1>5. \A i \in 1..Len(A) : Heard(r, Tail(s), i, A[i])
  <2>1. \A type \in Preludes : \A i : Has(Tail(s), type, i) <=> Has(s, type, i)
    <3>1. "append" \notin Preludes
      BY DEF Preludes
    <3> QED BY <1>1, <3>1, HasTail
  <2>2. \A type \in {"validation.succeeded", "validation.failed", "circuit_breaker.rejected",
                     "rate_limit.detected", "rate_limit.wait_exceeded"} : type \in Preludes
    BY DEF Preludes
  <2> QED BY <2>1, <2>2 DEF Tale, Heard
<1>6. \A types, m : s[1].type \notin types /\ Once(r, s, types, m) => Once(r, Tail(s), types, m)
  BY <1>1, OnceDrops
<1>7. /\ Once(r, Tail(s), AttemptEnds, Len(A))
      /\ Once(r, Tail(s), {"attempt.started"},
              IF Tail(s)[Len(Tail(s))].type = "call" THEN Len(A) + 1 ELSE Primary(A))
      /\ Once(r, Tail(s), {"retry.scheduled"},
              IF Tail(s)[Len(Tail(s))].type \in {"call", "sleep"} THEN Len(A) ELSE Primary(A) - 1)
  BY <1>1, <1>2, <1>6 DEF Tale
<1>8. Tale(max, r, Tail(s), A, A)
  BY <1>1, <1>2, <1>3, <1>4, <1>5, <1>7 DEF Tale
<1>9. Waited(l, r, Tail(s))
  BY <1>1, <1>2, <1>3 DEF Waited
<1> QED BY <1>8, <1>9


-----------------------------------------------------------------------------
(* What the story says at any moment                                       *)

\* The primary attempts of a run are the first ones.
LEMMA PrimariesAre ==
  ASSUME NEW max, NEW A, Ran(max, A)
  PROVE  /\ Len(A) \in Nat /\ DOMAIN A = 1..Len(A)
         /\ Primary(A) \in Nat /\ Primaries(A) = 1..Primary(A)
         /\ Cardinality(Primaries(A)) = Primary(A)
         /\ Len(A) > 0 => 0 < Primary(A) /\ Primary(A) <= max
<1> A \in Seq(AttemptType)
  BY DEF Ran
<1>1. Len(A) \in Nat
  OBVIOUS
<1>5. DOMAIN A = 1..Len(A)
  OBVIOUS
<1>2. /\ Len(A) = 0 <=> A = <<>>
      /\ \A i \in 1..Len(A) : i < Len(A) => ~A[i].fallback
      /\ Len(A) > 0 /\ A[Len(A)].fallback => Len(A) > 1
  BY <1>1 DEF Ran
<1>3. CASE A # <<>> /\ A[Len(A)].fallback
  <2>1. Primary(A) = Len(A) - 1 /\ Len(A) > 1
    BY <1>1, <1>2, <1>3 DEF Primary
  <2>2. ASSUME NEW i \in 1..Len(A) PROVE ~A[i].fallback <=> i \in 1..(Len(A) - 1)
    <3>1. CASE i < Len(A)
      BY <1>1, <1>2, <3>1
    <3>2. CASE i = Len(A)
      BY <1>1, <1>3, <3>2
    <3> QED BY <1>1, <3>1, <3>2
  <2>3. Primaries(A) = 1..(Len(A) - 1)
    <3>1. Primaries(A) = {i \in 1..Len(A) : i \in 1..(Len(A) - 1)}
      BY <1>5, <2>2 DEF Primaries
    <3> QED BY <1>1, <3>1
  <2>4. Cardinality(1..(Len(A) - 1)) = Len(A) - 1
    BY <1>1, <2>1, FS_Interval
  <2> QED BY <1>1, <1>5, <2>1, <2>3, <2>4 DEF Ran
<1>4. CASE ~(A # <<>> /\ A[Len(A)].fallback)
  <2>1. Primary(A) = Len(A)
    BY <1>4 DEF Primary
  <2>2. \A i \in 1..Len(A) : ~A[i].fallback
    <3>1. ASSUME NEW i \in 1..Len(A) PROVE ~A[i].fallback
      <4>1. CASE i < Len(A)
        BY <1>2, <4>1
      <4>2. CASE i = Len(A)
        <5>1. Len(A) # 0
          BY <1>1
        <5> QED BY <1>2, <1>4, <4>2, <5>1
      <4> QED BY <1>1, <4>1, <4>2
    <3> QED BY <3>1
  <2>3. Primaries(A) = 1..Len(A)
    BY <1>5, <2>2 DEF Primaries
  <2>4. Cardinality(1..Len(A)) = Len(A)
    <3>1. Cardinality(1..Len(A)) = IF 1 > Len(A) THEN 0 ELSE Len(A) - 1 + 1
      BY <1>1, FS_Interval
    <3> QED BY <1>1, <3>1
  <2> QED BY <1>1, <1>5, <2>1, <2>3, <2>4 DEF Ran
<1> QED BY <1>3, <1>4

\* The recorded attempts are those of the story, or all but its last one,
\* of which nothing after its prelude has been told.
LEMMA RecordedAre ==
  ASSUME NEW s, Ordered(s), NEW past \in Seq(AttemptType),
         NEW A \in Seq(AttemptType), A \in Written(past, s)
  PROVE  /\ Len(A) \in {Len(past), Len(past) + 1} /\ Len(past) \in Nat
         /\ \A i \in 1..Len(past) : A[i] = past[i]
         /\ Len(A) = Len(past) => A = past
         /\ Len(A) # Len(past) => Positions(s, AttemptEnds) # {}
<1>1. A \in Seq(AttemptType) /\ Len(A) \in Nat /\ Len(past) \in Nat
  BY LenProperties
<1>2. CASE Positions(s, {"append"}) = {}
  BY <1>1, <1>2 DEF Written
<1>3. CASE Positions(s, {"append"}) # {}
  <2>1. PICK q \in Positions(s, {"append"}) : A = Append(past, s[q].attempt)
    BY <1>3 DEF Written
  <2>2. Len(A) = Len(past) + 1 /\ \A i \in 1..Len(past) : A[i] = past[i]
    BY <1>1, <2>1
  <2>3. Positions(s, AttemptEnds) # {}
    BY <1>3 DEF Ordered
  <2> QED BY <1>1, <2>2, <2>3
<1> QED BY <1>2, <1>3

\* What a sink has received follows the recorded attempts.
LEMMA TaleFollows ==
  ASSUME NEW max, NEW r \in Seq(Items), NEW s \in Seq(Items),
         NEW past \in Seq(AttemptType), NEW A \in Written(past, s), Ran(max, A),
         Course(max, s, A), Tale(max, r, s, past, A)
  PROVE  Follow(r, past)
<1> DEFINE m == IF Positions(s, AttemptEnds) = {} THEN Len(A) ELSE Len(A) - 1
<1>1. /\ Len(A) \in {Len(past), Len(past) + 1} /\ Len(past) \in Nat
      /\ \A i \in 1..Len(past) : A[i] = past[i]
      /\ Len(A) = Len(past) => A = past
      /\ Len(A) # Len(past) => Positions(s, AttemptEnds) # {}
  <2>1. Ordered(s) /\ A \in Seq(AttemptType)
    BY DEF Course, Ran
  <2> QED BY <2>1, RecordedAre
<1>2. m \in {Len(past), Len(past) - 1} /\ OnceEach(r, AttemptEnds, 1..m)
  <2>1. m \in {Len(past), Len(past) - 1}
    BY <1>1
  <2> QED BY <2>1 DEF Tale, Once
<1>3. ASSUME NEW type \in Preludes, NEW i, Has(s, type, i)
      PROVE  i = Len(A) /\ m = Len(A) - 1
  <2>1. PICK q \in Positions(s, {type}) : s[q].n = i
    BY <1>3 DEF Has
  <2>2. q \in 1..Len(s) /\ q \in Positions(s, Preludes)
    BY <1>3, <2>1 DEF Positions
  <2>3. Positions(s, AttemptEnds) # {}
    BY <2>2 DEF Course, Ordered
  <2>4. s[q].n = Len(A)
    BY <1>3, <2>1, <2>2 DEF Course, Positions
  <2> QED BY <2>1, <2>3, <2>4
<1> HIDE DEF m
<1>4. ASSUME NEW p \in Positions(r, AttemptEnds)
      PROVE  LET i == r[p].n
             IN /\ r[p].type = "attempt.succeeded" <=> past[i].status = "succeeded"
                /\ ToldAlike(r, i, past[i])
  <2> DEFINE i == r[p].n
  <2>1. p \in 1..Len(r) /\ r[p].type \in AttemptEnds
    BY DEF Positions
  <2>2. i \in 1..m
    BY <1>2 DEF OnceEach
  <2>9. r[p].type = "attempt.succeeded" <=> A[i].status = "succeeded"
    BY <2>1 DEF Tale, Fits
  <2>10. i = r[p].n
    OBVIOUS
  <2> HIDE DEF i
  <2>3. i \in 1..Len(past) /\ i \in 1..Len(A) /\ i <= m /\ A[i] = past[i]
    BY <1>1, <1>2, <2>2
  <2>5. \A type \in Preludes : ~Has(s, type, i)
    BY <1>1, <1>3, <2>3
  <2>6. Heard(r, s, i, A[i])
    BY <2>3 DEF Tale
  <2>7. \A q \in Positions(r, {"retry.scheduled"}) : r[q].n = i =>
          A[i].retryable /\ (r[q].limited <=> "limited" \in A[i].meta.flags)
    <3>1. ASSUME NEW q \in Positions(r, {"retry.scheduled"}), r[q].n = i
          PROVE  A[i].retryable /\ (r[q].limited <=> "limited" \in A[i].meta.flags)
      <4>1. q \in 1..Len(r) /\ r[q].type = "retry.scheduled"
        BY DEF Positions
      <4>2. A[r[q].n].retryable /\ (r[q].limited <=> "limited" \in A[r[q].n].meta.flags)
        BY <4>1 DEF Tale, Fits
      <4> QED BY <3>1, <4>2
    <3> QED BY <3>1
  <2>8. ToldAlike(r, i, A[i])
    <3>1. /\ "validation.succeeded" \in Preludes /\ "validation.failed" \in Preludes
          /\ "circuit_breaker.rejected" \in Preludes
          /\ "rate_limit.detected" \in Preludes /\ "rate_limit.wait_exceeded" \in Preludes
      BY DEF Preludes
    <3> QED BY <2>5, <2>6, <2>7, <3>1 DEF Heard, ToldAlike
  <2> QED BY <2>3, <2>9, <2>10, <2>8 DEF i
<1>5. \E k \in {Len(past), Len(past) - 1} : OnceEach(r, AttemptEnds, 1..k)
  BY <1>2
<1> QED BY <1>4, <1>5 DEF Follow

\* At the end the report says what every sink has been told.
LEMMA TaleAgrees ==
  ASSUME NEW max, NEW r \in Seq(Items), NEW s, Path(s), s[1].type \in Ends,
         NEW A, A # <<>>, Ran(max, A), Tale(max, r, s, A, A),
         NEW l, Limits(l, A), Waited(l, r, s),
         NEW rep, rep.limits = l, rep.retries = RetryCount(A),
         rep.status = "succeeded" <=> s[1].type = "returned"
  PROVE  Agrees(r, rep, Len(A), Cardinality(Primaries(A)))
<1>1. Len(s) = 1 /\ s \in Seq(Items) /\ s[Len(s)] = s[1]
  <2>1. s \in Seq(Items) /\ Len(s) \in Nat \ {0}
    BY DEF Path
  <2>2. 1 \in 1..Len(s)
    BY <2>1
  <2>3. s[1].type \in Awaits \cup Ends
    OBVIOUS
  <2>4. 1 = Len(s)
    BY <2>2, <2>3 DEF Path
  <2> QED BY <2>1, <2>4
<1>2. \A types : s[1].type \notin types => Positions(s, types) = {}
  BY <1>1 DEF Positions
<1>3. s[1].type \notin Preludes \cup AttemptEnds \cup
        {"attempt.started", "retry.scheduled", "sleep", "call"}
  BY DEF Ends, Preludes, AttemptEnds
<1>4. /\ Len(A) \in Nat /\ Len(A) > 0
      /\ Primary(A) \in Nat /\ Cardinality(Primaries(A)) = Primary(A)
      /\ Primary(A) > 0 /\ Primaries(A) = 1..Primary(A)
  <2>1. A \in Seq(AttemptType)
    BY DEF Ran
  <2>2. Len(A) > 0 /\ Len(A) \in Nat
    BY <2>1
  <2> QED BY <2>2, PrimariesAre
<1>5. rep.retries = Primary(A) - 1
  BY <1>4 DEF RetryCount
<1>6. OnceEach(r, AttemptEnds, 1..Len(A))
  <2>1. Positions(s, AttemptEnds) = {}
    BY <1>2, <1>3
  <2> QED BY <2>1 DEF Tale, Once
<1>7. OnceEach(r, {"attempt.started"}, 1..Primary(A))
  <2>1. Positions(s, {"attempt.started"}) = {} /\ s[Len(s)].type # "call"
    BY <1>1, <1>2, <1>3
  <2> QED BY <2>1 DEF Tale, Once
<1>8. OnceEach(r, {"retry.scheduled"}, 1..rep.retries)
  <2>1. Positions(s, {"retry.scheduled"}) = {} /\ s[Len(s)].type \notin {"call", "sleep"}
    BY <1>1, <1>2, <1>3
  <2> QED BY <1>5, <2>1 DEF Tale, Once
<1>9. \A type \in Preludes : \A i : ~Has(s, type, i)
  BY <1>2, <1>3 DEF Has
<1>10. \A type \in Preludes : Positions(r, {type}) # {} <=> \E i \in 1..Len(A) : Has(r, type, i)
  <2> SUFFICES ASSUME NEW type \in Preludes
               PROVE  Positions(r, {type}) # {} <=> \E i \in 1..Len(A) : Has(r, type, i)
    OBVIOUS
  <2>1. \A p \in Positions(r, {type}) : r[p].n \in 1..Len(A)
    BY DEF Positions, Tale, Fits
  <2> QED BY <2>1 DEF Has
<1>11. l.encountered <=> Positions(r, {"rate_limit.detected"}) # {}
  <2>1. "rate_limit.detected" \in Preludes
    BY DEF Preludes
  <2>2. \A i \in 1..Len(A) : "limited" \in A[i].meta.flags <=> Has(r, "rate_limit.detected", i)
    BY <1>9, <2>1 DEF Tale, Heard
  <2> QED BY <1>10, <2>1, <2>2 DEF Limits
<1>12. l.exceeded <=> Positions(r, {"rate_limit.wait_exceeded"}) # {}
  <2>1. "rate_limit.wait_exceeded" \in Preludes
    BY DEF Preludes
  <2>2. \A i \in 1..Len(A) :
          "exceeded" \in A[i].meta.flags <=> Has(r, "rate_limit.wait_exceeded", i)
    BY <1>9, <2>1 DEF Tale, Heard
  <2> QED BY <1>10, <2>1, <2>2 DEF Limits
<1>13. l.waits = Cardinality({p \in Positions(r, {"retry.scheduled"}) : r[p].limited})
  BY <1>3 DEF Waited, Limits, LimitedRetries
<1>14. /\ Positions(r, OperationEnds) = {Len(r)}
       /\ r[Len(r)].type = "operation.succeeded" <=> rep.status = "succeeded"
  BY DEF Tale
<1> QED BY <1>4, <1>6, <1>7, <1>8, <1>11, <1>12, <1>13, <1>14 DEF Agrees, Last


\* Retries come first, and the attempts are numbered.
LEMMA RetriesOf ==
  ASSUME NEW max, NEW s, Path(s), NEW past \in Seq(AttemptType), NEW A \in Written(past, s),
         Ran(max, A), Course(max, s, A), NEW l, Limits(l, A)
  PROVE  /\ \A i \in 1..Len(past) : past[i].number = i
         /\ \A i, j \in Primaries(past) : i < j => past[i].retryable
         /\ s[1].type = "candidate" => GivenUp(max, past)
         /\ l.exceeded => \A i \in 1..Len(s) : s[i].type \notin {"call", "sleep"}
<1> A \in Seq(AttemptType)
  BY DEF Ran
<1>1. s \in Seq(Items) /\ Len(s) \in Nat \ {0} /\ Ordered(s)
  BY DEF Path, Course
<1>2. /\ Len(A) \in {Len(past), Len(past) + 1} /\ Len(past) \in Nat
      /\ \A i \in 1..Len(past) : A[i] = past[i]
  BY <1>1, RecordedAre
<1>3. \A i \in 1..Len(past) : past[i].number = i
  <2>1. \A i \in 1..Len(past) : i \in 1..Len(A)
    BY <1>2
  <2>2. \A i \in 1..Len(A) : A[i].number = i
    BY DEF Ran
  <2> QED BY <1>2, <2>1, <2>2
<1>4. ASSUME NEW i \in Primaries(past), NEW j \in Primaries(past), i < j
      PROVE  past[i].retryable
  <2>1. i \in 1..Len(past) /\ j \in 1..Len(past) /\ ~past[j].fallback
    BY DEF Primaries
  <2>2. j \in 1..Len(A) /\ i \in 1..Len(A) /\ ~A[j].fallback /\ A[i] = past[i] /\ Len(A) \in Nat
    BY <1>2, <2>1
  <2>3. i < Primary(A)
    <3>1. CASE A # <<>> /\ A[Len(A)].fallback
      <4>1. j # Len(A) /\ Primary(A) = Len(A) - 1
        BY <2>2, <3>1 DEF Primary
      <4> QED BY <1>4, <2>1, <2>2, <4>1
    <3>2. CASE ~(A # <<>> /\ A[Len(A)].fallback)
      <4>1. Primary(A) = Len(A)
        BY <3>2 DEF Primary
      <4> QED BY <1>4, <2>1, <2>2, <4>1
    <3> QED BY <3>1, <3>2
  <2>4. A[i].retryable
    BY <2>2, <2>3 DEF Ran
  <2> QED BY <2>2, <2>4
<1>5. ASSUME s[1].type = "candidate" PROVE GivenUp(max, past)
  <2>1. Len(s) = 1
    <3>1. 1 \in 1..Len(s) /\ s[1].type \in Awaits \cup Ends
      BY <1>1, <1>5 DEF Awaits
    <3>2. 1 = Len(s)
      BY <3>1 DEF Path
    <3> QED BY <3>2
  <2>2. Positions(s, {"append"}) = {}
    BY <1>1, <1>5, <2>1 DEF Positions
  <2>3. A = past
    BY <2>2 DEF Written
  <2> QED BY <1>5, <2>1, <2>3 DEF Course, Leads
<1>6. ASSUME l.exceeded, NEW i \in 1..Len(s), s[i].type \in {"call", "sleep"} PROVE FALSE
  <2>1. i = Len(s)
    BY <1>6 DEF Path, Awaits
  <2>2. MayGoOn(max, A)
    BY <1>6, <2>1 DEF Course, Leads
  <2>3. PICK k \in 1..Len(A) : "exceeded" \in A[k].meta.flags
    BY <1>6 DEF Limits
  <2>4. ~A[k].retryable
    BY <2>3 DEF Ran
  <2>5. A[k].retryable
    BY <2>2 DEF MayGoOn
  <2> QED BY <2>4, <2>5
<1> QED BY <1>3, <1>4, <1>5, <1>6

-----------------------------------------------------------------------------
(* The steps of the story                                                  *)

\* Where the story goes on, it says what it should.
LEMMA TellsOn ==
  ASSUME cfg' = cfg, cfg \in Configs, result'.kind = "running", Path(todo'),
         received' \in [Sinks -> Seq(Items)], attempts' \in Seq(AttemptType),
         NEW A \in Written(attempts', todo'),
         Ran(cfg.maxAttempts, A), Limits(limits', A), Course(cfg.maxAttempts, todo', A),
         \A t \in Sinks : /\ Rest(t)' \in Seq(Items) /\ A \in Written(attempts', Rest(t)')
                          /\ Course(cfg.maxAttempts, Rest(t)', A)
                          /\ Tale(cfg.maxAttempts, received'[t], Rest(t)', attempts', A)
                          /\ Waited(limits', received'[t], Rest(t)')
  PROVE  /\ Telling'
         /\ EventsFollowAttempts' /\ ReportAgrees' /\ RetriesComeFirst'
<1> DEFINE max == cfg.maxAttempts
<1>1. Sinks' = Sinks /\ \A t \in Sinks : received'[t] \in Seq(Items)
  <2>1. Sinks = 1..cfg.sinks /\ Sinks' = 1..cfg.sinks
    BY DEF Sinks
  <2> QED BY <2>1
<1>2. todo' \in Seq(Items) /\ Len(todo') \in Nat /\ DOMAIN todo' = 1..Len(todo')
  BY DEF Path
<1>3. Len(attempts') \in Nat /\ DOMAIN attempts' = 1..Len(attempts')
  OBVIOUS
<1>4. Telling'
  BY <1>1 DEF Telling
<1>5. /\ \A i \in 1..Len(attempts') : attempts'[i].number = i
      /\ \A i, j \in Primaries(attempts') : i < j => attempts'[i].retryable
      /\ todo'[1].type = "candidate" => GivenUp(max, attempts')
      /\ limits'.exceeded => \A i \in 1..Len(todo') : todo'[i].type \notin {"call", "sleep"}
  BY RetriesOf
<1>6. \A t \in Sinks : Follow(received'[t], attempts')
  BY <1>1, TaleFollows
<1>7. EventsFollowAttempts'
  BY <1>1, <1>3, <1>5, <1>6 DEF EventsFollowAttempts
<1>8. ReportAgrees'
  BY DEF ReportAgrees, Ends
<1>9. RetriesComeFirst'
  <2>1. At("candidate")' => GivenUp(max, attempts')
    BY <1>2, <1>5 DEF At
  <2>2. ASSUME NEW t \in Sinks,
               Positions(received'[t], {"fallback.started", "operation.failed"}) # {}
        PROVE  GivenUp(max, attempts')
    <3>1. PICK p : p \in Positions(received'[t], {"fallback.started", "operation.failed"})
      BY <2>2
    <3>2. /\ p \in 1..Len(received'[t])
          /\ received'[t][p].type \in {"fallback.started", "operation.failed"}
      BY <1>1, <3>1 DEF Positions
    <3> QED BY <3>2 DEF Tale
  <2> QED BY <1>1, <1>2, <1>5, <2>1, <2>2 DEF RetriesComeFirst, GivenUp
<1> QED BY <1>4, <1>7, <1>8, <1>9

\* A run that goes on along a path with the story so far, and a report made
\* at its end.
LEMMA StoryGoesOn ==
  ASSUME IInv, Running, NEW s, Path(s), Continue(s), cfg' = cfg, sink' = 1,
         received' \in [Sinks -> Seq(Items)],
         NEW A \in Written(attempts, s),
         Ran(cfg.maxAttempts, A), Limits(limits', A), Course(cfg.maxAttempts, s, A),
         \A t \in Sinks : /\ Tale(cfg.maxAttempts, received'[t], s, attempts, A)
                          /\ Waited(limits', received'[t], s),
         IInv', s[1].type \in Ends => UNCHANGED limits
  PROVE  SInv'
<1> DEFINE max == cfg.maxAttempts
<1>1. /\ cfg \in Configs /\ cfg.sinks \in Nat /\ max \in Nat \ {0} /\ Sinks' = Sinks
      /\ attempts \in Seq(AttemptType) /\ attempts' \in Seq(AttemptType)
      /\ A \in Seq(AttemptType)
      /\ \A t \in Sinks : received'[t] \in Seq(Items)
  BY ConfigAssumption DEF IInv, Typed, ConfigType, Sinks, Ran
<1>2. /\ s \in Seq(Items) /\ Len(s) \in Nat \ {0} /\ Head(s) = s[1] /\ Ordered(s)
  BY DEF Path, Course
<1>6. \A t \in Sinks : Rest(t)' = todo'
  <2>1. \A t \in Sinks : ~(t < 1)
    BY <1>1 DEF Sinks
  <2> QED BY <2>1 DEF Rest
<1>3. CASE s[1].type = "append"
  <2>1. s[1].type \notin Awaits \cup Ends
    BY <1>3 DEF Awaits, Ends
  <2>2. attempts' = Append(attempts, s[1].attempt) /\ todo' = Tail(s) /\ result' = result
    BY <1>2, <1>3 DEF Continue
  <2>3. attempts' = A /\ A \in Written(A, Tail(s))
    BY <1>2, <1>3, <2>1, <2>2, WrittenTail
  <2>4. Path(Tail(s)) /\ Course(max, Tail(s), A)
    BY <2>1, RestIs, CourseTail
  <2>5. \A t \in Sinks : /\ Tale(max, received'[t], Tail(s), A, A)
                         /\ Waited(limits', received'[t], Tail(s))
    BY <1>1, <1>3, RecordMoves
  <2>6. Telling' /\ EventsFollowAttempts' /\ ReportAgrees' /\ RetriesComeFirst'
    <3>1. Tail(s) \in Seq(Items)
      BY <2>4 DEF Path
    <3> QED BY <1>1, <1>6, <2>2, <2>3, <2>4, <2>5, <3>1, TellsOn DEF Running
  <2> QED BY <2>6 DEF SInv
<1>4. CASE s[1].type \in Ends
  <2>1. s[1].type # "append"
    BY <1>4 DEF Ends
  <2>2. result' = Report(s[1].type) /\ todo' = <<>> /\ attempts' = attempts
    BY <1>2, <1>4, <2>1 DEF Continue
  <2>3. Len(s) = 1
    <3>1. 1 \in 1..Len(s) /\ s[1].type \in Awaits \cup Ends
      BY <1>2, <1>4
    <3>2. 1 = Len(s)
      BY <3>1 DEF Path
    <3> QED BY <3>2
  <2>4. A = attempts
    <3>1. Positions(s, {"append"}) = {}
      BY <1>2, <2>1, <2>3 DEF Positions
    <3> QED BY <3>1 DEF Written
  <2>5. /\ Len(A) > 0 /\ A # <<>>
        /\ s[1].type = "returned" <=> A[Len(A)].status = "succeeded"
        /\ s[1].type = "failed" => GivenUp(max, A)
    <3>1. Leads(max, s[1], A)
      BY <2>3 DEF Course
    <3> QED BY <1>1, <1>4, <3>1 DEF Leads, Ends
  <2>6. /\ result'.kind = s[1].type /\ result'.attempts = A /\ result'.limits = limits'
        /\ result'.status = "succeeded" <=> s[1].type = "returned"
        /\ result'.retries = RetryCount(A)
    BY <1>4, <2>2, <2>4, <2>5 DEF Report, ReportStatus, Last, Ends
  <2>7. Cardinality(Primaries(A)) \in 1..max
    <3>1. Primary(A) \in Nat /\ Cardinality(Primaries(A)) = Primary(A)
          /\ 0 < Primary(A) /\ Primary(A) <= max
      BY <2>5, PrimariesAre
    <3> QED BY <1>1, <3>1
  <2>8. \A t \in Sinks : Agrees(received'[t], result', Len(A), Cardinality(Primaries(A)))
    BY <1>1, <1>4, <2>4, <2>5, <2>6, TaleAgrees
  <2>9. \A i \in 1..(Len(A) - 1) : A[i].status # "succeeded" /\ ~A[i].fallback
    BY <1>1 DEF Ran
  <2>10. ReportAgrees'
    BY <1>1, <1>4, <2>6, <2>7, <2>8, <2>9 DEF ReportAgrees, Ends
  <2>11. /\ \A i \in 1..Len(attempts) : attempts[i].number = i
         /\ \A i, j \in Primaries(attempts) : i < j => attempts[i].retryable
    BY <1>1, RetriesOf
  <2>12. \A t \in Sinks : Follow(received'[t], attempts)
    BY <1>1, <1>2, TaleFollows
  <2>13. EventsFollowAttempts'
    BY <1>1, <2>2, <2>11, <2>12 DEF EventsFollowAttempts
  <2>14. ASSUME NEW t \in Sinks,
                Positions(received'[t], {"fallback.started", "operation.failed"}) # {}
         PROVE  GivenUp(max, attempts)
    <3>1. PICK p : p \in Positions(received'[t], {"fallback.started", "operation.failed"})
      BY <2>14
    <3>2. /\ p \in 1..Len(received'[t])
          /\ received'[t][p].type \in {"fallback.started", "operation.failed"}
      BY <1>1, <3>1 DEF Positions
    <3> QED BY <3>2 DEF Tale
  <2>15. ~Running'
    BY <1>4, <2>6 DEF Running, Ends
  <2>16. RetriesComeFirst'
    <3>1. result'.kind = "failed" => GivenUp(max, attempts)
      BY <2>4, <2>5, <2>6
    <3> QED BY <1>1, <2>2, <2>11, <2>14, <2>15, <3>1 DEF RetriesComeFirst, GivenUp, At
  <2> QED BY <2>10, <2>13, <2>15, <2>16 DEF SInv
<1>5. CASE s[1].type \notin Ends \cup {"append"}
  <2>1. todo' = s /\ attempts' = attempts /\ result' = result
    BY <1>2, <1>5 DEF Continue
  <2>2. Telling' /\ EventsFollowAttempts' /\ ReportAgrees' /\ RetriesComeFirst'
    BY <1>1, <1>2, <1>6, <2>1, TellsOn DEF Running
  <2> QED BY <2>2 DEF SInv
<1> QED BY <1>3, <1>4, <1>5


\* At an event, the head of the path is one for the sinks.
LEMMA AtEventIs ==
  ASSUME IInv, AtEvent
  PROVE  /\ Path(todo) /\ Head(todo) = todo[1] /\ todo[1] \in Items
         /\ todo[1].type \notin Awaits \cup Ends \cup {"append"}
<1>1. Path(todo) /\ Head(todo).type \notin Ends \cup {"append"} /\ Head(todo).type \notin Awaits
  BY DEF AtEvent, IInv, Suspended
<1>2. Head(todo) = todo[1] /\ todo[1] \in Items
  BY <1>1 DEF Path
<1> QED BY <1>1, <1>2

\* What lies ahead of a sink that has an event already begins after it.
LEMMA RestOf ==
  ASSUME IInv, Running, NEW t \in Sinks, NEW A \in Written(attempts, todo),
         Course(cfg.maxAttempts, todo, A)
  PROVE  /\ Rest(t) \in Seq(Items) /\ A \in Written(attempts, Rest(t))
         /\ Course(cfg.maxAttempts, Rest(t), A)
         /\ t < sink => AtEvent
<1>1. cfg.sinks \in Nat /\ t \in 1..cfg.sinks /\ sink \in Nat
  BY ConfigAssumption DEF IInv, Typed, ConfigType, Sinks
<1>2. t < sink => AtEvent
  BY <1>1 DEF IInv, OnItsWay
<1>3. CASE t < sink
  <2>1. Path(todo) /\ todo[1].type \notin Awaits \cup Ends \cup {"append"}
    BY <1>2, <1>3, AtEventIs
  <2>2. Tail(todo) \in Seq(Items) /\ Course(cfg.maxAttempts, Tail(todo), A)
    BY <2>1, RestIs, CourseTail
  <2>3. A \in Written(attempts, Tail(todo))
    BY <2>1, WrittenTail DEF Course
  <2> QED BY <1>2, <1>3, <2>2, <2>3 DEF Rest
<1>4. CASE ~(t < sink)
  <2>1. todo \in Seq(Items)
    BY DEF IInv, Typed
  <2> QED BY <1>4, <2>1 DEF Rest
<1> QED BY <1>3, <1>4

\* The story when the sink at hand has stored the event.
LEMMA StoredIs ==
  ASSUME IInv, AtEvent, cfg.sinks > 0, Stored(sink),
         NEW A \in Written(attempts, todo),
         Ran(cfg.maxAttempts, A), Limits(limits, A), Course(cfg.maxAttempts, todo, A),
         \A t \in Sinks : /\ Tale(cfg.maxAttempts, received[t], Rest(t), attempts, A)
                          /\ Waited(limits, received[t], Rest(t))
  PROVE  /\ sink \in Sinks
         /\ \A t \in Sinks : t <= sink =>
              /\ Tale(cfg.maxAttempts, received'[t], Tail(todo), attempts, A)
              /\ Waited(limits, received'[t], Tail(todo))
         /\ \A t \in Sinks : ~(t <= sink) =>
              /\ Tale(cfg.maxAttempts, received'[t], todo, attempts, A)
              /\ Waited(limits, received'[t], todo)
<1>1. cfg.sinks \in Nat /\ Sinks = 1..cfg.sinks /\ sink \in Sinks /\ Running
      /\ received \in [Sinks -> Seq(Items)]
  BY ConfigAssumption DEF IInv, Typed, ConfigType, Sinks, OnItsWay, AtEvent
<1>2. /\ Path(todo) /\ Head(todo) = todo[1] /\ todo[1] \in Items
      /\ todo[1].type \notin Awaits \cup Ends \cup {"append"}
  BY AtEventIs
<1>3. received' = [received EXCEPT ![sink] = Append(received[sink], todo[1])]
  BY <1>2 DEF Stored
<1>4. ASSUME NEW t \in Sinks, t <= sink
      PROVE  /\ Tale(cfg.maxAttempts, received'[t], Tail(todo), attempts, A)
             /\ Waited(limits, received'[t], Tail(todo))
  <2>1. CASE t = sink
    <3>1. received'[t] = Append(received[t], todo[1]) /\ received[t] \in Seq(Items)
      BY <1>1, <1>3, <2>1
    <3>2. Rest(t) = todo
      BY <1>1, <2>1 DEF Rest
    <3>3. Tale(cfg.maxAttempts, received[t], todo, attempts, A) /\ Waited(limits, received[t], todo)
      BY <3>2
    <3>4. A \in Seq(AttemptType) /\ limits.waits \in Nat
      BY DEF Ran, Limits
    <3> QED BY <1>2, <3>1, <3>3, <3>4, EventMoves, EventCounts
  <2>2. CASE t # sink
    <3>1. t < sink /\ received'[t] = received[t]
      BY <1>1, <1>3, <1>4, <2>2
    <3> QED BY <3>1 DEF Rest
  <2> QED BY <2>1, <2>2
<1>5. ASSUME NEW t \in Sinks, ~(t <= sink)
      PROVE  /\ Tale(cfg.maxAttempts, received'[t], todo, attempts, A)
             /\ Waited(limits, received'[t], todo)
  <2>1. ~(t < sink) /\ t # sink
    BY <1>1, <1>5
  <2>2. received'[t] = received[t]
    BY <1>1, <1>3, <2>1
  <2> QED BY <2>1, <2>2 DEF Rest
<1> QED BY <1>1, <1>4, <1>5

\* A run that is left has told no more than it has recorded.
LEMMA LeftAsTold ==
  ASSUME SInv, IInv', Running, todo' = <<>>,
         result'.kind \notin {"running", "failed", "returned", "value_error"},
         UNCHANGED <<cfg, attempts, limits>>,
         UNCHANGED received \/ (AtEvent /\ cfg.sinks > 0 /\ Stored(sink))
  PROVE  SInv'
<1> DEFINE max == cfg.maxAttempts
<1>1. PICK A \in Written(attempts, todo) :
        /\ Ran(max, A) /\ Limits(limits, A) /\ Course(max, todo, A)
        /\ \A t \in Sinks : /\ Tale(max, received[t], Rest(t), attempts, A)
                            /\ Waited(limits, received[t], Rest(t))
  BY DEF SInv, Telling
<1>2. /\ IInv /\ Sinks' = Sinks /\ attempts \in Seq(AttemptType) /\ Path(todo)
      /\ \A t \in Sinks : received'[t] \in Seq(Items)
  BY DEF SInv, IInv, Typed, Sinks, Suspended
<1>3. \A t \in Sinks : \E s \in Seq(Items) :
        /\ A \in Written(attempts, s) /\ Course(max, s, A)
        /\ Tale(max, received'[t], s, attempts, A)
  <2>1. CASE UNCHANGED received
    BY <1>1, <1>2, <2>1, RestOf
  <2>2. CASE AtEvent /\ cfg.sinks > 0 /\ Stored(sink)
    <3>1. /\ Path(todo) /\ todo[1].type \notin Awaits \cup Ends \cup {"append"}
          /\ todo \in Seq(Items)
      BY <1>2, <2>2, AtEventIs DEF Path
    <3>2. Tail(todo) \in Seq(Items) /\ Course(max, Tail(todo), A)
      BY <1>1, <3>1, RestIs, CourseTail
    <3>3. A \in Written(attempts, Tail(todo))
      BY <1>1, <3>1, WrittenTail DEF Course
    <3>4. \A t \in Sinks : \/ Tale(max, received'[t], Tail(todo), attempts, A)
                           \/ Tale(max, received'[t], todo, attempts, A)
      BY <1>1, <1>2, <2>2, StoredIs
    <3> QED BY <1>1, <3>1, <3>2, <3>3, <3>4
  <2> QED BY <2>1, <2>2
<1>4. \A t \in Sinks : Follow(received'[t], attempts)
  BY <1>1, <1>2, <1>3, TaleFollows
<1>5. /\ \A i \in 1..Len(attempts) : attempts[i].number = i
      /\ \A i, j \in Primaries(attempts) : i < j => attempts[i].retryable
  BY <1>1, <1>2, RetriesOf
<1>6. DOMAIN attempts = 1..Len(attempts)
  BY <1>2
<1>7. EventsFollowAttempts'
  BY <1>2, <1>4, <1>5, <1>6 DEF EventsFollowAttempts
<1>8. ReportAgrees' /\ ~Running'
  BY DEF ReportAgrees, Ends, Running
<1>9. ASSUME NEW t \in Sinks,
             Positions(received'[t], {"fallback.started", "operation.failed"}) # {}
      PROVE  GivenUp(max, attempts)
  <2>1. PICK p : p \in Positions(received'[t], {"fallback.started", "operation.failed"})
    BY <1>9
  <2>2. /\ p \in 1..Len(received'[t])
        /\ received'[t][p].type \in {"fallback.started", "operation.failed"}
    BY <1>2, <2>1 DEF Positions
  <2> QED BY <1>3, <2>2 DEF Tale
<1>10. RetriesComeFirst'
  <2>1. DOMAIN todo' = {}
    OBVIOUS
  <2> QED BY <1>2, <1>5, <1>8, <1>9, <2>1 DEF RetriesComeFirst, GivenUp, At
<1> QED BY <1>7, <1>8, <1>10 DEF SInv

\* The delivery of an event.
LEMMA DeliverTells == SInv /\ Deliver => SInv'
<1> SUFFICES ASSUME SInv, Deliver PROVE SInv'
  OBVIOUS
<1> DEFINE max == cfg.maxAttempts
<1>1. /\ IInv /\ IInv' /\ Running /\ AtEvent /\ cfg' = cfg /\ limits' = limits
      /\ cfg \in Configs /\ cfg.sinks \in Nat /\ Sinks = 1..cfg.sinks /\ Sinks' = Sinks
      /\ received' \in [Sinks -> Seq(Items)]
  <2>1. /\ IInv /\ Running /\ AtEvent /\ cfg' = cfg /\ limits' = limits
        /\ Sinks = 1..cfg.sinks /\ Sinks' = Sinks
    BY DEF SInv, Deliver, AtEvent, Sinks
  <2>2. IInv'
    BY <2>1, DeliverStep
  <2> QED BY <2>1, <2>2, ConfigAssumption DEF IInv, Typed, ConfigType
<1>2. PICK A \in Written(attempts, todo) :
        /\ Ran(max, A) /\ Limits(limits, A) /\ Course(max, todo, A)
        /\ \A t \in Sinks : /\ Tale(max, received[t], Rest(t), attempts, A)
                            /\ Waited(limits, received[t], Rest(t))
  BY <1>1 DEF SInv, Telling
<1>3. /\ Path(todo) /\ todo[1].type \notin Awaits \cup Ends \cup {"append"}
      /\ todo \in Seq(Items) /\ Path(Tail(todo)) /\ Tail(todo) \in Seq(Items)
      /\ Course(max, Tail(todo), A) /\ A \in Written(attempts, Tail(todo))
  <2>1. Path(todo) /\ todo[1].type \notin Awaits \cup Ends \cup {"append"}
    BY <1>1, AtEventIs
  <2>2. todo \in Seq(Items) /\ Path(Tail(todo)) /\ Tail(todo) \in Seq(Items)
    BY <2>1, RestIs
  <2>3. Course(max, Tail(todo), A)
    BY <1>2, <2>1, CourseTail
  <2>4. todo[1].type # "append" /\ Ordered(todo)
    BY <1>2, <2>1 DEF Course
  <2>5. A \in Written(attempts, Tail(todo))
    BY <1>2, <2>1, <2>4, WrittenTail
  <2> QED BY <2>1, <2>2, <2>3, <2>5
<1>4. CASE /\ sink < cfg.sinks /\ Stored(sink) /\ sink' = sink + 1
           /\ UNCHANGED <<todo, attempts, result>>
  <2>1. /\ cfg.sinks > 0 /\ sink \in Nat /\ attempts \in Seq(AttemptType)
    BY <1>1, <1>4 DEF IInv, Typed
  <2>2. /\ \A t \in Sinks : t <= sink => /\ Tale(max, received'[t], Tail(todo), attempts, A)
                                         /\ Waited(limits, received'[t], Tail(todo))
        /\ \A t \in Sinks : ~(t <= sink) => /\ Tale(max, received'[t], todo, attempts, A)
                                            /\ Waited(limits, received'[t], todo)
    BY <1>1, <1>2, <1>4, <2>1, StoredIs
  <2>3. \A t \in Sinks : Rest(t)' = IF t <= sink THEN Tail(todo) ELSE todo
    <3>1. ASSUME NEW t \in Sinks PROVE t < sink + 1 <=> t <= sink
      BY <1>1, <2>1
    <3> QED BY <1>4, <3>1 DEF Rest
  <2>4. \A t \in Sinks : /\ Rest(t)' \in Seq(Items) /\ A \in Written(attempts, Rest(t)')
                         /\ Course(max, Rest(t)', A)
                         /\ Tale(max, received'[t], Rest(t)', attempts, A)
                         /\ Waited(limits, received'[t], Rest(t)')
    BY <1>2, <1>3, <2>2, <2>3
  <2>5. Telling' /\ EventsFollowAttempts' /\ ReportAgrees' /\ RetriesComeFirst'
    BY <1>1, <1>2, <1>3, <1>4, <2>1, <2>4, TellsOn DEF Running
  <2> QED BY <1>1, <2>5 DEF SInv
<1>5. CASE sink = cfg.sinks /\ Stored(sink) /\ sink' = 1 /\ Continue(Tail(todo))
  <2>1. cfg.sinks > 0
    BY <1>1, <1>5 DEF IInv, Typed
  <2>2. \A t \in Sinks : /\ Tale(max, received'[t], Tail(todo), attempts, A)
                         /\ Waited(limits', received'[t], Tail(todo))
    <3>1. \A t \in Sinks : t <= sink
      BY <1>1, <1>5
    <3> QED BY <1>1, <1>2, <1>5, <2>1, <3>1, StoredIs
  <2> QED BY <1>1, <1>2, <1>3, <1>5, <2>2, StoryGoesOn
<1>6. CASE cfg.sinks = 0 /\ Continue(Tail(todo)) /\ UNCHANGED emitter
  <2>1. Sinks = {} /\ sink' = 1
    BY <1>1, <1>6 DEF emitter, IInv, OnItsWay
  <2> QED BY <1>1, <1>2, <1>3, <1>6, <2>1, StoryGoesOn
<1> QED BY <1>4, <1>5, <1>6 DEF Deliver


-----------------------------------------------------------------------------
(* A new chapter: what is told of an attempt, its record, and the rest     *)

\* An item of a concatenation is one of its two parts.
LEMMA ConcatIs ==
  ASSUME NEW E \in Seq(Items), NEW T \in Seq(Items)
  PROVE  /\ E \o T \in Seq(Items) /\ Len(E \o T) = Len(E) + Len(T)
         /\ Len(E) \in Nat /\ Len(T) \in Nat
         /\ \A i \in 1..Len(E) : (E \o T)[i] = E[i]
         /\ \A i \in 1..Len(T) : (E \o T)[Len(E) + i] = T[i]
         /\ \A i \in 1..Len(E \o T) : i \in 1..Len(E) \/ i - Len(E) \in 1..Len(T)
<1>1. /\ E \o T \in Seq(Items) /\ Len(E \o T) = Len(E) + Len(T)
      /\ Len(E) \in Nat /\ Len(T) \in Nat
      /\ \A i \in 1..(Len(E) + Len(T)) :
           (E \o T)[i] = IF i <= Len(E) THEN E[i] ELSE T[i - Len(E)]
  BY ConcatProperties
<1>2. \A i \in 1..Len(E) : (E \o T)[i] = E[i]
  BY <1>1
<1>3. ASSUME NEW i \in 1..Len(T) PROVE (E \o T)[Len(E) + i] = T[i]
  <2>1. Len(E) + i \in 1..(Len(E) + Len(T)) /\ ~(Len(E) + i <= Len(E)) /\ (Len(E) + i) - Len(E) = i
    BY <1>1
  <2> QED BY <1>1, <2>1
<1>4. \A i \in 1..Len(E \o T) : i \in 1..Len(E) \/ i - Len(E) \in 1..Len(T)
  BY <1>1
<1> QED BY <1>1, <1>2, <1>3, <1>4

\* Has() of a concatenation.
LEMMA HasConcat ==
  ASSUME NEW E \in Seq(Items), NEW T \in Seq(Items), NEW type, NEW n
  PROVE  Has(E \o T, type, n) <=> Has(E, type, n) \/ Has(T, type, n)
<1>1. /\ Len(E \o T) = Len(E) + Len(T) /\ Len(E) \in Nat /\ Len(T) \in Nat
      /\ E \o T \in Seq(Items)
      /\ \A i \in 1..Len(E) : (E \o T)[i] = E[i]
      /\ \A i \in 1..Len(T) : (E \o T)[Len(E) + i] = T[i]
      /\ \A i \in 1..Len(E \o T) : i \in 1..Len(E) \/ i - Len(E) \in 1..Len(T)
  BY ConcatIs
<1>2. \A q \in Positions(E, {type}) : q \in Positions(E \o T, {type}) /\ (E \o T)[q] = E[q]
  BY <1>1 DEF Positions
<1>3. \A q \in Positions(T, {type}) :
        Len(E) + q \in Positions(E \o T, {type}) /\ (E \o T)[Len(E) + q] = T[q]
  BY <1>1 DEF Positions
<1>4. ASSUME NEW q \in Positions(E \o T, {type})
      PROVE  \/ q \in Positions(E, {type}) /\ (E \o T)[q] = E[q]
             \/ q - Len(E) \in Positions(T, {type}) /\ (E \o T)[q] = T[q - Len(E)]
  <2>1. q \in 1..Len(E \o T) /\ (E \o T)[q].type = type
    BY <1>1 DEF Positions
  <2>2. CASE q \in 1..Len(E)
    BY <1>1, <2>1, <2>2 DEF Positions
  <2>3. CASE q - Len(E) \in 1..Len(T)
    <3>1. (E \o T)[Len(E) + (q - Len(E))] = T[q - Len(E)] /\ Len(E) + (q - Len(E)) = q
      BY <1>1, <2>1, <2>3
    <3> QED BY <2>1, <2>3, <3>1 DEF Positions
  <2> QED BY <1>1, <2>1, <2>2, <2>3
<1>5. ASSUME Has(E \o T, type, n) PROVE Has(E, type, n) \/ Has(T, type, n)
  <2>1. PICK q \in Positions(E \o T, {type}) : (E \o T)[q].n = n
    BY <1>5 DEF Has
  <2>2. CASE q \in Positions(E, {type}) /\ (E \o T)[q] = E[q]
    BY <2>1, <2>2 DEF Has
  <2>3. CASE q - Len(E) \in Positions(T, {type}) /\ (E \o T)[q] = T[q - Len(E)]
    BY <2>1, <2>3 DEF Has
  <2> QED BY <1>4, <2>2, <2>3
<1>6. ASSUME Has(E, type, n) PROVE Has(E \o T, type, n)
  <2>1. PICK q \in Positions(E, {type}) : E[q].n = n
    BY <1>6 DEF Has
  <2>2. q \in Positions(E \o T, {type}) /\ (E \o T)[q] = E[q]
    BY <1>2
  <2> QED BY <2>1, <2>2 DEF Has
<1>7. ASSUME Has(T, type, n) PROVE Has(E \o T, type, n)
  <2>1. PICK q \in Positions(T, {type}) : T[q].n = n
    BY <1>7 DEF Has
  <2>2. Len(E) + q \in Positions(E \o T, {type}) /\ (E \o T)[Len(E) + q] = T[q]
    BY <1>3
  <2> QED BY <2>1, <2>2 DEF Has
<1> QED BY <1>5, <1>6, <1>7

\* Once() past what is told before the record.
LEMMA OnceBefore ==
  ASSUME NEW E \in Seq(Items), NEW T \in Seq(Items), NEW types, NEW r, NEW m,
         \A i \in 1..Len(E) : E[i].type \notin types, Once(r, T, types, m)
  PROVE  Once(r, E \o T, types, m)
<1>1. /\ Len(E \o T) = Len(E) + Len(T) /\ Len(E) \in Nat /\ Len(T) \in Nat
      /\ E \o T \in Seq(Items)
      /\ \A i \in 1..Len(E) : (E \o T)[i] = E[i]
      /\ \A i \in 1..Len(T) : (E \o T)[Len(E) + i] = T[i]
      /\ \A i \in 1..Len(E \o T) : i \in 1..Len(E) \/ i - Len(E) \in 1..Len(T)
  BY ConcatIs
<1>2. ASSUME NEW q \in Positions(E \o T, types)
      PROVE  /\ q - Len(E) \in Positions(T, types) /\ (E \o T)[q] = T[q - Len(E)]
             /\ q \in Nat
  <2>1. q \in 1..Len(E \o T) /\ (E \o T)[q].type \in types
    BY <1>1 DEF Positions
  <2>2. q - Len(E) \in 1..Len(T)
    BY <1>1, <2>1
  <2>3. (E \o T)[Len(E) + (q - Len(E))] = T[q - Len(E)] /\ Len(E) + (q - Len(E)) = q
    BY <1>1, <2>1, <2>2
  <2> QED BY <2>1, <2>2, <2>3 DEF Positions
<1>3. \A q \in Positions(T, types) : Len(E) + q \in Positions(E \o T, types)
  BY <1>1 DEF Positions
<1>4. Positions(E \o T, types) = {} <=> Positions(T, types) = {}
  BY <1>2, <1>3
<1>5. \A p, q \in Positions(E \o T, types) : p = q
  <2>1. \A p, q \in Positions(E \o T, types) : p - Len(E) = q - Len(E) /\ p \in Nat /\ q \in Nat
    BY <1>2 DEF Once
  <2> QED BY <1>1, <2>1
<1>6. \A q \in Positions(E \o T, types) : (E \o T)[q].n = m /\ m > 0
  BY <1>2 DEF Once
<1> QED BY <1>4, <1>5, <1>6 DEF Once

\* A record and what follows it, with what is told before.
LEMMA ChapterCourse ==
  ASSUME NEW max, NEW A \in Seq(AttemptType), Len(A) > 0,
         NEW E, Opening(E, A), NEW T, Closing(max, T, A)
  PROVE  /\ Course(max, E \o T, A)
         /\ \A past : Append(past, T[1].attempt) \in Written(past, E \o T)
         /\ Len(E \o T) > 0 /\ (E \o T)[1].type \notin Ends \cup {"sleep"}
<1> DEFINE s == E \o T
           k == Len(E)
<1>0. /\ E \in Seq(Items) /\ T \in Seq(Items) /\ Len(T) > 0
      /\ T[1].type = "append" /\ Course(max, T, A)
      /\ \A i \in 1..Len(E) : E[i].type \in Preludes /\ E[i].n = Len(A)
  BY DEF Opening, Closing, Record
<1>1. /\ Len(s) = k + Len(T) /\ k \in Nat /\ Len(T) \in Nat /\ Len(T) > 0
      /\ s \in Seq(Items) /\ E \in Seq(Items) /\ T \in Seq(Items)
      /\ \A i \in 1..k : s[i] = E[i]
      /\ \A i \in 1..Len(T) : s[k + i] = T[i]
      /\ \A i \in 1..Len(s) : i \in 1..k \/ i - k \in 1..Len(T)
  BY <1>0, ConcatIs
<1>2. T[1].type = "append" /\ Course(max, T, A)
  BY <1>0
<1>3. \A i \in 1..k : s[i].type \in Preludes /\ s[i].n = Len(A)
  BY <1>0, <1>1
<1> HIDE DEF s, k
<1>4. ASSUME NEW i \in 1..Len(s), ~(i \in 1..k)
      PROVE  i - k \in 1..Len(T) /\ s[i] = T[i - k]
  <2>1. i - k \in 1..Len(T)
    BY <1>1, <1>4
  <2>2. s[k + (i - k)] = T[i - k] /\ k + (i - k) = i
    BY <1>1, <2>1
  <2> QED BY <2>1, <2>2
<1>5. \A j \in 1..Len(T) : j # 1 => T[j].type \notin Preludes \cup {"append"}
  <2> SUFFICES ASSUME NEW j \in 1..Len(T), j # 1, T[j].type \in Preludes \cup {"append"}
               PROVE  FALSE
    OBVIOUS
  <2>1. 1 \in 1..Len(T) /\ 1 < j
    BY <1>1
  <2>2. T[1].type \in Preludes
    BY <1>2, <2>1 DEF Course, Ordered
  <2> QED BY <1>2, <2>2 DEF Preludes
<1>6. ASSUME NEW i \in 1..Len(s), NEW j \in 1..Len(s), i < j,
             s[j].type \in Preludes \cup {"append"}
      PROVE  s[i].type \in Preludes
  <2>1. i \in 1..k
    <3> SUFFICES ASSUME ~(i \in 1..k) PROVE FALSE
      OBVIOUS
    <3>1. i - k \in 1..Len(T)
      BY <1>4
    <3>2. ~(j \in 1..k)
      BY <1>1, <1>6, <3>1
    <3>3. j - k \in 1..Len(T) /\ s[j] = T[j - k] /\ j - k # 1
      BY <1>1, <1>4, <1>6, <3>1, <3>2
    <3> QED BY <1>5, <1>6, <3>3
  <2> QED BY <1>3, <2>1
<1>7. k + 1 \in Positions(s, {"append"}) /\ s[k + 1] = T[1]
  <2>1. 1 \in 1..Len(T) /\ k + 1 \in 1..Len(s)
    BY <1>1
  <2>2. s[k + 1] = T[1]
    BY <1>1, <2>1
  <2> QED BY <1>1, <1>2, <2>1, <2>2 DEF Positions
<1>8. Positions(s, AttemptEnds) # {}
  <2>1. 1 \in Positions(T, {"append"})
    BY <1>1, <1>2 DEF Positions
  <2>2. PICK q : q \in Positions(T, AttemptEnds)
    BY <1>2, <2>1 DEF Course, Ordered
  <2>3. q \in 1..Len(T) /\ T[q].type \in AttemptEnds
    BY <2>2 DEF Positions
  <2>4. k + q \in 1..Len(s) /\ s[k + q] = T[q]
    BY <1>1, <2>3
  <2>5. k + q \in Positions(s, AttemptEnds)
    BY <1>1, <2>3, <2>4 DEF Positions
  <2> QED BY <2>5
<1>9. ASSUME NEW i \in 1..(Len(s) - 1)
      PROVE  /\ s[i].type \in OperationEnds <=> s[i + 1].type \in Ends
             /\ s[i].type = "operation.succeeded" <=> s[i + 1].type = "returned"
             /\ s[i].type = "retry.scheduled" <=> s[i + 1].type = "sleep"
             /\ s[i + 1].type = "sleep" => s[i].limited = s[i + 1].limited
  <2>1. i \in 1..Len(s) /\ i + 1 \in 1..Len(s)
    BY <1>1
  <2>2. CASE i \in 1..k
    <3>1. s[i].type \in Preludes
      BY <1>3, <2>2
    <3>2. s[i + 1].type \in Preludes \cup {"append"}
      <4>1. CASE i + 1 \in 1..k
        BY <1>3, <4>1
      <4>2. CASE ~(i + 1 \in 1..k)
        <5>1. i = k
          BY <1>1, <2>2, <4>2
        <5> QED BY <1>2, <1>7, <5>1
      <4> QED BY <4>1, <4>2
    <3> QED BY <3>1, <3>2 DEF Preludes, OperationEnds, Ends
  <2>3. CASE ~(i \in 1..k)
    <3>1. i - k \in 1..Len(T) /\ s[i] = T[i - k]
      BY <1>4, <2>1, <2>3
    <3>2. ~(i + 1 \in 1..k) /\ (i + 1) - k = (i - k) + 1
      BY <1>1, <2>3
    <3>3. s[i + 1] = T[(i + 1) - k] /\ (i + 1) - k \in 1..Len(T)
      BY <1>4, <2>1, <3>2
    <3>4. i - k \in 1..(Len(T) - 1)
      BY <1>1, <3>1, <3>2, <3>3
    <3>5. s[i + 1] = T[(i - k) + 1]
      BY <3>2, <3>3
    <3> QED BY <1>2, <3>1, <3>4, <3>5 DEF Course, Ordered
  <2> QED BY <2>2, <2>3
<1>10. Ordered(s)
  BY <1>6, <1>7, <1>8, <1>9 DEF Ordered
<1>11. ASSUME NEW i \in 1..Len(s)
       PROVE  /\ Fits(max, s[i], A)
              /\ s[i].type \in Preludes \cup AttemptEnds => s[i].n = Len(A)
  <2>1. CASE i \in 1..k
    <3>1. Len(A) \in 1..Len(A)
      OBVIOUS
    <3>2. s[i].type \in Preludes /\ s[i].n \in 1..Len(A) /\ s[i].n = Len(A)
      BY <1>3, <2>1, <3>1
    <3> QED BY <3>2 DEF Fits, Preludes, AttemptEnds
  <2>2. CASE ~(i \in 1..k)
    BY <1>2, <1>4, <2>2 DEF Course
  <2> QED BY <2>1, <2>2
<1>12. s[Len(s)] = T[Len(T)] /\ Len(s) > 0
  <2>1. Len(T) \in 1..Len(T)
    BY <1>1
  <2>2. s[k + Len(T)] = T[Len(T)]
    BY <1>1, <2>1
  <2>3. k + Len(T) = Len(s) /\ Len(s) > 0
    BY <1>1
  <2> QED BY <2>2, <2>3
<1>13. Course(max, s, A)
  BY <1>2, <1>10, <1>11, <1>12 DEF Course
<1>14. \A past : Append(past, T[1].attempt) \in Written(past, s)
  BY <1>7 DEF Written
<1>15. s[1].type \notin Ends \cup {"sleep"}
  <2>1. CASE k = 0
    BY <1>2, <1>7, <2>1 DEF Ends
  <2>2. CASE k # 0
    <3>1. s[1].type \in Preludes
      BY <1>1, <1>3, <2>2
    <3> QED BY <3>1 DEF Preludes, Ends
  <2> QED BY <2>1, <2>2
<1> QED BY <1>12, <1>13, <1>14, <1>15 DEF s


\* The next attempt of a run.
LEMMA RanOn ==
  ASSUME NEW max, NEW past \in Seq(AttemptType), Ran(max, past), NEW a \in AttemptType,
         a.number = Len(past) + 1,
         \/ /\ MayGoOn(max, past) /\ max \in Nat /\ ~a.fallback
            /\ "exceeded" \in a.meta.flags => ~a.retryable
         \/ /\ Len(past) > 0 /\ ~past[Len(past)].fallback
            /\ past[Len(past)].status # "succeeded"
            /\ a.fallback /\ a.meta.flags \subseteq {"open"}
  PROVE  Ran(max, Append(past, a))
<1> DEFINE A == Append(past, a)
           n == Len(past)
<1>1. /\ n \in Nat /\ A \in Seq(AttemptType) /\ Len(A) = n + 1
      /\ \A i \in 1..n : A[i] = past[i]
      /\ A[n + 1] = a
  BY AppendProperties
<1>2. /\ n = 0 <=> past = <<>>
      /\ A # <<>>
  <2>1. n = 0 <=> past = <<>>
    OBVIOUS
  <2>2. A # <<>>
    BY AppendProperties
  <2> QED BY <2>1, <2>2
<1> HIDE DEF A, n
<1>3. /\ \A i \in 1..n : past[i].number = i
      /\ \A i \in 1..n : i < n => ~past[i].fallback /\ past[i].status # "succeeded"
      /\ \A i \in 1..n : i < Primary(past) => past[i].retryable
      /\ \A i \in 1..n : past[i].fallback => i > 1 /\ past[i].meta.flags \subseteq {"open"}
      /\ \A i \in 1..n : "exceeded" \in past[i].meta.flags => ~past[i].retryable
      /\ Primary(past) <= max
  BY DEF Ran, n
<1>4. /\ \A i \in 1..n : ~past[i].fallback /\ past[i].status # "succeeded"
      /\ n > 0 \/ ~a.fallback
      /\ a.fallback => a.meta.flags \subseteq {"open"}
      /\ "exceeded" \in a.meta.flags => ~a.retryable
  <2>1. CASE MayGoOn(max, past) /\ ~a.fallback /\ ("exceeded" \in a.meta.flags => ~a.retryable)
    BY <2>1 DEF MayGoOn, n
  <2>2. CASE /\ n > 0 /\ ~past[n].fallback /\ past[n].status # "succeeded"
             /\ a.fallback /\ a.meta.flags \subseteq {"open"}
    <3>1. ASSUME NEW i \in 1..n PROVE ~past[i].fallback /\ past[i].status # "succeeded"
      <4>1. CASE i < n
        BY <1>3, <4>1
      <4>2. CASE i = n
        BY <2>2, <4>2
      <4> QED BY <1>1, <4>1, <4>2
    <3> QED BY <2>2, <3>1
  <2> QED BY <2>1, <2>2 DEF n
<1>5. Primary(past) = n
  <2>1. CASE past = <<>>
    BY <2>1 DEF Primary, n
  <2>2. CASE past # <<>>
    <3>1. n \in 1..n
      BY <1>1, <1>2, <2>2
    <3>2. ~past[n].fallback
      BY <1>4, <3>1
    <3> QED BY <3>2 DEF Primary, n
  <2> QED BY <2>1, <2>2
<1>6. Primary(A) = IF a.fallback THEN n ELSE n + 1
  BY <1>1, <1>2 DEF Primary
<1>7. ~a.fallback => MayGoOn(max, past) /\ max \in Nat
  OBVIOUS
<1>8. Primary(A) <= max
  <2>1. CASE a.fallback
    BY <1>3, <1>5, <1>6, <2>1
  <2>2. CASE ~a.fallback
    <3>1. n < max /\ max \in Nat
      BY <1>7, <2>2 DEF MayGoOn, n
    <3> QED BY <1>1, <1>6, <2>2, <3>1
  <2> QED BY <2>1, <2>2
<1>9. ASSUME NEW i \in 1..n
      PROVE  /\ A[i].number = i
             /\ ~A[i].fallback /\ A[i].status # "succeeded"
             /\ i < Primary(A) => A[i].retryable
             /\ "exceeded" \in A[i].meta.flags => ~A[i].retryable
  <2>1. i < Primary(A) => past[i].retryable
    <3>1. CASE a.fallback
      BY <1>3, <1>5, <1>6, <3>1
    <3>2. CASE ~a.fallback
      BY <1>7, <3>2 DEF MayGoOn, n
    <3> QED BY <3>1, <3>2
  <2> QED BY <1>1, <1>3, <1>4, <2>1
<1>10. ASSUME NEW i \in 1..Len(A)
       PROVE  /\ A[i].number = i
              /\ i < Len(A) => ~A[i].fallback /\ A[i].status # "succeeded"
              /\ i < Primary(A) => A[i].retryable
              /\ A[i].fallback => i > 1 /\ A[i].meta.flags \subseteq {"open"}
              /\ "exceeded" \in A[i].meta.flags => ~A[i].retryable
  <2>1. CASE i \in 1..n
    BY <1>9, <2>1
  <2>2. CASE i = n + 1
    <3>1. A[i] = a /\ a.number = i /\ ~(i < Len(A)) /\ ~(i < Primary(A))
      BY <1>1, <1>6, <2>2 DEF n
    <3>2. a.fallback => i > 1
      BY <1>1, <1>4, <2>2
    <3> QED BY <1>4, <3>1, <3>2
  <2>3. i \in 1..n \/ i = n + 1
    BY <1>1
  <2> QED BY <2>1, <2>2, <2>3
<1> QED BY <1>1, <1>8, <1>10 DEF Ran, A

\* A fallback attempt changes nothing about the retries; before another
\* attempt they are not given up.
LEMMA GivenUpOn ==
  ASSUME NEW max, NEW past \in Seq(AttemptType), NEW a \in AttemptType
  PROVE  /\ a.fallback /\ GivenUp(max, past) => GivenUp(max, Append(past, a))
         /\ ~(MayGoOn(max, past) /\ max \in Nat /\ GivenUp(max, past))
<1> DEFINE A == Append(past, a)
           n == Len(past)
<1>1. /\ n \in Nat /\ A \in Seq(AttemptType) /\ Len(A) = n + 1
      /\ \A i \in 1..n : A[i] = past[i]
      /\ A[n + 1] = a
  BY AppendProperties
<1>2. ASSUME a.fallback, GivenUp(max, past) PROVE GivenUp(max, A)
  <2>1. PICK k \in 1..max : Primaries(past) = 1..k /\ (~past[k].retryable \/ k = max)
    BY <1>2 DEF GivenUp
  <2>2. DOMAIN A = 1..(n + 1) /\ DOMAIN past = 1..n
    BY <1>1
  <2> HIDE DEF A, n
  <2>3. Primaries(A) = Primaries(past)
    <3>1. \A i : i \in 1..(n + 1) <=> i \in 1..n \/ i = n + 1
      BY <1>1
    <3> QED BY <1>1, <1>2, <2>2, <3>1 DEF Primaries
  <2>4. k \in 1..n
    BY <2>1, <2>2 DEF Primaries
  <2> QED BY <1>1, <2>1, <2>3, <2>4 DEF GivenUp
<1>3. ASSUME MayGoOn(max, past), max \in Nat, GivenUp(max, past) PROVE FALSE
  <2>1. PICK k \in 1..max : Primaries(past) = 1..k /\ (~past[k].retryable \/ k = max)
    BY <1>3 DEF GivenUp
  <2>2. DOMAIN past = 1..n
    OBVIOUS
  <2>3. k \in 1..n
    BY <2>1, <2>2 DEF Primaries
  <2>4. n < max /\ past[k].retryable
    BY <1>3, <2>3 DEF MayGoOn
  <2> QED BY <1>1, <1>3, <2>1, <2>3, <2>4
<1> QED BY <1>2, <1>3

\* What a sink has been told when the run is at an await.
LEMMA AwaitTale ==
  ASSUME NEW max, NEW r \in Seq(Items), NEW s \in Seq(Items), Len(s) = 1,
         s[1].type \in Awaits, NEW A, Tale(max, r, s, A, A)
  PROVE  /\ \A p \in 1..Len(r) : Fits(max, r[p], A)
         /\ \A i \in 1..Len(A) : Heard(r, <<>>, i, A[i])
         /\ OnceEach(r, AttemptEnds, 1..Len(A)) /\ Positions(r, OperationEnds) = {}
         /\ OnceEach(r, {"attempt.started"},
                     1..(IF s[1].type = "call" THEN Len(A) + 1 ELSE Primary(A)))
         /\ OnceEach(r, {"retry.scheduled"},
                     1..(IF s[1].type \in {"call", "sleep"} THEN Len(A) ELSE Primary(A) - 1))
<1>1. \A types : s[1].type \notin types => Positions(s, types) = {}
  BY DEF Positions
<1>2. /\ Positions(s, AttemptEnds) = {} /\ Positions(s, {"attempt.started"}) = {}
      /\ Positions(s, {"retry.scheduled"}) = {} /\ s[1].type \notin Ends
  <2>1. s[1].type \notin AttemptEnds /\ s[1].type \notin {"attempt.started"}
        /\ s[1].type \notin {"retry.scheduled"} /\ s[1].type \notin Ends
    BY DEF Awaits, AttemptEnds, Ends
  <2> QED BY <1>1, <2>1
<1>3. \A type \in Preludes : \A i : ~Has(s, type, i) /\ ~Has(<<>>, type, i)
  <2>1. \A type \in Preludes : s[1].type \notin {type}
    BY DEF Awaits, Preludes
  <2> QED BY <1>1, <2>1 DEF Has, Positions
<1>4. \A i \in 1..Len(A) : Heard(r, <<>>, i, A[i])
  <2>1. /\ "validation.succeeded" \in Preludes /\ "validation.failed" \in Preludes
        /\ "circuit_breaker.rejected" \in Preludes
        /\ "rate_limit.detected" \in Preludes /\ "rate_limit.wait_exceeded" \in Preludes
    BY DEF Preludes
  <2> QED BY <1>3, <2>1 DEF Tale, Heard
<1> QED BY <1>2, <1>4 DEF Tale, Once


\* What a sink has been told, with the new chapter ahead.
LEMMA ChapterTale ==
  ASSUME NEW max, NEW past \in Seq(AttemptType), NEW A \in Seq(AttemptType),
         Len(A) = Len(past) + 1, \A i \in 1..Len(past) : A[i] = past[i],
         NEW E, Opening(E, A), NEW T, Closing(max, T, A),
         NEW r \in Seq(Items), NEW s \in Seq(Items), Len(s) = 1, Tale(max, r, s, past, past),
         GivenUp(max, past) => GivenUp(max, A),
         \/ s[1].type = "call" /\ Primary(A) = Len(A)
         \/ /\ s[1].type = "candidate" /\ T[Len(T)].type # "sleep"
            /\ Primary(past) = Primary(A)
  PROVE  Tale(max, r, E \o T, past, A)
<1> DEFINE n == Len(past)
<1>1. /\ n \in Nat /\ Len(A) = n + 1
      /\ \A i \in 1..n : A[i] = past[i]
      /\ E \in Seq(Items)
      /\ \A i \in 1..Len(E) : E[i].type \in Preludes /\ E[i].n = n + 1
      /\ Heard(<<>>, E, n + 1, A[n + 1])
  BY DEF Opening
<1>2. /\ \A p \in 1..Len(r) : Fits(max, r[p], past)
      /\ \A i \in 1..n : Heard(r, <<>>, i, past[i])
      /\ OnceEach(r, AttemptEnds, 1..n) /\ Positions(r, OperationEnds) = {}
      /\ OnceEach(r, {"attempt.started"},
                  1..(IF s[1].type = "call" THEN n + 1 ELSE Primary(past)))
      /\ OnceEach(r, {"retry.scheduled"},
                  1..(IF s[1].type \in {"call", "sleep"} THEN n ELSE Primary(past) - 1))
  <2>1. s[1].type \in Awaits
    BY DEF Awaits
  <2> QED BY <2>1, AwaitTale
<1>3. /\ T \in Seq(Items) /\ Len(T) > 0 /\ T[1].type = "append" /\ Course(max, T, A)
  BY DEF Closing, Record
<1>17. /\ Course(max, E \o T, A)
       /\ Len(E \o T) > 0 /\ (E \o T)[1].type \notin Ends \cup {"sleep"}
  <2>1. Len(A) > 0
    BY <1>1
  <2> QED BY <2>1, ChapterCourse
<1>18. (E \o T)[Len(E \o T)] = T[Len(T)]
  <2>1. /\ Len(E \o T) = Len(E) + Len(T) /\ Len(T) \in Nat
        /\ \A i \in 1..Len(T) : (E \o T)[Len(E) + i] = T[i]
    BY <1>1, <1>3, ConcatIs
  <2>2. Len(T) \in 1..Len(T)
    BY <1>3, <2>1
  <2>3. (E \o T)[Len(E) + Len(T)] = T[Len(T)]
    BY <2>1, <2>2
  <2> QED BY <2>1, <2>3
<1> HIDE DEF n
<1>5. ASSUME NEW p \in 1..Len(r)
      PROVE  /\ Fits(max, r[p], A)
             /\ r[p].type \in {"fallback.started", "operation.failed"} => GivenUp(max, past)
             /\ r[p].type \in Preludes => r[p].n \in 1..n
  <2>1. Fits(max, r[p], past)
    BY <1>2
  <2>2. r[p].type \in Preludes \cup AttemptEnds \cup {"retry.scheduled"} =>
          r[p].n \in 1..n /\ r[p].n \in 1..Len(A) /\ A[r[p].n] = past[r[p].n]
    <3>1. ASSUME r[p].n \in 1..n
          PROVE  r[p].n \in 1..Len(A) /\ A[r[p].n] = past[r[p].n]
      BY <1>1, <3>1
    <3> QED BY <2>1, <3>1 DEF Fits, n
  <2>3. Fits(max, r[p], A)
    BY <2>1, <2>2 DEF Fits
  <2> QED BY <2>1, <2>2, <2>3 DEF Fits
<1>6. \A type \in Preludes : \A i : ~Has(T, type, i)
  <2> SUFFICES ASSUME NEW type \in Preludes, NEW q \in Positions(T, {type}) PROVE FALSE
    BY DEF Has
  <2>1. q \in 1..Len(T) /\ T[q].type = type
    BY <1>3 DEF Positions
  <2>2. T[1].type = "append" /\ "append" \notin Preludes
    BY <1>3 DEF Preludes
  <2>3. q # 1
    BY <2>1, <2>2
  <2>4. 1 \in 1..Len(T) /\ 1 < q
    BY <2>1, <2>3
  <2>5. T[1].type \in Preludes
    BY <1>3, <2>1, <2>4 DEF Course, Ordered
  <2> QED BY <2>2, <2>5
<1>7. \A type \in Preludes : \A i : Has(E \o T, type, i) <=> Has(E, type, i)
  BY <1>1, <1>3, <1>6, HasConcat
<1>8. \A type : \A i \in 1..n : ~Has(E, type, i)
  <2> SUFFICES ASSUME NEW type, NEW i \in 1..n, NEW q \in Positions(E, {type}), E[q].n = i
               PROVE  FALSE
    BY DEF Has
  <2>1. q \in 1..Len(E)
    BY <1>1 DEF Positions
  <2>2. E[q].n = n + 1
    BY <1>1, <2>1
  <2> QED BY <1>1, <2>2
<1>9. \A type \in Preludes : ~Has(r, type, n + 1)
  <2> SUFFICES ASSUME NEW type \in Preludes, NEW p \in Positions(r, {type}), r[p].n = n + 1
               PROVE  FALSE
    BY DEF Has
  <2>1. r[p].n \in 1..n
    BY <1>5 DEF Positions
  <2> QED BY <1>1, <2>1
<1>10. \A type : \A i : ~Has(<<>>, type, i)
  BY DEF Has, Positions
<1>11. /\ "validation.succeeded" \in Preludes /\ "validation.failed" \in Preludes
       /\ "circuit_breaker.rejected" \in Preludes
       /\ "rate_limit.detected" \in Preludes /\ "rate_limit.wait_exceeded" \in Preludes
  BY DEF Preludes
<1>12. ASSUME NEW i \in 1..Len(A) PROVE Heard(r, E \o T, i, A[i])
  <2>1. CASE i \in 1..n
    <3>1. \A type \in Preludes : ~Has(E \o T, type, i)
      BY <1>7, <1>8, <2>1
    <3>2. Heard(r, <<>>, i, past[i]) /\ A[i] = past[i]
      BY <1>1, <1>2, <2>1
    <3> QED BY <1>10, <1>11, <3>1, <3>2 DEF Heard
  <2>2. CASE i = n + 1
    <3>1. \A type \in Preludes : ~Has(r, type, i) /\ (Has(E \o T, type, i) <=> Has(E, type, i))
      BY <1>7, <1>9, <2>2
    <3>2. Heard(<<>>, E, i, A[i])
      BY <1>1, <2>2
    <3> QED BY <1>10, <1>11, <3>1, <3>2 DEF Heard
  <2>3. i \in 1..n \/ i = n + 1
    BY <1>1
  <2> QED BY <2>1, <2>2, <2>3
<1>13. Once(r, E \o T, AttemptEnds, Len(A))
  <2>1. 1 \in Positions(T, {"append"})
    BY <1>3 DEF Positions
  <2>2. Positions(T, AttemptEnds) # {}
    BY <1>3, <2>1 DEF Course, Ordered
  <2>3. \A q \in Positions(T, AttemptEnds) : T[q].n = Len(A)
    BY <1>3 DEF Course, Positions
  <2>4. Len(A) > 0 /\ Len(A) - 1 = n
    BY <1>1
  <2>5. Once(r, T, AttemptEnds, Len(A))
    BY <1>2, <2>2, <2>3, <2>4 DEF Once, Closing
  <2>6. \A i \in 1..Len(E) : E[i].type \notin AttemptEnds
    BY <1>1 DEF Preludes, AttemptEnds
  <2> QED BY <1>1, <1>3, <2>5, <2>6, OnceBefore
<1>14. Once(r, E \o T, {"attempt.started"}, Primary(A))
  <2>1. OnceEach(r, {"attempt.started"}, 1..Primary(A))
    BY <1>1, <1>2
  <2>2. Once(r, T, {"attempt.started"}, Primary(A))
    BY <2>1 DEF Once, Closing
  <2>3. \A i \in 1..Len(E) : E[i].type \notin {"attempt.started"}
    BY <1>1 DEF Preludes
  <2> QED BY <1>1, <1>3, <2>2, <2>3, OnceBefore
<1>15. Once(r, E \o T, {"retry.scheduled"},
            IF T[Len(T)].type \in {"call", "sleep"} THEN Len(A) ELSE Primary(A) - 1)
  <2>1. T[Len(T)].type # "call"
    BY DEF Closing
  <2>2. CASE T[Len(T)].type = "sleep"
    <3>1. OnceEach(r, {"retry.scheduled"}, 1..(Len(A) - 1)) /\ Len(A) > 0
      <4>1. Len(A) - 1 = n /\ Len(A) > 0
        BY <1>1
      <4> QED BY <1>2, <2>2, <4>1
    <3>2. Positions(T, {"retry.scheduled"}) # {}
      BY <2>2 DEF Closing
    <3>3. Once(r, T, {"retry.scheduled"}, Len(A))
      BY <3>1, <3>2 DEF Once, Closing
    <3>4. \A i \in 1..Len(E) : E[i].type \notin {"retry.scheduled"}
      BY <1>1 DEF Preludes
    <3> QED BY <1>1, <1>3, <2>2, <3>3, <3>4, OnceBefore
  <2>3. CASE T[Len(T)].type # "sleep"
    <3>1. OnceEach(r, {"retry.scheduled"}, 1..(Primary(A) - 1))
      <4>1. CASE s[1].type = "call"
        <5>1. Primary(A) - 1 = n
          BY <1>1, <4>1
        <5> QED BY <1>2, <4>1, <5>1
      <4>2. CASE s[1].type = "candidate"
        BY <1>2, <4>2
      <4> QED BY <4>1, <4>2
    <3>2. Positions(T, {"retry.scheduled"}) = {}
      BY <2>3 DEF Closing
    <3>3. Once(r, T, {"retry.scheduled"}, Primary(A) - 1)
      BY <3>1, <3>2 DEF Once
    <3>4. \A i \in 1..Len(E) : E[i].type \notin {"retry.scheduled"}
      BY <1>1 DEF Preludes
    <3>5. Once(r, E \o T, {"retry.scheduled"}, Primary(A) - 1)
      BY <1>1, <1>3, <3>3, <3>4, OnceBefore
    <3> QED BY <2>1, <2>3, <3>5
  <2> QED BY <2>2, <2>3
<1>16. T[Len(T)].type # "call"
  BY DEF Closing
<1> QED BY <1>2, <1>5, <1>12, <1>13, <1>14, <1>15, <1>16, <1>17, <1>18 DEF Tale


\* The story at an await, which is all that lies ahead.
LEMMA AtAwait ==
  ASSUME SInv, NEW type \in Awaits, At(type)
  PROVE  /\ Running /\ ~AtEvent /\ IInv /\ sink = 1
         /\ cfg \in Configs /\ cfg.maxAttempts \in Nat \ {0}
         /\ attempts \in Seq(AttemptType) /\ received \in [Sinks -> Seq(Items)]
         /\ todo \in Seq(Items) /\ Len(todo) = 1 /\ Head(todo) = todo[1]
         /\ todo[1].type = type /\ todo[1] \in Items
         /\ Ran(cfg.maxAttempts, attempts) /\ Limits(limits, attempts)
         /\ Course(cfg.maxAttempts, todo, attempts)
         /\ Leads(cfg.maxAttempts, todo[1], attempts)
         /\ \A t \in Sinks : /\ Tale(cfg.maxAttempts, received[t], todo, attempts, attempts)
                             /\ Waited(limits, received[t], todo)
<1>1. Running /\ ~AtEvent /\ IInv /\ sink = 1
  BY DEF SInv, At, AtEvent, IInv, OnItsWay
<1>2. /\ cfg \in Configs /\ cfg.maxAttempts \in Nat \ {0} /\ cfg.sinks \in Nat
      /\ attempts \in Seq(AttemptType) /\ received \in [Sinks -> Seq(Items)]
  BY <1>1, ConfigAssumption DEF IInv, Typed, ConfigType
<1>3. /\ Path(todo) /\ todo \in Seq(Items) /\ Len(todo) \in Nat \ {0}
      /\ Head(todo) = todo[1] /\ todo[1] \in Items /\ todo[1].type = type
  BY <1>1 DEF IInv, Suspended, Path, At
<1>4. Len(todo) = 1
  <2>1. 1 \in 1..Len(todo) /\ todo[1].type \in Awaits \cup Ends
    BY <1>3
  <2>2. 1 = Len(todo)
    BY <1>3, <2>1 DEF Path
  <2> QED BY <2>2
<1>5. PICK A \in Written(attempts, todo) :
        /\ Ran(cfg.maxAttempts, A) /\ Limits(limits, A) /\ Course(cfg.maxAttempts, todo, A)
        /\ \A t \in Sinks : /\ Tale(cfg.maxAttempts, received[t], Rest(t), attempts, A)
                            /\ Waited(limits, received[t], Rest(t))
  BY <1>1 DEF SInv, Telling
<1>6. A = attempts
  <2>1. Positions(todo, {"append"}) = {}
    BY <1>3, <1>4 DEF Positions, Awaits
  <2> QED BY <2>1 DEF Written
<1>7. \A t \in Sinks : Rest(t) = todo
  <2>1. \A t \in Sinks : ~(t < sink)
    BY <1>1, <1>2 DEF Sinks
  <2> QED BY <2>1 DEF Rest
<1>8. Leads(cfg.maxAttempts, todo[1], attempts)
  BY <1>4, <1>5, <1>6 DEF Course
<1> QED BY <1>1, <1>2, <1>3, <1>4, <1>5, <1>6, <1>7, <1>8

\* The end of an await that records an attempt.
LEMMA NewChapter ==
  ASSUME SInv, IInv', NEW type \in {"call", "candidate"}, At(type),
         NEW a \in AttemptType, a.number = Len(attempts) + 1,
         type = "call" => ~a.fallback /\ ("exceeded" \in a.meta.flags => ~a.retryable),
         type = "candidate" => a.fallback /\ a.meta.flags \subseteq {"open"},
         NEW E, Opening(E, Append(attempts, a)),
         NEW T, Closing(cfg.maxAttempts, T, Append(attempts, a)),
         type = "candidate" => T[Len(T)].type # "sleep",
         Path(E \o T), Continue(E \o T), cfg' = cfg, UNCHANGED emitter,
         limits' \in [encountered : BOOLEAN, exceeded : BOOLEAN, waits : Nat],
         limits'.waits = limits.waits,
         limits'.encountered <=> limits.encountered \/ "limited" \in a.meta.flags,
         limits'.exceeded <=> limits.exceeded \/ "exceeded" \in a.meta.flags
  PROVE  SInv'
<1> DEFINE max == cfg.maxAttempts
           n == Len(attempts)
<1>1. /\ Running /\ ~AtEvent /\ IInv /\ sink = 1 /\ max \in Nat \ {0}
      /\ attempts \in Seq(AttemptType) /\ received \in [Sinks -> Seq(Items)]
      /\ todo \in Seq(Items) /\ Len(todo) = 1 /\ todo[1].type = type
      /\ Ran(max, attempts) /\ Limits(limits, attempts)
      /\ Leads(max, todo[1], attempts)
      /\ \A t \in Sinks : /\ Tale(max, received[t], todo, attempts, attempts)
                          /\ Waited(limits, received[t], todo)
  <2>1. type \in Awaits
    BY DEF Awaits
  <2> QED BY <2>1, AtAwait
<1>2. /\ type = "call" => MayGoOn(max, attempts)
      /\ type = "candidate" =>
           /\ n > 0 /\ ~attempts[n].fallback /\ attempts[n].status # "succeeded"
           /\ GivenUp(max, attempts)
  BY <1>1 DEF Leads
<1>3. PICK A : A = Append(attempts, a)
  OBVIOUS
<1>4. /\ n \in Nat /\ A \in Seq(AttemptType) /\ Len(A) = n + 1
      /\ \A i \in 1..n : A[i] = attempts[i]
      /\ A[n + 1] = a
  BY <1>1, <1>3, AppendProperties
<1>5. Ran(max, A)
  BY <1>1, <1>2, <1>3, RanOn
<1>6. GivenUp(max, attempts) => GivenUp(max, A)
  BY <1>1, <1>2, <1>3, GivenUpOn
<1>7. Opening(E, A) /\ Closing(max, T, A)
  BY <1>3
<1>8. /\ Course(max, E \o T, A) /\ A \in Written(attempts, E \o T)
      /\ (E \o T)[1].type \notin Ends \cup {"sleep"}
  <2>1. Len(A) > 0
    BY <1>4
  <2>2. T[1] = Record(A[n + 1])
    BY <1>4, <1>7 DEF Closing
  <2>3. T[1].attempt = a
    BY <1>4, <2>2 DEF Record
  <2>4. /\ Course(max, E \o T, A)
        /\ \A past : Append(past, T[1].attempt) \in Written(past, E \o T)
        /\ Len(E \o T) > 0 /\ (E \o T)[1].type \notin Ends \cup {"sleep"}
    BY <1>4, <1>7, <2>1, ChapterCourse
  <2>5. Append(attempts, T[1].attempt) \in Written(attempts, E \o T)
    BY <2>4
  <2> QED BY <1>3, <2>3, <2>4, <2>5
<1>9. \/ type = "call" /\ Primary(A) = Len(A)
      \/ /\ type = "candidate" /\ T[Len(T)].type # "sleep"
         /\ Primary(attempts) = Primary(A)
  <2>1. A # <<>>
    BY <1>3, <1>1, AppendProperties
  <2>2. CASE type = "call"
    <3>1. ~A[Len(A)].fallback
      BY <1>4, <2>2
    <3> QED BY <2>2, <3>1 DEF Primary
  <2>3. CASE type = "candidate"
    <3>1. A[Len(A)].fallback
      BY <1>4, <2>3
    <3>2. Primary(A) = Len(A) - 1
      BY <2>1, <3>1 DEF Primary
    <3>3. Primary(attempts) = n
      BY <1>2, <2>3 DEF Primary
    <3> QED BY <1>4, <2>3, <3>2, <3>3
  <2> QED BY <2>2, <2>3
<1> HIDE DEF max
<1>10. Limits(limits', A)
  <2>1. \A i \in 1..Len(A) : i \in 1..n \/ i = n + 1
    BY <1>4
  <2>2. n + 1 \in 1..Len(A) /\ \A i \in 1..n : i \in 1..Len(A)
    BY <1>4
  <2>3. (\E i \in 1..Len(A) : "limited" \in A[i].meta.flags) <=>
          (\E i \in 1..n : "limited" \in attempts[i].meta.flags) \/ "limited" \in a.meta.flags
    BY <1>4, <2>1, <2>2
  <2>4. (\E i \in 1..Len(A) : "exceeded" \in A[i].meta.flags) <=>
          (\E i \in 1..n : "exceeded" \in attempts[i].meta.flags) \/ "exceeded" \in a.meta.flags
    BY <1>4, <2>1, <2>2
  <2> QED BY <1>1, <2>3, <2>4 DEF Limits
<1> HIDE DEF n
<1>11. ASSUME NEW t \in Sinks
       PROVE  /\ Tale(max, received'[t], E \o T, attempts, A)
              /\ Waited(limits', received'[t], E \o T)
  <2>1. received'[t] = received[t] /\ received[t] \in Seq(Items)
    BY <1>1 DEF emitter
  <2>2. Tale(max, received[t], todo, attempts, attempts)
    BY <1>1
  <2>3. Len(A) = Len(attempts) + 1 /\ \A i \in 1..Len(attempts) : A[i] = attempts[i]
    BY <1>4 DEF n
  <2>4. \/ todo[1].type = "call" /\ Primary(A) = Len(A)
        \/ /\ todo[1].type = "candidate" /\ T[Len(T)].type # "sleep"
           /\ Primary(attempts) = Primary(A)
    BY <1>1, <1>9
  <2>5. Tale(max, received[t], E \o T, attempts, A)
    BY <1>1, <1>4, <1>6, <1>7, <2>1, <2>2, <2>3, <2>4, ChapterTale
  <2>6. Waited(limits, received[t], todo) /\ todo[1].type # "sleep"
    BY <1>1
  <2>7. Waited(limits', received[t], E \o T)
    BY <1>8, <2>6 DEF Waited
  <2> QED BY <2>1, <2>5, <2>7
<1>12. sink' = 1 /\ received' \in [Sinks -> Seq(Items)]
  BY <1>1 DEF emitter
<1> QED BY <1>1, <1>5, <1>8, <1>10, <1>11, <1>12, StoryGoesOn DEF max


-----------------------------------------------------------------------------
(* The paths of the code                                                   *)

\* The events before an await or an end.
Announces(v, x, n) ==
  \/ v.type = "operation.succeeded" /\ x.type = "returned"
  \/ v.type = "operation.failed" /\ x.type = "failed"
  \/ v.type = "fallback.started" /\ x.type = "candidate"
  \/ /\ v.type = "retry.scheduled" /\ x.type = "sleep"
     /\ v.limited = x.limited /\ v.n = n

\* An event about an attempt says how it ended.
Told(u, A) ==
  /\ u.type \in AttemptEnds /\ u.n = Len(A)
  /\ u.type = "attempt.succeeded" <=> A[Len(A)].status = "succeeded"

\* A record, the event about it, what is announced and where that leads.
LEMMA ClosingIs ==
  ASSUME NEW max, NEW A \in Seq(AttemptType), Len(A) > 0,
         NEW u \in Items, Told(u, A),
         NEW v \in Items, Fits(max, v, A), NEW x \in Items, Leads(max, x, A),
         Announces(v, x, Len(A))
  PROVE  Closing(max, <<Record(A[Len(A)]), u, v, x>>, A)
<1>1. PICK r : r = Record(A[Len(A)])
  OBVIOUS
<1>2. Len(A) \in 1..Len(A) /\ A[Len(A)] \in AttemptType
  BY ElementOfSeq
<1>3. r \in Items /\ r.type = "append"
  BY <1>1, <1>2, RecordIs DEF Quiet
<1>4. PICK T : T = <<r, u, v, x>>
  OBVIOUS
<1>5. /\ T \in Seq(Items) /\ Len(T) = 4 /\ T[1] = r /\ T[2] = u /\ T[3] = v /\ T[4] = x
      /\ \A i \in 1..4 : i = 1 \/ i = 2 \/ i = 3 \/ i = 4
  BY <1>3, <1>4
<1>6. /\ u.type \in AttemptEnds /\ u.n = Len(A)
      /\ v.type \in {"operation.succeeded", "operation.failed", "fallback.started",
                     "retry.scheduled"}
      /\ x.type \in Ends \cup {"candidate", "sleep"}
  BY DEF Told, Announces, Ends
<1>7. /\ Positions(T, Preludes) = {} /\ Positions(T, {"append"}) = {1}
      /\ Positions(T, AttemptEnds) = {2} /\ Positions(T, {"attempt.started"}) = {}
      /\ Positions(T, {"retry.scheduled"}) = IF v.type = "retry.scheduled" THEN {3} ELSE {}
  BY <1>3, <1>5, <1>6 DEF Positions, Preludes, AttemptEnds, Ends
<1>8. Ordered(T)
  <2>1. \A i, j \in 1..Len(T) :
          i < j /\ T[j].type \in Preludes \cup {"append"} => T[i].type \in Preludes
    BY <1>3, <1>5, <1>6 DEF Preludes, AttemptEnds, Ends
  <2>2. ASSUME NEW i \in 1..(Len(T) - 1)
        PROVE  /\ T[i].type \in OperationEnds <=> T[i + 1].type \in Ends
               /\ T[i].type = "operation.succeeded" <=> T[i + 1].type = "returned"
               /\ T[i].type = "retry.scheduled" <=> T[i + 1].type = "sleep"
               /\ T[i + 1].type = "sleep" => T[i].limited = T[i + 1].limited
    <3>1. i = 1 \/ i = 2 \/ i = 3
      BY <1>5
    <3>2. CASE i = 1
      <4>1. T[i] = r /\ T[i + 1] = u
        BY <1>5, <3>2
      <4> QED BY <4>1, <1>3, <1>6 DEF AttemptEnds, OperationEnds, Ends
    <3>3. CASE i = 2
      <4>1. T[i] = u /\ T[i + 1] = v
        BY <1>5, <3>3
      <4> QED BY <4>1, <1>6 DEF AttemptEnds, OperationEnds, Ends
    <3>4. CASE i = 3
      <4>1. T[i] = v /\ T[i + 1] = x
        BY <1>5, <3>4
      <4> QED BY <4>1 DEF Announces, OperationEnds, Ends
    <3> QED BY <3>1, <3>2, <3>3, <3>4
  <2> QED BY <1>7, <2>1, <2>2 DEF Ordered
<1>9. /\ Fits(max, r, A) /\ Fits(max, u, A) /\ Fits(max, x, A)
      /\ r.type \notin Preludes \cup AttemptEnds /\ v.type \notin Preludes \cup AttemptEnds
      /\ x.type \notin Preludes \cup AttemptEnds
  BY <1>2, <1>3, <1>6 DEF Fits, Told, Preludes, AttemptEnds, Ends
<1>10. Course(max, T, A)
  <2>1. ASSUME NEW i \in 1..Len(T)
        PROVE  /\ Fits(max, T[i], A)
               /\ T[i].type \in Preludes \cup AttemptEnds => T[i].n = Len(A)
    <3>1. T[i] = r \/ T[i] = u \/ T[i] = v \/ T[i] = x
      BY <1>5
    <3> QED BY <1>6, <1>9, <3>1
  <2>2. Leads(max, T[Len(T)], A)
    BY <1>5
  <2> QED BY <1>8, <2>1, <2>2 DEF Course
<1>11. /\ \A p \in Positions(T, {"retry.scheduled"}) : T[p].n = Len(A)
       /\ Positions(T, {"retry.scheduled"}) = {} <=> T[Len(T)].type # "sleep"
       /\ T[Len(T)].type # "call"
  BY <1>5, <1>6, <1>7 DEF Announces, Ends
<1>12. Closing(max, T, A)
  BY <1>1, <1>5, <1>7, <1>10, <1>11 DEF Closing
<1> QED BY <1>1, <1>4, <1>12

\* So it is for a fallback attempt, which has an event of its own.
LEMMA FallbackClosingIs ==
  ASSUME NEW max, NEW A \in Seq(AttemptType), Len(A) > 0,
         NEW f \in Items, f.type \in {"fallback.succeeded", "fallback.failed"},
         NEW u \in Items, Told(u, A),
         NEW v \in Items, Fits(max, v, A), NEW x \in Items, Leads(max, x, A),
         Announces(v, x, Len(A)), x.type \in Ends
  PROVE  /\ Closing(max, <<Record(A[Len(A)]), f, u, v, x>>, A)
<1>1. PICK r : r = Record(A[Len(A)])
  OBVIOUS
<1>2. Len(A) \in 1..Len(A) /\ A[Len(A)] \in AttemptType
  BY ElementOfSeq
<1>3. r \in Items /\ r.type = "append"
  BY <1>1, <1>2, RecordIs DEF Quiet
<1>4. PICK T : T = <<r, f, u, v, x>>
  OBVIOUS
<1>5. /\ T \in Seq(Items) /\ Len(T) = 5 /\ T[1] = r /\ T[2] = f /\ T[3] = u /\ T[4] = v
      /\ T[5] = x /\ \A i \in 1..5 : i = 1 \/ i = 2 \/ i = 3 \/ i = 4 \/ i = 5
  BY <1>3, <1>4
<1>6. /\ u.type \in AttemptEnds /\ u.n = Len(A)
      /\ v.type \in {"operation.succeeded", "operation.failed"} /\ x.type \in Ends
  BY DEF Told, Announces, Ends
<1>7. /\ Positions(T, Preludes) = {} /\ Positions(T, {"append"}) = {1}
      /\ Positions(T, AttemptEnds) = {3} /\ Positions(T, {"attempt.started"}) = {}
      /\ Positions(T, {"retry.scheduled"}) = {}
  BY <1>3, <1>5, <1>6 DEF Positions, Preludes, AttemptEnds, Ends
<1>8. Ordered(T)
  <2>1. \A i, j \in 1..Len(T) :
          i < j /\ T[j].type \in Preludes \cup {"append"} => T[i].type \in Preludes
    BY <1>3, <1>5, <1>6 DEF Preludes, AttemptEnds, Ends
  <2>2. ASSUME NEW i \in 1..(Len(T) - 1)
        PROVE  /\ T[i].type \in OperationEnds <=> T[i + 1].type \in Ends
               /\ T[i].type = "operation.succeeded" <=> T[i + 1].type = "returned"
               /\ T[i].type = "retry.scheduled" <=> T[i + 1].type = "sleep"
               /\ T[i + 1].type = "sleep" => T[i].limited = T[i + 1].limited
    <3>1. i = 1 \/ i = 2 \/ i = 3 \/ i = 4
      BY <1>5
    <3>2. CASE i = 1
      <4>1. T[i] = r /\ T[i + 1] = f
        BY <1>5, <3>2
      <4> QED BY <4>1, <1>3 DEF AttemptEnds, OperationEnds, Ends
    <3>3. CASE i = 2
      <4>1. T[i] = f /\ T[i + 1] = u
        BY <1>5, <3>3
      <4> QED BY <4>1, <1>6 DEF AttemptEnds, OperationEnds, Ends
    <3>4. CASE i = 3
      <4>1. T[i] = u /\ T[i + 1] = v
        BY <1>5, <3>4
      <4> QED BY <4>1, <1>6 DEF AttemptEnds, OperationEnds, Ends
    <3>5. CASE i = 4
      <4>1. T[i] = v /\ T[i + 1] = x
        BY <1>5, <3>5
      <4> QED BY <4>1 DEF Announces, OperationEnds, Ends
    <3> QED BY <3>1, <3>2, <3>3, <3>4, <3>5
  <2> QED BY <1>7, <2>1, <2>2 DEF Ordered
<1>9. /\ Fits(max, r, A) /\ Fits(max, f, A) /\ Fits(max, u, A) /\ Fits(max, x, A)
      /\ r.type \notin Preludes \cup AttemptEnds /\ v.type \notin Preludes \cup AttemptEnds
      /\ f.type \notin Preludes \cup AttemptEnds /\ x.type \notin Preludes \cup AttemptEnds
  BY <1>2, <1>3, <1>6 DEF Fits, Told, Preludes, AttemptEnds, Ends
<1>10. Course(max, T, A)
  <2>1. ASSUME NEW i \in 1..Len(T)
        PROVE  /\ Fits(max, T[i], A)
               /\ T[i].type \in Preludes \cup AttemptEnds => T[i].n = Len(A)
    <3>1. T[i] = r \/ T[i] = f \/ T[i] = u \/ T[i] = v \/ T[i] = x
      BY <1>5
    <3> QED BY <1>6, <1>9, <3>1
  <2>2. Leads(max, T[Len(T)], A)
    BY <1>5
  <2> QED BY <1>8, <2>1, <2>2 DEF Course
<1>11. T[Len(T)].type \in Ends
  BY <1>5
<1>12. Closing(max, T, A)
  BY <1>1, <1>5, <1>7, <1>10, <1>11 DEF Closing, Ends
<1> QED BY <1>1, <1>4, <1>12

\* The events that may be told of attempt n before its record.
PreludesOf(n) == {x \in Events : x.type \in Preludes /\ x.n = n}

LEMMA PreludeIs ==
  ASSUME NEW n \in Nat
  PROVE  /\ \A type \in Preludes : \A b \in BOOLEAN :
              When(b, Ev(type, n)) \in Seq(PreludesOf(n))
         /\ \A E \in Seq(PreludesOf(n)) :
              /\ E \in Seq(Items) /\ E \in Seq(Events)
              /\ \A i \in 1..Len(E) : E[i].type \in Preludes /\ E[i].n = n
<1>1. ASSUME NEW type \in Preludes, NEW b \in BOOLEAN
      PROVE  When(b, Ev(type, n)) \in Seq(PreludesOf(n))
  <2>1. Ev(type, n) \in Events
    BY EventIs DEF EventTypes, Preludes
  <2>2. Ev(type, n) \in PreludesOf(n)
    BY <2>1 DEF PreludesOf, Ev
  <2> QED BY <2>2, WhenIs
<1>2. ASSUME NEW E \in Seq(PreludesOf(n))
      PROVE  /\ E \in Seq(Items) /\ E \in Seq(Events)
             /\ \A i \in 1..Len(E) : E[i].type \in Preludes /\ E[i].n = n
  <2>1. PreludesOf(n) \subseteq Items /\ PreludesOf(n) \subseteq Events
    BY DEF PreludesOf, Events
  <2>2. E \in Seq(Items) /\ E \in Seq(Events)
    BY <2>1, SeqMonotonic
  <2>3. \A i \in 1..Len(E) : E[i] \in PreludesOf(n)
    BY ElementOfSeq
  <2> QED BY <2>2, <2>3 DEF PreludesOf
<1> QED BY <1>1, <1>2

\* An optional event is there if its condition holds.
LEMMA HasWhen ==
  ASSUME NEW b \in BOOLEAN, NEW type, NEW n, NEW k
  PROVE  Has(When(b, Ev(type, n)), k, n) <=> b /\ k = type
<1>1. CASE b
  <2>1. PICK x : x = Ev(type, n)
    OBVIOUS
  <2>2. When(b, Ev(type, n)) = <<x>> /\ x.type = type /\ x.n = n
    BY <1>1, <2>1 DEF When, Ev
  <2>3. Has(<<x>>, k, n) <=> k = type
    BY <2>2 DEF Has, Positions
  <2> QED BY <1>1, <2>2, <2>3
<1>2. CASE ~b
  <2>1. When(b, Ev(type, n)) = <<>>
    BY <1>2 DEF When
  <2>2. ~Has(<<>>, k, n)
    BY DEF Has, Positions
  <2> QED BY <1>2, <2>1, <2>2
<1> QED BY <1>1, <1>2

\* The invalid results of a chain are told as such, and one of them is told
\* if the last failure was one.
LEMMA HasInvalid ==
  ASSUME NEW fs \in Seq(Classes), NEW n \in Nat
  PROVE  /\ InvalidEvents(fs, n) \in Seq(PreludesOf(n))
         /\ \A k : Has(InvalidEvents(fs, n), k, n) => k = "validation.failed"
         /\ \A j \in DOMAIN fs : fs[j] = "invalid" =>
              Has(InvalidEvents(fs, n), "validation.failed", n)
<1> DEFINE J == {j \in DOMAIN fs : fs[j] = "invalid"}
           c == Cardinality(J)
           E == InvalidEvents(fs, n)
<1>1. IsFiniteSet(J)
  <2>1. IsFiniteSet(DOMAIN fs)
    BY LenProperties, FS_Interval
  <2> QED BY <2>1, FS_Subset
<1>2. c \in Nat /\ (J # {} => c # 0)
  BY <1>1, FS_CardinalityType, FS_EmptySet
<1>3. PICK x : x = Ev("validation.failed", n)
  OBVIOUS
<1>4. /\ x \in PreludesOf(n) /\ x.type = "validation.failed" /\ x.n = n
  <2>1. x \in Events
    BY <1>3, EventIs DEF EventTypes
  <2>2. x.type = "validation.failed" /\ x.n = n
    BY <1>3 DEF Ev
  <2> QED BY <2>1, <2>2 DEF PreludesOf, Preludes
<1>5. E = [i \in 1..c |-> x]
  BY <1>3 DEF InvalidEvents
<1> HIDE DEF c, E
<1>6. E \in Seq(PreludesOf(n))
  BY <1>2, <1>4, <1>5, SeqDef
<1>7. ASSUME NEW k, Has(E, k, n) PROVE k = "validation.failed"
  <2>1. PICK q \in DOMAIN E : E[q].type = k
    BY <1>7 DEF Has, Positions
  <2> QED BY <1>4, <1>5, <2>1
<1>8. ASSUME NEW j \in DOMAIN fs, fs[j] = "invalid" PROVE Has(E, "validation.failed", n)
  <2>1. 1 \in 1..c
    <3>1. j \in J
      BY <1>8
    <3>2. c # 0
      BY <1>2, <3>1
    <3> QED BY <1>2, <3>2
  <2>2. 1 \in DOMAIN E /\ E[1] = x
    BY <1>5, <2>1
  <2>3. 1 \in Positions(E, {"validation.failed"})
    BY <1>4, <2>2 DEF Positions
  <2> QED BY <1>4, <2>2, <2>3 DEF Has
<1> QED BY <1>6, <1>7, <1>8 DEF E

\* What is told before the record agrees with it: no event was there before.
LEMMA OpeningIs ==
  ASSUME NEW A \in Seq(AttemptType), NEW a, A[Len(A)] = a, Len(A) \in Nat,
         NEW E \in Seq(PreludesOf(Len(A))),
         a.meta.verdict = "valid" <=> Has(E, "validation.succeeded", Len(A)),
         a.meta.verdict = "invalid" => Has(E, "validation.failed", Len(A)),
         ~a.fallback =>
           /\ Has(E, "validation.failed", Len(A)) => a.meta.verdict = "invalid"
           /\ "open" \in a.meta.flags <=> Has(E, "circuit_breaker.rejected", Len(A)),
         "limited" \in a.meta.flags <=> Has(E, "rate_limit.detected", Len(A)),
         "exceeded" \in a.meta.flags <=> Has(E, "rate_limit.wait_exceeded", Len(A))
  PROVE  Opening(E, A)
<1>1. \A type : ~Has(<<>>, type, Len(A))
  BY DEF Has, Positions
<1>2. PICK n \in Nat : n = Len(A)
  OBVIOUS
<1>3. Heard(<<>>, E, n, a)
  BY <1>1, <1>2 DEF Heard
<1>4. E \in Seq(Items) /\ \A i \in 1..Len(E) : E[i].type \in Preludes /\ E[i].n = n
  BY <1>2, PreludeIs
<1> QED BY <1>2, <1>3, <1>4 DEF Opening

-----------------------------------------------------------------------------
(* The steps                                                               *)

\* The path to the next attempt.
LEMMA NextCourse ==
  ASSUME NEW max, NEW A, Len(A) \in Nat, MayGoOn(max, A)
  PROVE  LET m == Len(A) + 1
             s == <<Ev("attempt.started", m), CallAttempt(m)>>
         IN  /\ Path(s) /\ Len(s) = 2 /\ s[1].type = "attempt.started" /\ s[1].n = m
             /\ s[2].type = "call"
             /\ Course(max, s, A)
<1>1. PICK m \in Nat : m = Len(A) + 1
  OBVIOUS
<1>2. PICK u \in Events, x \in Items :
        /\ u = Ev("attempt.started", m) /\ u.type = "attempt.started" /\ u.n = m
        /\ x = CallAttempt(m) /\ x.type = "call" /\ x.n = m
  <2>1. Ev("attempt.started", m) \in Events
    BY EventIs DEF EventTypes
  <2>2. CallAttempt(m) \in Items
    BY DEF CallAttempt, Items
  <2> QED BY <2>1, <2>2 DEF Ev, CallAttempt
<1>3. PICK s : s = <<u, x>>
  OBVIOUS
<1>4. Path(s)
  BY <1>2, <1>3, PathEnds DEF Awaits
<1>5. Len(s) = 2 /\ s[1] = u /\ s[2] = x
  BY <1>3
<1>6. /\ \A i \in 1..Len(s) : s[i].type \in {"attempt.started", "call"}
      /\ \A i \in 1..(Len(s) - 1) : s[i].type = "attempt.started" /\ s[i + 1].type = "call"
  <2>1. \A i \in 1..Len(s) : i = 1 \/ i = 2
    BY <1>5
  <2>2. \A i \in 1..(Len(s) - 1) : i = 1
    BY <1>5
  <2> QED BY <1>2, <1>5, <2>1, <2>2
<1>7. Positions(s, Preludes) = {} /\ Positions(s, {"append"}) = {}
  <2>1. DOMAIN s = 1..Len(s)
    BY <1>3
  <2> QED BY <1>6, <2>1 DEF Positions, Preludes
<1>8. Ordered(s)
  BY <1>6, <1>7 DEF Ordered, Preludes, OperationEnds, Ends
<1>9. Leads(max, x, A) /\ Fits(max, u, A) /\ Fits(max, x, A)
  BY <1>1, <1>2 DEF Leads, Fits, Preludes, AttemptEnds
<1>10. Course(max, s, A)
  <2>1. \A i \in 1..Len(s) : s[i] = u \/ s[i] = x
    BY <1>5
  <2>2. s[Len(s)] = x
    BY <1>5
  <2> QED BY <1>6, <1>8, <1>9, <2>1, <2>2 DEF Course, Preludes, AttemptEnds
<1> QED BY <1>1, <1>2, <1>3, <1>4, <1>5, <1>10

\* What r has received when a delay is over.
LEMMA NextTale ==
  ASSUME NEW max, NEW A, Len(A) \in Nat, MayGoOn(max, A),
         NEW r \in Seq(Items), NEW s \in Seq(Items), Len(s) = 1, s[1].type = "sleep",
         Tale(max, r, s, A, A),
         NEW u, Len(u) = 2, DOMAIN u = 1..2,
         u[1].type = "attempt.started", u[1].n = Len(A) + 1, u[2].type = "call"
  PROVE  Tale(max, r, u, A, A)
<1>1. /\ \A p \in 1..Len(r) : Fits(max, r[p], A)
      /\ \A i \in 1..Len(A) : Heard(r, <<>>, i, A[i])
      /\ OnceEach(r, AttemptEnds, 1..Len(A)) /\ Positions(r, OperationEnds) = {}
      /\ OnceEach(r, {"attempt.started"}, 1..Primary(A))
      /\ OnceEach(r, {"retry.scheduled"}, 1..Len(A))
  <2>1. s[1].type \in Awaits /\ s[1].type # "call"
    BY DEF Awaits
  <2> QED BY <2>1, AwaitTale
<1>2. PICK m \in Nat : m = Len(A)
  OBVIOUS
<1>3. Primary(A) = m
  <2>1. CASE A = <<>>
    BY <1>2, <2>1 DEF Primary
  <2>2. CASE A # <<>> /\ Len(A) = 0
    BY <1>2, <2>2 DEF Primary
  <2>3. CASE Len(A) > 0
    <3>1. ~A[Len(A)].fallback
      BY <2>3 DEF MayGoOn
    <3> QED BY <1>2, <3>1 DEF Primary
  <2> QED BY <1>2, <2>1, <2>2, <2>3
<1>4. /\ Positions(u, AttemptEnds) = {} /\ Positions(u, {"retry.scheduled"}) = {}
      /\ Positions(u, {"attempt.started"}) = {1}
      /\ \A type \in Preludes : Positions(u, {type}) = {}
  BY DEF Positions, AttemptEnds, Preludes
<1>5. \A i \in 1..m : Heard(r, u, i, A[i])
  <2>1. \A type \in Preludes : \A i : ~Has(u, type, i) /\ ~Has(<<>>, type, i)
    BY <1>4 DEF Has, Positions
  <2> QED BY <1>1, <1>2, <2>1 DEF Heard, Preludes
<1>6. Once(r, u, AttemptEnds, m) /\ Once(r, u, {"retry.scheduled"}, m)
  BY <1>1, <1>2, <1>4 DEF Once
<1>7. Once(r, u, {"attempt.started"}, m + 1)
  <2>1. m + 1 > 0 /\ (m + 1) - 1 = m /\ u[1].n = m + 1
    BY <1>2
  <2> QED BY <1>1, <1>3, <1>4, <2>1 DEF Once
<1>8. u[1].type \notin Ends /\ u[Len(u)].type = "call"
  BY DEF Ends
<1>9. \A p \in 1..Len(r) :
         r[p].type \in {"fallback.started", "operation.failed"} => GivenUp(max, A)
  BY <1>1 DEF Fits
<1> QED BY <1>1, <1>2, <1>5, <1>6, <1>7, <1>8, <1>9 DEF Tale

\* A delay is over: a rate-limited one has been waited for.
LEMMA WakeTells == SInv /\ Wake => SInv'
<1> SUFFICES ASSUME SInv, Wake PROVE SInv'
  OBVIOUS
<1> DEFINE max == cfg.maxAttempts
<1>1. /\ Running /\ ~AtEvent /\ IInv /\ sink = 1
      /\ attempts \in Seq(AttemptType) /\ received \in [Sinks -> Seq(Items)]
      /\ todo \in Seq(Items) /\ Len(todo) = 1 /\ Head(todo) = todo[1]
      /\ todo[1].type = "sleep" /\ todo[1] \in Items
      /\ Ran(max, attempts) /\ Limits(limits, attempts)
      /\ Leads(max, todo[1], attempts)
      /\ \A t \in Sinks : /\ Tale(max, received[t], todo, attempts, attempts)
                          /\ Waited(limits, received[t], todo)
  <2>1. "sleep" \in Awaits /\ At("sleep")
    BY DEF Awaits, Wake
  <2> QED BY <2>1, AtAwait
<1>2. IInv'
  BY <1>1, WakeStep
<1>3. /\ todo[1].n = Len(attempts) /\ MayGoOn(max, attempts) /\ Len(attempts) \in Nat
      /\ todo[1].limited \in BOOLEAN
  <2>1. todo[1].limited \in BOOLEAN
    BY <1>1 DEF Items, EventTypes, Ends
  <2> QED BY <1>1, <2>1 DEF Leads
<1>4. PICK s : s = <<Ev("attempt.started", Len(attempts) + 1), CallAttempt(Len(attempts) + 1)>>
  OBVIOUS
<1>5. /\ Path(s) /\ Len(s) = 2 /\ s[1].type = "attempt.started" /\ s[2].type = "call"
      /\ s[1].n = Len(attempts) + 1
      /\ Course(max, s, attempts)
  BY <1>3, <1>4, NextCourse
<1>6. /\ Continue(s) /\ cfg' = cfg /\ sink' = 1 /\ received' = received
      /\ limits' = [limits EXCEPT !.waits = IF todo[1].limited THEN @ + 1 ELSE @]
  BY <1>1, <1>3, <1>4 DEF Wake, emitter
<1>7. DOMAIN s = 1..2
  BY <1>4
<1>8. attempts \in Written(attempts, s)
  <2>1. Positions(s, {"append"}) = {}
    BY <1>5, <1>7 DEF Positions
  <2> QED BY <2>1 DEF Written
<1>9. /\ Limits(limits', attempts)
      /\ limits'.waits = limits.waits + (IF todo[1].limited THEN 1 ELSE 0)
  <2>1. limits \in [encountered : BOOLEAN, exceeded : BOOLEAN, waits : Nat]
    BY <1>1 DEF Limits
  <2>2. CASE todo[1].limited
    <3>1. limits' = [limits EXCEPT !.waits = limits.waits + 1]
      BY <1>6, <2>2
    <3>2. /\ limits'.waits = limits.waits + 1
          /\ limits' \in [encountered : BOOLEAN, exceeded : BOOLEAN, waits : Nat]
          /\ limits'.encountered = limits.encountered /\ limits'.exceeded = limits.exceeded
      BY <2>1, <3>1
    <3> QED BY <1>1, <2>2, <3>2 DEF Limits
  <2>3. CASE ~todo[1].limited
    <3>1. limits' = limits
      BY <1>6, <2>1, <2>3
    <3>2. limits.waits + 0 = limits.waits
      BY <2>1
    <3> QED BY <1>1, <2>3, <3>1, <3>2
  <2> QED BY <2>2, <2>3
<1>10. \A t \in Sinks : Tale(max, received'[t], s, attempts, attempts)
  BY <1>1, <1>3, <1>5, <1>6, <1>7, NextTale
<1>11. \A t \in Sinks : Waited(limits', received'[t], s)
  <2>1. limits.waits \in Nat
    BY <1>1 DEF Limits
  <2>2. s[1].type # "sleep"
    BY <1>5
  <2> QED BY <1>1, <1>3, <1>6, <1>9, <2>1, <2>2 DEF Waited
<1>12. s[1].type \notin Ends
  BY <1>5 DEF Ends
<1> QED BY <1>1, <1>2, <1>5, <1>6, <1>8, <1>9, <1>10, <1>11, <1>12, StoryGoesOn

\* A run with one more attempt.
LEMMA OneMore ==
  ASSUME NEW past \in Seq(AttemptType), NEW a \in AttemptType
  PROVE  LET A == Append(past, a)
         IN  /\ A \in Seq(AttemptType) /\ Len(A) = Len(past) + 1 /\ Len(past) \in Nat
             /\ Len(A) > 0 /\ A[Len(A)] = a /\ DOMAIN A = 1..Len(A)
             /\ \A i \in 1..Len(past) : A[i] = past[i]
BY AppendProperties

\* An attempt succeeds: the run leads to its end.
LEMMA AttemptSucceedsTells == SInv /\ AttemptSucceeds => SInv'
<1> SUFFICES ASSUME SInv, AttemptSucceeds PROVE SInv'
  OBVIOUS
<1> DEFINE max == cfg.maxAttempts
<1>1. /\ At("call") /\ "call" \in Awaits /\ IInv /\ Running
      /\ cfg \in Configs /\ cfg.validation \in BOOLEAN
      /\ attempts \in Seq(AttemptType) /\ Len(attempts) \in Nat
      /\ Head(todo) = todo[1] /\ todo[1].type = "call" /\ Limits(limits, attempts)
      /\ Leads(max, todo[1], attempts)
  <2>1. At("call") /\ "call" \in Awaits
    BY DEF AttemptSucceeds, Awaits
  <2> QED BY <2>1, AtAwait, ConfigAssumption DEF ConfigType
<1>2. PICK n \in Nat : n = Len(attempts) + 1 /\ Head(todo).n = n
  BY <1>1 DEF Leads
<1>3. PICK a \in AttemptType :
        /\ a = Attempt(n, "succeeded", FALSE, FALSE, Meta(Accepted, {}))
        /\ a.number = n /\ a.status = "succeeded" /\ ~a.fallback /\ ~a.retryable
        /\ a.meta.flags = {} /\ a.meta.verdict = Accepted
  <2>1. Meta(Accepted, {}) \in MetaType
    BY DEF Meta, Accepted, MetaType
  <2>2. Attempt(n, "succeeded", FALSE, FALSE, Meta(Accepted, {})) \in AttemptType
    BY <2>1 DEF Attempt, AttemptType, Statuses
  <2> QED BY <2>2 DEF Attempt, Meta
<1>4. PICK A : A = Append(attempts, a)
  OBVIOUS
<1>5. A \in Seq(AttemptType) /\ Len(A) = n /\ Len(A) > 0 /\ A[Len(A)] = a
  BY <1>1, <1>2, <1>4, OneMore
<1> DEFINE E == When(cfg.validation, Ev("validation.succeeded", n))
           u == Ev("attempt.succeeded", n)
           v == Ev("operation.succeeded", n)
           x == Stop("returned")
           T == <<Record(a), u, v, x>>
<1>6. SuccessSteps(n) = E \o T
  BY <1>3 DEF SuccessSteps
<1>7. Opening(E, A)
  <2>1. E \in Seq(PreludesOf(n))
    BY <1>1, PreludeIs DEF Preludes
  <2>2. \A k : Has(E, k, n) <=> cfg.validation /\ k = "validation.succeeded"
    BY <1>1, HasWhen
  <2> HIDE DEF E
  <2>3. a.meta.verdict = "valid" <=> Has(E, "validation.succeeded", n)
    BY <1>3, <2>2 DEF Accepted
  <2>4. a.meta.verdict # "invalid" /\ ~Has(E, "validation.failed", n)
    <3>1. Accepted # "invalid"
      BY DEF Accepted
    <3>2. ~Has(E, "validation.failed", n)
      BY <2>2
    <3> QED BY <1>3, <3>1, <3>2
  <2>5. /\ ~Has(E, "circuit_breaker.rejected", n) /\ ~Has(E, "rate_limit.detected", n)
        /\ ~Has(E, "rate_limit.wait_exceeded", n)
    BY <2>2
  <2> QED BY <1>3, <1>5, <2>1, <2>3, <2>4, <2>5, OpeningIs
<1>8. Closing(max, T, A)
  <2>1. u \in Items /\ v \in Items /\ x \in Items
    BY EventIs, StopIs DEF EventTypes, Ends
  <2>2. Told(u, A)
    BY <1>3, <1>5 DEF Told, Ev, AttemptEnds
  <2>3. Fits(max, v, A)
    BY DEF Fits, Ev, Preludes, AttemptEnds
  <2>4. Leads(max, x, A)
    BY <1>3, <1>5 DEF Leads, Stop
  <2>5. Announces(v, x, Len(A))
    BY DEF Announces, Ev, Stop
  <2> HIDE DEF u, v, x, max
  <2> QED BY <1>5, <2>1, <2>2, <2>3, <2>4, <2>5, ClosingIs
<1>9. Path(E \o T) /\ Continue(E \o T)
  <2>1. Path(SuccessSteps(n)) /\ Continue(SuccessSteps(n))
    BY <1>1, <1>2, SuccessPath DEF AttemptSucceeds
  <2> QED BY <1>6, <2>1
<1>10. /\ cfg' = cfg /\ limits' = limits /\ UNCHANGED emitter
       /\ limits' \in [encountered : BOOLEAN, exceeded : BOOLEAN, waits : Nat]
  BY <1>1 DEF AttemptSucceeds, Limits
<1>11. IInv'
  BY <1>1, AttemptSucceedsStep
<1> HIDE DEF E, T, u, v, x
<1>12. /\ limits'.encountered <=> limits.encountered \/ "limited" \in a.meta.flags
       /\ limits'.exceeded <=> limits.exceeded \/ "exceeded" \in a.meta.flags
       /\ limits'.waits = limits.waits
  BY <1>3, <1>10
<1>13. Opening(E, Append(attempts, a)) /\ Closing(cfg.maxAttempts, T, Append(attempts, a))
  BY <1>4, <1>7, <1>8
<1> QED BY <1>1, <1>2, <1>3, <1>9, <1>10, <1>11, <1>12, <1>13, NewChapter

\* What a retry plan of attempt n may be.
FairPlan(p, n, max) ==
  /\ p.limited \in BOOLEAN /\ p.exceeded \in BOOLEAN /\ p.retryable \in BOOLEAN
  /\ ValidPlan(p)
  /\ p.exceeded => ~p.retryable
  /\ WillRetry(p) => p.retryable /\ n < max
  /\ ~WillRetry(p) => ~p.retryable \/ n = max

\* A failure that may be retried is, while attempts are left; the plan is
\* never one that its constructor refuses.
LEMMA PlanIs ==
  ASSUME cfg \in Configs, NEW e, NEW n \in 1..cfg.maxAttempts
  PROVE  FairPlan(Plan(e, n), n, cfg.maxAttempts) /\ FairPlan(NoPlan, n, cfg.maxAttempts)
<1> DEFINE max == cfg.maxAttempts
<1>1. max \in Nat /\ cfg.retry \in BOOLEAN /\ cfg.rateLimit \in BOOLEAN
      /\ cfg.retryOn \subseteq Classes
  BY ConfigAssumption DEF ConfigType
<1>2. FairPlan(NoPlan, n, max)
  BY <1>1 DEF FairPlan, NoPlan, ValidPlan, WillRetry
<1>3. PICK p : p = Plan(e, n)
  OBVIOUS
<1>4. PICK limited \in BOOLEAN, eligible \in BOOLEAN, left \in BOOLEAN, exceeded \in BOOLEAN :
        /\ limited <=> Limited(e)
        /\ eligible <=> Eligible(e)
        /\ left <=> n < max
        /\ exceeded <=> limited /\ cfg.retry /\ left /\ e.hint \in {"long", "slow"}
  BY <1>1 DEF Limited, Eligible
<1>5. exceeded => eligible /\ left /\ limited
  BY <1>1, <1>4 DEF Eligible
<1>6. /\ p.limited = limited /\ p.exceeded = exceeded
      /\ p.retryable = (eligible /\ ~exceeded)
      /\ p.delay = IF eligible /\ left THEN DelaySource(e) ELSE "none"
  BY <1>3, <1>4 DEF Plan, Limited, Eligible
<1>7. p.delay = "none" <=> ~(eligible /\ left)
  <2>1. DelaySource(e) # "none"
    BY DEF DelaySource
  <2> QED BY <1>6, <2>1
<1>8. n < max \/ n = max
  BY <1>1
<1>9. FairPlan(p, n, max)
  BY <1>4, <1>5, <1>6, <1>7, <1>8 DEF FairPlan, ValidPlan, WillRetry
<1> QED BY <1>2, <1>3, <1>9

\* After a failure another attempt may follow, or no retry is left.
LEMMA FailureOn ==
  ASSUME NEW max \in Nat, NEW past \in Seq(AttemptType), MayGoOn(max, past),
         NEW a \in AttemptType, ~a.fallback, a.status # "succeeded",
         NEW A, A = Append(past, a)
  PROVE  /\ a.retryable /\ Len(A) < max => MayGoOn(max, A)
         /\ ~a.retryable \/ Len(A) = max => GivenUp(max, A)
<1> DEFINE n == Len(past)
<1>1. /\ n \in Nat /\ A \in Seq(AttemptType) /\ Len(A) = n + 1 /\ A[n + 1] = a
      /\ DOMAIN A = 1..(n + 1) /\ \A i \in 1..n : A[i] = past[i]
  BY OneMore
<1>2. /\ n < max
      /\ \A i \in 1..n : ~past[i].fallback /\ past[i].retryable /\ past[i].status # "succeeded"
  BY DEF MayGoOn
<1> HIDE DEF n
<1>3. \A i \in 1..(n + 1) : i \in 1..n \/ i = n + 1
  BY <1>1
<1>4. \A i \in 1..(n + 1) : ~A[i].fallback /\ A[i].status # "succeeded"
  BY <1>1, <1>2, <1>3
<1>5. ASSUME a.retryable, Len(A) < max PROVE MayGoOn(max, A)
  <2>1. \A i \in 1..(n + 1) : A[i].retryable
    BY <1>1, <1>2, <1>3, <1>5
  <2> QED BY <1>1, <1>4, <1>5, <2>1 DEF MayGoOn
<1>6. ASSUME ~a.retryable \/ Len(A) = max PROVE GivenUp(max, A)
  <2>1. Primaries(A) = 1..(n + 1)
    BY <1>1, <1>4 DEF Primaries
  <2>2. n + 1 \in 1..max
    BY <1>1, <1>2
  <2>3. ~A[n + 1].retryable \/ n + 1 = max
    BY <1>1, <1>6
  <2> QED BY <2>1, <2>2, <2>3 DEF GivenUp
<1> QED BY <1>5, <1>6

\* What is told of a failure agrees with its metadata.
LEMMA FailureOpening ==
  ASSUME NEW class \in Classes, NEW hint, NEW p, p.limited \in BOOLEAN, p.exceeded \in BOOLEAN,
         NEW n \in Nat, NEW A \in Seq(AttemptType), Len(A) = n, ~A[n].fallback,
         A[n].meta = FailureMeta(Error(class, hint), p)
  PROVE  Opening(   When(p.limited, Ev("rate_limit.detected", n))
                 \o When(p.exceeded, Ev("rate_limit.wait_exceeded", n))
                 \o When(class = "invalid", Ev("validation.failed", n))
                 \o When(class = "open", Ev("circuit_breaker.rejected", n)), A)
<1> DEFINE W1 == When(p.limited, Ev("rate_limit.detected", n))
           W2 == When(p.exceeded, Ev("rate_limit.wait_exceeded", n))
           W3 == When(class = "invalid", Ev("validation.failed", n))
           W4 == When(class = "open", Ev("circuit_breaker.rejected", n))
           E == W1 \o W2 \o W3 \o W4
           S == PreludesOf(n)
           a == A[n]
<1>1. W1 \in Seq(S) /\ W2 \in Seq(S) /\ W3 \in Seq(S) /\ W4 \in Seq(S)
  BY PreludeIs DEF Preludes
<1>2. /\ \A k : Has(W1, k, n) <=> p.limited /\ k = "rate_limit.detected"
      /\ \A k : Has(W2, k, n) <=> p.exceeded /\ k = "rate_limit.wait_exceeded"
      /\ \A k : Has(W3, k, n) <=> class = "invalid" /\ k = "validation.failed"
      /\ \A k : Has(W4, k, n) <=> class = "open" /\ k = "circuit_breaker.rejected"
  BY HasWhen
<1> HIDE DEF W1, W2, W3, W4
<1>3. W1 \o W2 \in Seq(S) /\ (W1 \o W2) \o W3 \in Seq(S) /\ E \in Seq(S)
  BY <1>1, ConcatProperties
<1>4. \A k : Has(E, k, n) <=> Has(W1, k, n) \/ Has(W2, k, n) \/ Has(W3, k, n) \/ Has(W4, k, n)
  <2>1. /\ W1 \in Seq(Items) /\ W2 \in Seq(Items) /\ W3 \in Seq(Items) /\ W4 \in Seq(Items)
        /\ W1 \o W2 \in Seq(Items) /\ (W1 \o W2) \o W3 \in Seq(Items)
    BY <1>1, <1>3, PreludeIs
  <2>2. \A k : Has(W1 \o W2, k, n) <=> Has(W1, k, n) \/ Has(W2, k, n)
    BY <2>1, HasConcat
  <2>3. \A k : Has((W1 \o W2) \o W3, k, n) <=> Has(W1 \o W2, k, n) \/ Has(W3, k, n)
    BY <2>1, HasConcat
  <2>4. \A k : Has(((W1 \o W2) \o W3) \o W4, k, n) <=> Has((W1 \o W2) \o W3, k, n) \/ Has(W4, k, n)
    BY <2>1, HasConcat
  <2> QED BY <2>2, <2>3, <2>4
<1>5. /\ a.meta.verdict = IF class = "invalid" THEN "invalid" ELSE "none"
      /\ "open" \in a.meta.flags <=> class = "open"
      /\ "limited" \in a.meta.flags <=> p.limited
      /\ "exceeded" \in a.meta.flags <=> p.exceeded
  BY DEF FailureMeta, Meta, Error
<1> HIDE DEF E, a
<1>6. /\ Has(E, "validation.failed", n) <=> class = "invalid"
      /\ Has(E, "circuit_breaker.rejected", n) <=> class = "open"
      /\ Has(E, "rate_limit.detected", n) <=> p.limited
      /\ Has(E, "rate_limit.wait_exceeded", n) <=> p.exceeded
      /\ ~Has(E, "validation.succeeded", n)
  <2>1. \A k : Has(E, k, n) <=>
          \/ p.limited /\ k = "rate_limit.detected"
          \/ p.exceeded /\ k = "rate_limit.wait_exceeded"
          \/ class = "invalid" /\ k = "validation.failed"
          \/ class = "open" /\ k = "circuit_breaker.rejected"
    BY <1>2, <1>4
  <2> QED BY <2>1
<1>7. Opening(E, A)
  <2>1. a = A[Len(A)] /\ E \in Seq(PreludesOf(Len(A)))
    BY <1>3 DEF a
  <2> QED BY <1>5, <1>6, <2>1, OpeningIs
<1> QED BY <1>7 DEF E, W1, W2, W3, W4

\* Two pairs make four.
LEMMA PairsJoin ==
  ASSUME NEW r \in Items, NEW u \in Items, NEW v \in Items, NEW x \in Items
  PROVE  <<r, u>> \o <<v, x>> = <<r, u, v, x>>
<1>1. PICK s \in Seq(Items), t \in Seq(Items), w \in Seq(Items) :
        s = <<r, u>> /\ t = <<v, x>> /\ w = <<r, u, v, x>>
  <2>1. <<r, u>> \in Seq(Items) /\ <<v, x>> \in Seq(Items) /\ <<r, u, v, x>> \in Seq(Items)
    OBVIOUS
  <2> QED BY <2>1
<1>2. /\ Len(s) = 2 /\ s[1] = r /\ s[2] = u /\ Len(t) = 2 /\ t[1] = v /\ t[2] = x
      /\ Len(w) = 4 /\ w[1] = r /\ w[2] = u /\ w[3] = v /\ w[4] = x
  BY <1>1
<1>3. /\ s \o t \in Seq(Items) /\ Len(s \o t) = 4
      /\ \A i \in 1..4 : (s \o t)[i] = IF i <= 2 THEN s[i] ELSE t[i - 2]
  <2>1. /\ s \o t \in Seq(Items) /\ Len(s \o t) = Len(s) + Len(t)
        /\ \A i \in 1..(Len(s) + Len(t)) :
             (s \o t)[i] = IF i <= Len(s) THEN s[i] ELSE t[i - Len(s)]
    BY ConcatProperties
  <2>2. Len(s) + Len(t) = 4
    BY <1>2
  <2> QED BY <1>2, <2>1, <2>2
<1>4. \A i \in 1..4 : (s \o t)[i] = w[i]
  <2>1. (s \o t)[1] = s[1] /\ (s \o t)[2] = s[2] /\ (s \o t)[3] = t[1] /\ (s \o t)[4] = t[2]
    BY <1>3
  <2>2. \A i \in 1..4 : i = 1 \/ i = 2 \/ i = 3 \/ i = 4
    OBVIOUS
  <2> QED BY <1>2, <2>1, <2>2
<1>5. s \o t = w
  BY <1>2, <1>3, <1>4, SeqEqual
<1> QED BY <1>1, <1>5

\* A failed attempt is recorded and followed as its plan says.
LEMMA FailureTells ==
  ASSUME SInv, IInv', At("call"), NEW class \in Classes, NEW hint \in Hints,
         NEW p, FairPlan(p, Len(attempts) + 1, cfg.maxAttempts),
         Recorded(Error(class, hint), p), cfg' = cfg, UNCHANGED emitter
  PROVE  SInv'
<1> DEFINE max == cfg.maxAttempts
           e == Error(class, hint)
<1>1. /\ IInv /\ Running /\ cfg \in Configs /\ max \in Nat
      /\ attempts \in Seq(AttemptType) /\ Len(attempts) \in Nat
      /\ Head(todo) = todo[1] /\ todo[1].type = "call" /\ Limits(limits, attempts)
      /\ Leads(max, todo[1], attempts)
  <2>1. "call" \in Awaits
    BY DEF Awaits
  <2> QED BY <2>1, AtAwait
<1>2. PICK n \in Nat : n = Len(attempts) + 1 /\ Head(todo).n = n
  BY <1>1 DEF Leads
<1>3. /\ p.limited \in BOOLEAN /\ p.exceeded \in BOOLEAN /\ p.retryable \in BOOLEAN
      /\ ValidPlan(p) /\ (p.exceeded => ~p.retryable)
      /\ WillRetry(p) => p.retryable /\ n < max
      /\ ~WillRetry(p) => ~p.retryable \/ n = max
  BY <1>2 DEF FairPlan
<1>4. MayGoOn(max, attempts) /\ n <= max
  BY <1>1, <1>2 DEF Leads, MayGoOn
<1>5. PICK a \in AttemptType :
        /\ a = Attempt(n, StatusOf(e), p.retryable, FALSE, FailureMeta(e, p))
        /\ a.number = n /\ a.status # "succeeded" /\ a.fallback = FALSE
        /\ a.retryable = p.retryable /\ a.meta = FailureMeta(e, p)
        /\ "limited" \in a.meta.flags <=> p.limited
        /\ "exceeded" \in a.meta.flags <=> p.exceeded
  <2>1. FailureMeta(e, p) \in MetaType
    BY DEF FailureMeta, Meta, MetaType
  <2>2. StatusOf(e) \in Statuses /\ StatusOf(e) # "succeeded"
    BY DEF StatusOf, Statuses
  <2>3. Attempt(n, StatusOf(e), p.retryable, FALSE, FailureMeta(e, p)) \in AttemptType
    BY <1>3, <2>1, <2>2 DEF Attempt, AttemptType
  <2>4. /\ "limited" \in FailureMeta(e, p).flags <=> p.limited
        /\ "exceeded" \in FailureMeta(e, p).flags <=> p.exceeded
    BY DEF FailureMeta, Meta
  <2> QED BY <2>2, <2>3, <2>4 DEF Attempt
<1>6. PICK A : A = Append(attempts, a)
  OBVIOUS
<1>7. A \in Seq(AttemptType) /\ Len(A) = n /\ Len(A) > 0 /\ A[Len(A)] = a
  BY <1>1, <1>2, <1>6, OneMore
<1>8. /\ WillRetry(p) => MayGoOn(max, A)
      /\ ~WillRetry(p) => GivenUp(max, A)
  BY <1>1, <1>3, <1>4, <1>5, <1>6, <1>7, FailureOn
<1> DEFINE E ==    When(p.limited, Ev("rate_limit.detected", n))
                \o When(p.exceeded, Ev("rate_limit.wait_exceeded", n))
                \o When(class = "invalid", Ev("validation.failed", n))
                \o When(class = "open", Ev("circuit_breaker.rejected", n))
           u == Ev("attempt.failed", n)
           F == AfterFailure(e, n, p)
           T == <<Record(a), u>> \o F
<1>9. Opening(E, A)
  <2>1. Len(A) = n /\ ~A[n].fallback /\ A[n].meta = FailureMeta(Error(class, hint), p)
    BY <1>5, <1>7
  <2>2. n \in Nat /\ A \in Seq(AttemptType) /\ p.limited \in BOOLEAN /\ p.exceeded \in BOOLEAN
    BY <1>2, <1>3, <1>7
  <2> QED BY <2>1, <2>2, FailureOpening
<1>10. FailureEvents(e, n, p) = E \o <<Record(a), u>>
  <2>1. e.class = class
    BY DEF Error
  <2> QED BY <1>5, <2>1 DEF FailureEvents
<1>11. Path(FailureEvents(e, n, p) \o F) /\ Continue(FailureEvents(e, n, p) \o F)
  <2>1. Path(FailureEvents(e, n, p) \o AfterFailure(e, n, p))
    BY <1>1, <1>3, FailurePath
  <2>2. Continue(FailureEvents(e, n, p) \o AfterFailure(e, n, p))
    BY <1>2, <1>3 DEF Recorded
  <2> QED BY <2>1, <2>2
<1>12. /\ limits' \in [encountered : BOOLEAN, exceeded : BOOLEAN, waits : Nat]
       /\ limits'.encountered <=> limits.encountered \/ "limited" \in a.meta.flags
       /\ limits'.exceeded <=> limits.exceeded \/ "exceeded" \in a.meta.flags
       /\ limits'.waits = limits.waits
  <2>1. limits \in [encountered : BOOLEAN, exceeded : BOOLEAN, waits : Nat]
    BY <1>1 DEF Limits
  <2>2. limits' = [limits EXCEPT !.encountered = limits.encountered \/ p.limited,
                                 !.exceeded = limits.exceeded \/ p.exceeded]
    BY DEF Recorded
  <2> QED BY <1>3, <1>5, <2>1, <2>2
<1>13. PICK v \in Items, x \in Items :
         /\ F = <<v, x>>
         /\ Fits(max, v, A) /\ Leads(max, x, A) /\ Announces(v, x, Len(A))
  <2>1. CASE WillRetry(p)
    <3>1. F = <<Scheduled(n, p.limited), Sleep(n, p.limited)>>
      BY <2>1 DEF AfterFailure
    <3>2. Scheduled(n, p.limited) \in Items /\ Sleep(n, p.limited) \in Items
      BY <1>3 DEF Scheduled, Sleep, Items
    <3>3. Fits(max, Scheduled(n, p.limited), A)
      <4>1. n \in 1..Len(A) /\ A[n].retryable /\ ("limited" \in A[n].meta.flags <=> p.limited)
        <5>1. n \in 1..Len(A) /\ A[n] = a
          BY <1>7
        <5>2. p.retryable /\ a.retryable = p.retryable
          BY <1>3, <1>5, <2>1
        <5> QED BY <1>5, <5>1, <5>2
      <4> QED BY <4>1 DEF Fits, Scheduled, Preludes, AttemptEnds
    <3>4. Leads(max, Sleep(n, p.limited), A)
      BY <1>7, <1>8, <2>1 DEF Leads, Sleep
    <3>5. Announces(Scheduled(n, p.limited), Sleep(n, p.limited), Len(A))
      BY <1>7 DEF Announces, Scheduled, Sleep
    <3> QED BY <3>1, <3>2, <3>3, <3>4, <3>5
  <2>2. CASE ~WillRetry(p) /\ cfg.candidates > 0 /\ e.class \in cfg.fallbackOn
    <3>1. F = <<Ev("fallback.started", n + 1), Candidate(1)>>
      <4>1. Len(attempts) + 2 = n + 1
        BY <1>1, <1>2
      <4> QED BY <2>2, <4>1 DEF AfterFailure
    <3>2. Ev("fallback.started", n + 1) \in Items /\ Candidate(1) \in Items
      BY EventIs DEF EventTypes, Candidate, Items
    <3>3. Fits(max, Ev("fallback.started", n + 1), A)
      BY <1>8, <2>2 DEF Fits, Ev, Preludes, AttemptEnds
    <3>4. Leads(max, Candidate(1), A)
      BY <1>5, <1>7, <1>8, <2>2 DEF Leads, Candidate
    <3>5. Announces(Ev("fallback.started", n + 1), Candidate(1), Len(A))
      BY DEF Announces, Ev, Candidate
    <3> QED BY <3>1, <3>2, <3>3, <3>4, <3>5
  <2>3. CASE ~WillRetry(p) /\ ~(cfg.candidates > 0 /\ e.class \in cfg.fallbackOn)
    <3>1. F = <<Ev("operation.failed", n), Stop("failed")>>
      BY <2>3 DEF AfterFailure
    <3>2. Ev("operation.failed", n) \in Items /\ Stop("failed") \in Items
      BY EventIs, StopIs DEF EventTypes, Ends
    <3>3. Fits(max, Ev("operation.failed", n), A)
      BY <1>8, <2>3 DEF Fits, Ev, Preludes, AttemptEnds
    <3>4. Leads(max, Stop("failed"), A)
      BY <1>5, <1>7, <1>8, <2>3 DEF Leads, Stop
    <3>5. Announces(Ev("operation.failed", n), Stop("failed"), Len(A))
      BY DEF Announces, Ev, Stop
    <3> QED BY <3>1, <3>2, <3>3, <3>4, <3>5
  <2> QED BY <2>1, <2>2, <2>3
<1>14. Told(u, A) /\ u \in Items
  <2>1. u \in Items
    BY EventIs DEF EventTypes
  <2> QED BY <1>5, <1>7, <2>1 DEF Told, Ev, AttemptEnds
<1>15. Record(a) \in Items /\ E \in Seq(Items) /\ F \in Seq(Items)
  <2>1. Record(a) \in Items
    BY RecordIs DEF Quiet
  <2> QED BY <1>9, <1>13, <2>1 DEF Opening
<1> HIDE DEF E, u, F, e, max
<1>16. Closing(max, T, A)
  <2>1. T = <<Record(a), u, v, x>>
    <3>1. <<Record(a), u>> \o <<v, x>> = <<Record(a), u, v, x>>
      BY <1>14, <1>15, PairsJoin
    <3> QED BY <1>13, <3>1
  <2> QED BY <1>7, <1>13, <1>14, <2>1, ClosingIs
<1>17. Path(E \o T) /\ Continue(E \o T)
  <2>1. <<Record(a), u>> \in Seq(Items)
    BY <1>14, <1>15
  <2>2. (E \o <<Record(a), u>>) \o F = E \o T
    BY <1>15, <2>1, ConcatAssociative
  <2> QED BY <1>10, <1>11, <2>2
<1> HIDE DEF T
<1>18. Opening(E, Append(attempts, a)) /\ Closing(cfg.maxAttempts, T, Append(attempts, a))
  BY <1>6, <1>9, <1>16 DEF max
<1>19. ~a.fallback /\ ("exceeded" \in a.meta.flags => ~a.retryable) /\ a.number = Len(attempts) + 1
  BY <1>2, <1>3, <1>5
<1> QED BY <1>12, <1>17, <1>18, <1>19, NewChapter

\* An attempt fails.
LEMMA AttemptFailsTells ==
  ASSUME NEW e \in Errors
  PROVE  SInv /\ AttemptFails(e) => SInv'
<1> SUFFICES ASSUME SInv, AttemptFails(e) PROVE SInv'
  OBVIOUS
<1>1. At("call") /\ cfg' = cfg /\ UNCHANGED emitter
  BY DEF AttemptFails, emitter
<1>2. /\ IInv /\ cfg \in Configs /\ cfg.maxAttempts \in Nat /\ cfg.raises \subseteq Classes
      /\ Head(todo) = todo[1] /\ todo[1].type = "call" /\ Len(attempts) \in Nat
      /\ Leads(cfg.maxAttempts, todo[1], attempts)
  <2>1. "call" \in Awaits
    BY DEF Awaits
  <2> QED BY <1>1, <2>1, AtAwait, ConfigAssumption DEF ConfigType
<1>3. Head(todo).n = Len(attempts) + 1 /\ Head(todo).n \in 1..cfg.maxAttempts
  BY <1>2 DEF Leads, MayGoOn
<1>4. IInv'
  BY <1>2, AttemptFailsStep
<1>5. PICK class \in Classes, hint \in Hints : e = Error(class, hint)
  BY <1>2 DEF Errors, Classes, Hints
<1>6. CASE Unusable(e)
  <2>1. Recorded(Error("extraction", "none"), NoPlan)
    BY <1>6 DEF AttemptFails
  <2>2. "extraction" \in Classes /\ "none" \in Hints
    BY DEF Classes, Hints
  <2>3. FairPlan(NoPlan, Len(attempts) + 1, cfg.maxAttempts)
    BY <1>2, <1>3, PlanIs
  <2> QED BY <1>1, <1>4, <2>1, <2>2, <2>3, FailureTells
<1>7. CASE ~Unusable(e)
  <2>1. PICK p : p = Plan(e, Head(todo).n)
    OBVIOUS
  <2>2. Recorded(Error(class, hint), p)
    BY <1>5, <1>7, <2>1 DEF AttemptFails
  <2>3. FairPlan(p, Len(attempts) + 1, cfg.maxAttempts)
    BY <1>2, <1>3, <2>1, PlanIs
  <2> QED BY <1>1, <1>4, <2>2, <2>3, FailureTells
<1> QED BY <1>6, <1>7

\* The chain goes on: nothing is told of a candidate.
LEMMA NextCandidateTells ==
  ASSUME SInv, IInv', At("candidate"), NEW i \in Nat, Continue(<<Candidate(i)>>),
         cfg' = cfg, limits' = limits, UNCHANGED emitter
  PROVE  SInv'
<1> DEFINE max == cfg.maxAttempts
<1>1. /\ Running /\ IInv /\ sink = 1
      /\ attempts \in Seq(AttemptType) /\ received \in [Sinks -> Seq(Items)]
      /\ todo \in Seq(Items) /\ Len(todo) = 1 /\ todo[1].type = "candidate"
      /\ Ran(max, attempts) /\ Limits(limits, attempts)
      /\ Leads(max, todo[1], attempts)
      /\ \A t \in Sinks : /\ Tale(max, received[t], todo, attempts, attempts)
                          /\ Waited(limits, received[t], todo)
  <2>1. "candidate" \in Awaits
    BY DEF Awaits
  <2> QED BY <2>1, AtAwait
<1>2. PICK x \in Items : x = Candidate(i) /\ x.type = "candidate"
  BY DEF Candidate, Items
<1>3. PICK s : s = <<x>>
  OBVIOUS
<1>4. /\ Path(s) /\ Continue(s) /\ Len(s) = 1 /\ s[1] = x /\ DOMAIN s = 1..1
      /\ s \in Seq(Items)
  BY <1>2, <1>3, PathEnds DEF Awaits
<1>5. \A types : "candidate" \notin types => Positions(s, types) = {}
  BY <1>2, <1>4 DEF Positions
<1>6. /\ Positions(s, Preludes) = {} /\ Positions(s, {"append"}) = {}
      /\ Positions(s, AttemptEnds) = {} /\ Positions(s, {"attempt.started"}) = {}
      /\ Positions(s, {"retry.scheduled"}) = {}
      /\ \A type \in Preludes : Positions(s, {type}) = {}
  <2>1. /\ "candidate" \notin Preludes /\ "candidate" \notin AttemptEnds
        /\ \A type \in Preludes : "candidate" \notin {type}
    BY DEF Preludes, AttemptEnds
  <2> QED BY <1>5, <2>1
<1>7. attempts \in Written(attempts, s)
  BY <1>6 DEF Written
<1>8. Course(max, s, attempts)
  <2>1. Ordered(s)
    BY <1>2, <1>4, <1>6 DEF Ordered, Preludes
  <2>2. Fits(max, x, attempts) /\ Leads(max, x, attempts)
    BY <1>1, <1>2 DEF Fits, Leads, Preludes, AttemptEnds
  <2>3. \A q \in 1..Len(s) : s[q] = x
    BY <1>4
  <2>4. s[Len(s)] = x /\ x.type \notin Preludes \cup AttemptEnds
    BY <1>2, <1>4 DEF Preludes, AttemptEnds
  <2> QED BY <2>1, <2>2, <2>3, <2>4 DEF Course
<1>9. ASSUME NEW t \in Sinks PROVE Tale(max, received[t], s, attempts, attempts)
  <2>1. PICK r \in Seq(Items) : r = received[t]
    BY <1>1
  <2>2. Tale(max, r, todo, attempts, attempts)
    BY <1>1, <2>1
  <2>3. /\ \A p \in 1..Len(r) : Fits(max, r[p], attempts)
        /\ \A q \in 1..Len(attempts) : Heard(r, <<>>, q, attempts[q])
        /\ OnceEach(r, AttemptEnds, 1..Len(attempts)) /\ Positions(r, OperationEnds) = {}
        /\ OnceEach(r, {"attempt.started"}, 1..Primary(attempts))
        /\ OnceEach(r, {"retry.scheduled"}, 1..(Primary(attempts) - 1))
    <3>1. todo[1].type \in Awaits /\ todo[1].type # "call" /\ todo[1].type # "sleep"
      BY <1>1 DEF Awaits
    <3> QED BY <1>1, <2>2, <3>1, AwaitTale
  <2>4. \A q \in 1..Len(attempts) : Heard(r, s, q, attempts[q])
    <3>1. \A type \in Preludes : \A q : ~Has(s, type, q) /\ ~Has(<<>>, type, q)
      BY <1>6 DEF Has, Positions
    <3> QED BY <2>3, <3>1 DEF Heard, Preludes
  <2>5. /\ Once(r, s, AttemptEnds, Len(attempts))
        /\ Once(r, s, {"attempt.started"}, Primary(attempts))
        /\ Once(r, s, {"retry.scheduled"}, Primary(attempts) - 1)
    BY <1>6, <2>3 DEF Once
  <2>6. s[1].type = "candidate" /\ s[Len(s)].type = "candidate"
    BY <1>2, <1>4
  <2>7. \A p \in 1..Len(r) :
           r[p].type \in {"fallback.started", "operation.failed"} => GivenUp(max, attempts)
    BY <2>3 DEF Fits
  <2> QED BY <2>1, <2>3, <2>4, <2>5, <2>6, <2>7 DEF Tale, Ends
<1>10. \A t \in Sinks : Waited(limits', received'[t], s)
  <2>1. s[1].type # "sleep" /\ todo[1].type # "sleep" /\ received' = received
    BY <1>1, <1>2, <1>4 DEF emitter
  <2> QED BY <1>1, <2>1 DEF Waited
<1>11. s[1].type \notin Ends /\ sink' = 1 /\ received' = received
  BY <1>1, <1>2, <1>4 DEF Ends, emitter
<1> QED BY <1>1, <1>4, <1>7, <1>8, <1>9, <1>10, <1>11, StoryGoesOn

\* The chain is through: its attempt is recorded, and the run is over.
LEMMA FallbackTells ==
  ASSUME SInv, IInv', At("candidate"), cfg' = cfg, limits' = limits, UNCHANGED emitter,
         NEW a \in AttemptType, a.number = Len(attempts) + 1, a.fallback,
         a.meta.flags \subseteq {"open"},
         NEW E, Opening(E, Append(attempts, a)),
         NEW f \in Items, NEW u \in Items, NEW v \in Items, NEW x \in Items,
         f.type \in {"fallback.succeeded", "fallback.failed"},
         u.n = Len(attempts) + 1,
         \/ /\ u.type = "attempt.succeeded" /\ v.type = "operation.succeeded"
            /\ x.type = "returned" /\ a.status = "succeeded"
         \/ /\ u.type = "attempt.failed" /\ v.type = "operation.failed"
            /\ x.type = "failed" /\ a.status # "succeeded",
         Path(E \o <<Record(a), f, u, v, x>>), Continue(E \o <<Record(a), f, u, v, x>>)
  PROVE  SInv'
<1> DEFINE max == cfg.maxAttempts
<1>1. /\ IInv /\ Running /\ cfg \in Configs /\ max \in Nat
      /\ attempts \in Seq(AttemptType) /\ Len(attempts) \in Nat
      /\ todo[1].type = "candidate" /\ Limits(limits, attempts)
      /\ Leads(max, todo[1], attempts)
  <2>1. "candidate" \in Awaits
    BY DEF Awaits
  <2> QED BY <2>1, AtAwait
<1>2. PICK n \in Nat : n = Len(attempts) + 1
  BY <1>1
<1>3. PICK A : A = Append(attempts, a)
  OBVIOUS
<1>4. A \in Seq(AttemptType) /\ Len(A) = n /\ Len(A) > 0 /\ A[Len(A)] = a
  BY <1>1, <1>2, <1>3, OneMore
<1>5. GivenUp(max, A)
  <2>1. GivenUp(max, attempts)
    BY <1>1 DEF Leads
  <2> QED BY <1>1, <1>3, <2>1, GivenUpOn
<1>6. PICK T : T = <<Record(a), f, u, v, x>>
  OBVIOUS
<1>7. Closing(max, T, A)
  <2>1. Told(u, A)
    BY <1>2, <1>4 DEF Told, AttemptEnds
  <2>2. Fits(max, v, A)
    BY <1>5 DEF Fits, Preludes, AttemptEnds
  <2>3. Leads(max, x, A)
    BY <1>4, <1>5 DEF Leads
  <2>4. Announces(v, x, Len(A)) /\ x.type \in Ends
    BY DEF Announces, Ends
  <2>5. T = <<Record(A[Len(A)]), f, u, v, x>>
    BY <1>4, <1>6
  <2> HIDE DEF max
  <2>6. Closing(max, <<Record(A[Len(A)]), f, u, v, x>>, A)
    BY <1>4, <2>1, <2>2, <2>3, <2>4, FallbackClosingIs
  <2> QED BY <2>5, <2>6
<1>8. Opening(E, Append(attempts, a)) /\ Closing(cfg.maxAttempts, T, Append(attempts, a))
  BY <1>3, <1>7
<1>9. Path(E \o T) /\ Continue(E \o T)
  BY <1>6
<1>10. T[Len(T)].type # "sleep"
  BY <1>6
<1>11. /\ limits' \in [encountered : BOOLEAN, exceeded : BOOLEAN, waits : Nat]
       /\ limits'.encountered <=> limits.encountered \/ "limited" \in a.meta.flags
       /\ limits'.exceeded <=> limits.exceeded \/ "exceeded" \in a.meta.flags
       /\ limits'.waits = limits.waits
  <2>1. "limited" \notin a.meta.flags /\ "exceeded" \notin a.meta.flags
    OBVIOUS
  <2> QED BY <1>1, <2>1 DEF Limits
<1> QED BY <1>8, <1>9, <1>10, <1>11, NewChapter

\* A candidate succeeds.
LEMMA CandidateSucceedsTells == SInv /\ CandidateSucceeds => SInv'
<1> SUFFICES ASSUME SInv, CandidateSucceeds PROVE SInv'
  OBVIOUS
<1>1. /\ At("candidate") /\ IInv /\ cfg \in Configs /\ cfg.validation \in BOOLEAN
      /\ attempts \in Seq(AttemptType) /\ failures \in Seq(Classes)
      /\ cfg' = cfg /\ limits' = limits /\ UNCHANGED emitter
  <2>1. At("candidate") /\ cfg' = cfg /\ limits' = limits /\ UNCHANGED emitter /\ IInv
    BY DEF CandidateSucceeds, emitter, SInv
  <2> QED BY <2>1, ConfigAssumption DEF IInv, Typed, ConfigType
<1>2. PICK n \in Nat : n = Len(attempts) + 1
  BY <1>1
<1>3. PICK a \in AttemptType :
        /\ a = Attempt(n, "succeeded", FALSE, TRUE, Meta(Accepted, {}))
        /\ a.number = n /\ a.status = "succeeded" /\ a.fallback
        /\ a.meta.flags = {} /\ a.meta.verdict = Accepted
  <2>1. Meta(Accepted, {}) \in MetaType
    BY DEF Meta, Accepted, MetaType
  <2>2. Attempt(n, "succeeded", FALSE, TRUE, Meta(Accepted, {})) \in AttemptType
    BY <2>1 DEF Attempt, AttemptType, Statuses
  <2> QED BY <2>2 DEF Attempt, Meta
<1>4. PICK A : A = Append(attempts, a)
  OBVIOUS
<1>5. A \in Seq(AttemptType) /\ Len(A) = n /\ A[Len(A)] = a
  BY <1>1, <1>2, <1>4, OneMore
<1> DEFINE I == InvalidEvents(failures, n)
           V == When(cfg.validation, Ev("validation.succeeded", n))
           E == I \o V
           f == Ev("fallback.succeeded", n)
           u == Ev("attempt.succeeded", n)
           v == Ev("operation.succeeded", n)
           x == Stop("returned")
<1>6. Path(E \o <<Record(a), f, u, v, x>>)
  <2>1. I \in Seq(Events) /\ I \in Seq(Quiet)
    BY <1>1, InvalidEventsAre
  <2> QED BY <1>1, <1>3, <2>1, RescuedPath
<1>7. Continue(E \o <<Record(a), f, u, v, x>>)
  BY <1>2, <1>3 DEF CandidateSucceeds
<1>8. /\ I \in Seq(PreludesOf(n)) /\ V \in Seq(PreludesOf(n))
      /\ \A k : Has(I, k, n) => k = "validation.failed"
      /\ \A k : Has(V, k, n) <=> cfg.validation /\ k = "validation.succeeded"
  <2>1. I \in Seq(PreludesOf(n)) /\ \A k : Has(I, k, n) => k = "validation.failed"
    BY <1>1, HasInvalid
  <2>2. V \in Seq(PreludesOf(n))
    BY <1>1, PreludeIs DEF Preludes
  <2>3. \A k : Has(V, k, n) <=> cfg.validation /\ k = "validation.succeeded"
    BY <1>1, HasWhen
  <2> QED BY <2>1, <2>2, <2>3
<1>9. /\ f \in Items /\ u \in Items /\ v \in Items /\ x \in Items
      /\ f.type = "fallback.succeeded" /\ u.type = "attempt.succeeded" /\ u.n = n
      /\ v.type = "operation.succeeded" /\ x.type = "returned"
  <2>1. f \in Items /\ u \in Items /\ v \in Items /\ x \in Items
    BY EventIs, StopIs DEF EventTypes, Ends
  <2> QED BY <2>1 DEF Ev, Stop
<1> HIDE DEF I, V, f, u, v, x
<1>10. Opening(E, A)
  <2>1. E \in Seq(PreludesOf(n)) /\ I \in Seq(Items) /\ V \in Seq(Items)
    BY <1>8, PreludeIs, ConcatProperties
  <2>2. \A k : Has(E, k, n) <=> Has(I, k, n) \/ Has(V, k, n)
    BY <2>1, HasConcat
  <2> HIDE DEF E
  <2>3. a.meta.verdict = "valid" <=> Has(E, "validation.succeeded", n)
    BY <1>3, <1>8, <2>2 DEF Accepted
  <2>4. a.meta.verdict # "invalid"
    <3>1. Accepted # "invalid"
      BY DEF Accepted
    <3> QED BY <1>3, <3>1
  <2>5. ~Has(E, "rate_limit.detected", n) /\ ~Has(E, "rate_limit.wait_exceeded", n)
    BY <1>8, <2>2
  <2>6. E \in Seq(PreludesOf(Len(A)))
    BY <1>5, <2>1
  <2> QED BY <1>3, <1>5, <2>3, <2>4, <2>5, <2>6, OpeningIs
<1> HIDE DEF E
<1>11. IInv'
  BY <1>1, CandidateSucceedsStep
<1>12. /\ Opening(E, Append(attempts, a))
       /\ a.number = Len(attempts) + 1 /\ a.meta.flags \subseteq {"open"}
       /\ u.n = Len(attempts) + 1
  BY <1>2, <1>3, <1>4, <1>9, <1>10
<1> QED BY <1>1, <1>3, <1>6, <1>7, <1>9, <1>11, <1>12, FallbackTells

\* The chain fails: its attempt is recorded, and the run has failed.
LEMMA ChainFails ==
  ASSUME SInv, IInv', At("candidate"), cfg' = cfg, limits' = limits, UNCHANGED emitter,
         NEW status \in Statuses, status # "succeeded", NEW class \in Classes,
         NEW exhausted \in BOOLEAN,
         NEW E \in Seq(PreludesOf(Len(attempts) + 1)),
         \A k : Has(E, k, Len(attempts) + 1) => k = "validation.failed",
         class = "invalid" => Has(E, "validation.failed", Len(attempts) + 1),
         FallbackFails(status, FallbackMeta(class, exhausted), E)
  PROVE  SInv'
<1>1. attempts \in Seq(AttemptType) /\ IInv
  BY DEF SInv, IInv, Typed
<1>2. PICK n \in Nat : n = Len(attempts) + 1
  BY <1>1
<1>3. PICK a \in AttemptType :
        /\ a = Attempt(n, status, FALSE, TRUE, FallbackMeta(class, exhausted))
        /\ a.number = n /\ a.status = status /\ a.fallback
        /\ a.meta.flags \subseteq {"open"}
        /\ a.meta.verdict = IF class = "invalid" THEN "invalid" ELSE "none"
  <2>1. FallbackMeta(class, exhausted) \in MetaType
    BY DEF FallbackMeta, Meta, MetaType
  <2>2. Attempt(n, status, FALSE, TRUE, FallbackMeta(class, exhausted)) \in AttemptType
    BY <2>1 DEF Attempt, AttemptType
  <2>3. /\ FallbackMeta(class, exhausted).flags \subseteq {"open"}
        /\ FallbackMeta(class, exhausted).verdict = IF class = "invalid" THEN "invalid" ELSE "none"
    BY DEF FallbackMeta, Meta
  <2> QED BY <2>2, <2>3 DEF Attempt
<1>4. PICK A : A = Append(attempts, a)
  OBVIOUS
<1>5. A \in Seq(AttemptType) /\ Len(A) = n /\ A[Len(A)] = a
  BY <1>1, <1>2, <1>4, OneMore
<1> DEFINE f == Ev("fallback.failed", n)
           u == Ev("attempt.failed", n)
           v == Ev("operation.failed", n)
           x == Stop("failed")
<1>6. Path(E \o <<Record(a), f, u, v, x>>)
  <2>1. E \in Seq(Events)
    BY <1>2, PreludeIs
  <2> QED BY <1>3, <2>1, FallbackFailsPath
<1>7. Continue(E \o <<Record(a), f, u, v, x>>)
  BY <1>2, <1>3 DEF FallbackFails
<1>8. /\ f \in Items /\ u \in Items /\ v \in Items /\ x \in Items
      /\ f.type = "fallback.failed" /\ u.type = "attempt.failed" /\ u.n = n
      /\ v.type = "operation.failed" /\ x.type = "failed"
  <2>1. f \in Items /\ u \in Items /\ v \in Items /\ x \in Items
    BY EventIs, StopIs DEF EventTypes, Ends
  <2> QED BY <2>1 DEF Ev, Stop
<1> HIDE DEF f, u, v, x
<1>9. Opening(E, A)
  <2>1. a.meta.verdict # "valid" /\ (a.meta.verdict = "invalid" => class = "invalid")
    BY <1>3
  <2>2. /\ ~Has(E, "validation.succeeded", n) /\ ~Has(E, "rate_limit.detected", n)
        /\ ~Has(E, "rate_limit.wait_exceeded", n)
        /\ class = "invalid" => Has(E, "validation.failed", n)
    BY <1>2
  <2>3. "limited" \notin a.meta.flags /\ "exceeded" \notin a.meta.flags
    BY <1>3
  <2>4. E \in Seq(PreludesOf(Len(A))) /\ Len(A) \in Nat
    BY <1>2, <1>5
  <2> QED BY <1>3, <1>5, <2>1, <2>2, <2>3, <2>4, OpeningIs
<1>10. /\ Opening(E, Append(attempts, a))
       /\ a.number = Len(attempts) + 1
       /\ u.n = Len(attempts) + 1
  BY <1>2, <1>3, <1>4, <1>8, <1>9
<1> QED BY <1>3, <1>6, <1>7, <1>8, <1>10, FallbackTells

\* A candidate fails: the next one, or the end.
LEMMA CandidateFailsTells ==
  ASSUME NEW class \in cfg.candidateRaises
  PROVE  SInv /\ CandidateFails(class) => SInv'
<1> SUFFICES ASSUME SInv, CandidateFails(class) PROVE SInv'
  OBVIOUS
<1>1. /\ At("candidate") /\ IInv /\ class \in Classes
      /\ attempts \in Seq(AttemptType) /\ Len(attempts) \in Nat /\ failures \in Seq(Classes)
      /\ cfg' = cfg /\ limits' = limits /\ UNCHANGED emitter
  <2>1. At("candidate") /\ cfg' = cfg /\ limits' = limits /\ UNCHANGED emitter /\ IInv
    BY DEF CandidateFails, emitter, SInv
  <2> QED BY <2>1, ConfigAssumption DEF IInv, Typed, ConfigType
<1>2. IInv'
  BY <1>1, CandidateFailsStep
<1>3. PICK n \in Nat : n = Len(attempts) + 1
  BY <1>1
<1>4. CASE Continue(<<Candidate(Head(todo).n + 1)>>)
  <2>1. Head(todo).n \in Nat
    BY <1>1, AwaitIs DEF Awaits
  <2> QED BY <1>1, <1>2, <1>4, <2>1, NextCandidateTells
<1>5. CASE FallbackFails("failed", FallbackMeta(class, TRUE),
                         InvalidEvents(Append(failures, class), n))
  <2>1. PICK fs \in Seq(Classes) : fs = Append(failures, class)
    BY <1>1, AppendProperties
  <2>2. Len(fs) \in DOMAIN fs /\ fs[Len(fs)] = class
    BY <1>1, <2>1, AppendProperties
  <2>3. PICK E : E = InvalidEvents(fs, n)
    OBVIOUS
  <2>4. /\ E \in Seq(PreludesOf(n)) /\ \A k : Has(E, k, n) => k = "validation.failed"
        /\ class = "invalid" => Has(E, "validation.failed", n)
    BY <2>2, <2>3, HasInvalid
  <2>5. FallbackFails("failed", FallbackMeta(class, TRUE), E)
    BY <1>5, <2>1, <2>3
  <2>6. "failed" \in Statuses /\ "failed" # "succeeded"
    BY DEF Statuses
  <2> QED BY <1>1, <1>2, <1>3, <2>4, <2>5, <2>6, ChainFails
<1>6. CASE FallbackFails(StatusOf(Error(class, "none")), FallbackMeta(class, FALSE),
                         When(class = "invalid", Ev("validation.failed", n)))
  <2>1. PICK E : E = When(class = "invalid", Ev("validation.failed", n))
    OBVIOUS
  <2>2. E \in Seq(PreludesOf(n))
    BY <2>1, PreludeIs DEF Preludes
  <2>3. \A k : Has(E, k, n) <=> class = "invalid" /\ k = "validation.failed"
    BY <2>1, HasWhen
  <2>4. PICK status \in Statuses : status = StatusOf(Error(class, "none")) /\ status # "succeeded"
    BY DEF StatusOf, Statuses
  <2>5. FallbackFails(status, FallbackMeta(class, FALSE), E)
    BY <1>6, <2>1, <2>4
  <2> QED BY <1>1, <1>2, <1>3, <2>2, <2>3, <2>4, <2>5, ChainFails
<1> QED BY <1>3, <1>4, <1>5, <1>6 DEF CandidateFails

\* The beginning of a run.
LEMMA InitCourse ==
  ASSUME Init
  PROVE  /\ todo \in Seq(Items) /\ Len(todo) = 3 /\ DOMAIN todo = 1..3
         /\ todo[1].type = "operation.started"
         /\ todo[2].type = "attempt.started" /\ todo[2].n = 1
         /\ todo[3].type = "call"
         /\ Course(cfg.maxAttempts, todo, <<>>)
<1> DEFINE max == cfg.maxAttempts
<1>1. PICK u \in Items, v \in Items, x \in Items :
        /\ u = Ev("operation.started", 0) /\ u.type = "operation.started"
        /\ v = Ev("attempt.started", 1) /\ v.type = "attempt.started" /\ v.n = 1
        /\ x = CallAttempt(1) /\ x.type = "call" /\ x.n = 1
  <2>1. Ev("operation.started", 0) \in Items /\ Ev("attempt.started", 1) \in Items
    BY EventIs DEF EventTypes
  <2>2. CallAttempt(1) \in Items
    BY DEF CallAttempt, Items
  <2> QED BY <2>1, <2>2 DEF Ev, CallAttempt
<1>2. PICK s : s = <<u, v, x>>
  OBVIOUS
<1>3. todo = s
  BY <1>1, <1>2 DEF Init
<1>4. s \in Seq(Items) /\ Len(s) = 3 /\ s[1] = u /\ s[2] = v /\ s[3] = x /\ DOMAIN s = 1..3
  BY <1>2
<1>5. \A i \in 1..3 : i = 1 \/ i = 2 \/ i = 3
  OBVIOUS
<1>6. Positions(s, Preludes) = {} /\ Positions(s, {"append"}) = {}
  BY <1>1, <1>4, <1>5 DEF Positions, Preludes
<1>7. Ordered(s)
  <2>1. \A i \in 1..Len(s) : s[i].type \notin Preludes \cup {"append"}
    BY <1>1, <1>4, <1>5 DEF Preludes
  <2>2. ASSUME NEW i \in 1..(Len(s) - 1)
        PROVE  /\ s[i].type \notin OperationEnds /\ s[i].type # "retry.scheduled"
               /\ s[i].type # "operation.succeeded"
               /\ s[i + 1].type \notin Ends \cup {"sleep"}
    <3>1. i = 1 \/ i = 2
      BY <1>4
    <3>2. CASE i = 1
      <4>1. s[i] = u /\ s[i + 1] = v
        BY <1>4, <3>2
      <4> QED BY <1>1, <4>1 DEF OperationEnds, Ends
    <3>3. CASE i = 2
      <4>1. s[i] = v /\ s[i + 1] = x
        BY <1>4, <3>3
      <4> QED BY <1>1, <4>1 DEF OperationEnds, Ends
    <3> QED BY <3>1, <3>2, <3>3
  <2> QED BY <1>6, <2>1, <2>2 DEF Ordered, Ends
<1>8. Course(max, s, <<>>)
  <2>1. max > 0 /\ max \in Nat
    BY ConfigAssumption DEF Init, ConfigType
  <2>2. Leads(max, x, <<>>)
    BY <1>1, <2>1 DEF Leads, MayGoOn
  <2>3. \A y \in {u, v, x} :
          Fits(max, y, <<>>) /\ y.type \notin Preludes \cup AttemptEnds
    BY <1>1 DEF Fits, Preludes, AttemptEnds
  <2>4. \A i \in 1..Len(s) : s[i] \in {u, v, x}
    BY <1>4, <1>5
  <2>5. s[Len(s)] = x
    BY <1>4
  <2> QED BY <1>7, <2>2, <2>3, <2>4, <2>5 DEF Course
<1> QED BY <1>1, <1>3, <1>4, <1>8

\* A run begins with nothing told.
LEMMA InitSInv == Init => SInv
<1> SUFFICES ASSUME Init PROVE SInv
  OBVIOUS
<1> DEFINE max == cfg.maxAttempts
           none == <<>>
<1>1. IInv
  BY InitIInv
<1>2. /\ cfg \in Configs /\ cfg.sinks \in Nat /\ max \in Nat \ {0}
      /\ Running /\ result.kind = "running" /\ attempts = none
      /\ limits = [encountered |-> FALSE, exceeded |-> FALSE, waits |-> 0]
      /\ \A t \in Sinks : received[t] = none
      /\ \A t \in Sinks : Rest(t) = todo
  <2>1. cfg \in Configs /\ cfg.sinks \in Nat /\ max \in Nat \ {0}
    BY ConfigAssumption DEF Init, ConfigType
  <2>2. \A t \in Sinks : ~(t < sink)
    BY <2>1 DEF Init, Sinks
  <2>3. Running /\ result.kind = "running"
    BY DEF Init, Running, Ended
  <2> QED BY <2>1, <2>2, <2>3 DEF Init, Sinks, Rest
<1>3. /\ Len(todo) = 3 /\ DOMAIN todo = 1..3
      /\ todo[1].type = "operation.started" /\ todo[2].type = "attempt.started"
      /\ todo[2].n = 1 /\ todo[3].type = "call"
      /\ Course(max, todo, none)
  BY InitCourse
<1>4. \A i \in 1..3 : i = 1 \/ i = 2 \/ i = 3
  OBVIOUS
<1>5. /\ Positions(todo, {"append"}) = {} /\ Positions(todo, AttemptEnds) = {}
      /\ Positions(todo, {"retry.scheduled"}) = {}
      /\ Positions(todo, {"attempt.started"}) = {2}
  BY <1>3, <1>4 DEF Positions, AttemptEnds
<1>6. /\ none \in Seq(AttemptType) /\ Len(none) = 0 /\ \A types : Positions(none, types) = {}
      /\ Primaries(none) = {} /\ Primary(none) = 0
  BY DEF Positions, Primaries, Primary
<1> HIDE DEF none, max
<1>7. none \in Written(attempts, todo)
  BY <1>2, <1>5 DEF Written
<1>8. Ran(max, none) /\ Limits(limits, none)
  BY <1>2, <1>6 DEF Ran, Limits
<1>9. Tale(max, none, todo, none, none)
  <2>1. \A types, m : m = 0 => OnceEach(none, types, 1..m)
    BY <1>6 DEF OnceEach
  <2>2. /\ Once(none, todo, AttemptEnds, 0) /\ Once(none, todo, {"retry.scheduled"}, 0)
    BY <1>5, <2>1 DEF Once
  <2>3. Once(none, todo, {"attempt.started"}, 1)
    BY <1>3, <1>5, <2>1 DEF Once
  <2>4. todo[Len(todo)].type = "call" /\ todo[1].type \notin Ends
    BY <1>3 DEF Ends
  <2> QED BY <1>6, <2>2, <2>3, <2>4 DEF Tale
<1>10. Waited(limits, none, todo)
  <2>1. LimitedRetries(none) = {}
    BY <1>6 DEF LimitedRetries
  <2> QED BY <1>2, <1>3, <2>1, FS_EmptySet DEF Waited
<1>11. Telling
  BY <1>2, <1>3, <1>7, <1>8, <1>9, <1>10 DEF Telling, max
<1>12. EventsFollowAttempts
  <2>1. \A types : OnceEach(none, types, 1..0)
    BY <1>6 DEF OnceEach
  <2>2. Follow(none, none)
    BY <1>6, <2>1 DEF Follow
  <2>3. DOMAIN none = {}
    BY DEF none
  <2> QED BY <1>2, <2>2, <2>3 DEF EventsFollowAttempts
<1>13. ReportAgrees
  BY <1>2 DEF ReportAgrees, Ends
<1>14. RetriesComeFirst
  <2>1. ~At("candidate")
    BY <1>3 DEF At, Init, Ev
  <2> QED BY <1>2, <1>6, <2>1 DEF RetriesComeFirst
<1> QED BY <1>1, <1>11, <1>12, <1>13, <1>14 DEF SInv

\* Every step of a run, its sinks and its callers goes on with the story.
LEMMA StepSInv == SInv /\ [Next]_vars => SInv'
<1> SUFFICES ASSUME SInv, [Next]_vars PROVE SInv'
  OBVIOUS
<1>1. IInv'
  BY StepIInv DEF SInv
<1>2. ASSUME NEW e \in Errors, PlanningRaises(e) PROVE SInv'
  <2>1. /\ Running /\ todo' = <<>> /\ UNCHANGED <<cfg, attempts, limits>>
        /\ UNCHANGED received
        /\ result'.kind \notin {"running", "failed", "returned", "value_error"}
    BY <1>2 DEF PlanningRaises, Ended, emitter, At
  <2> QED BY <1>1, <2>1, LeftAsTold
<1>3. CASE SinkRaises \/ Cancel
  <2>1. PICK kind \in {"sink_error", "cancelled"} :
          Running /\ Abandon(kind) /\ (AtEvent => cfg.sinks > 0)
    BY <1>3 DEF SinkRaises, Cancel, AtEvent
  <2>2. /\ Running /\ todo' = <<>> /\ UNCHANGED <<cfg, attempts, limits>>
        /\ result'.kind \notin {"running", "failed", "returned", "value_error"}
        /\ UNCHANGED received \/ (AtEvent /\ cfg.sinks > 0 /\ Stored(sink))
    BY <2>1 DEF Abandon, Ended
  <2> QED BY <1>1, <2>2, LeftAsTold
<1>4. CASE UNCHANGED vars
  <2>1. /\ cfg' = cfg /\ todo' = todo /\ attempts' = attempts /\ limits' = limits
        /\ result' = result /\ sink' = sink /\ received' = received
    BY <1>4 DEF vars
  <2>2. Sinks' = Sinks /\ Running' = Running /\ At("candidate")' = At("candidate")
    BY <2>1 DEF Sinks, Running, At
  <2>3. \A t \in Sinks : Rest(t)' = Rest(t)
    BY <2>1 DEF Rest
  <2>4. Telling => Telling'
    BY <2>1, <2>2, <2>3 DEF Telling
  <2>5. EventsFollowAttempts'
    BY <2>1, <2>2 DEF SInv, EventsFollowAttempts
  <2>6. ReportAgrees'
    BY <2>1, <2>2 DEF SInv, ReportAgrees
  <2>7. RetriesComeFirst'
    BY <2>1, <2>2 DEF SInv, RetriesComeFirst
  <2> QED BY <1>1, <2>2, <2>4, <2>5, <2>6, <2>7 DEF SInv
<1> QED
  BY <1>2, <1>3, <1>4, DeliverTells, AttemptSucceedsTells, AttemptFailsTells, WakeTells,
     CandidateSucceedsTells, CandidateFailsTells DEF Next, Progress

\* The events of every sink follow the recorded attempts, in their order and
\* in what they say of each, wherever the run is left.
THEOREM EventsAlwaysFollow == Spec => []EventsFollowAttempts
BY InitSInv, StepSInv, PTL DEF Spec, SInv

\* No report is refused by its own checks, and every report a caller gets
\* agrees with the events of every sink.
THEOREM ReportAlwaysAgrees == Spec => []ReportAgrees
BY InitSInv, StepSInv, PTL DEF Spec, SInv

\* The fallback chain and the failure of a run come after the last retry.
THEOREM RetriesAlwaysFirst == Spec => []RetriesComeFirst
BY InitSInv, StepSInv, PTL DEF Spec, SInv
=============================================================================
