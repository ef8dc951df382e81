------------------------------ MODULE Schedule ------------------------------
(***************************************************************************)
(* internal/probe/schedule.go: when a publication's shards are read.       *)
(* Times are seconds, fractions of a window are hundredths.                *)
(***************************************************************************)
EXTENDS Integers, FiniteSets, Sequences, SequencesExt

(* DefaultScheduleConfig; one interval at least between two points. *)
GraceOffset == 30
PruneTolerance == 150
PostMargin == 60
MinSpacing == 20
LastPointMargin == 150

(* A record that settled at or after its own deadline has a window of its  *)
(* own retention before it, and ten minutes when it says nothing.          *)
FallbackSpan(promise) ==
  LET span == IF promise.timeout > promise.retention THEN promise.timeout ELSE promise.retention
  IN  IF span > 0 THEN span ELSE 600

Start(promise) ==
  IF promise.settled < promise.mustServeUntil THEN promise.settled
  ELSE promise.mustServeUntil - FallbackSpan(promise)

InWindowFractions(fractions) == {i \in DOMAIN fractions : 0 < fractions[i] /\ fractions[i] < 100}

IsLastFraction(fractions, i) == \A j \in InWindowFractions(fractions) : fractions[j] <= fractions[i]

(* Mutant: every reading where its fraction puts it. *)
PlainPosition(promise, fractions, i) ==
  Start(promise) + ((promise.mustServeUntil - Start(promise)) * fractions[i]) \div 100

(* The last reading is pulled forward to the margin, never pushed back. *)
Position(promise, fractions, i) ==
  LET at == Start(promise) + ((promise.mustServeUntil - Start(promise)) * fractions[i]) \div 100
      deadline == promise.mustServeUntil - LastPointMargin
  IN  IF IsLastFraction(fractions, i) /\ at < deadline THEN deadline ELSE at

InWindowPoints(promise, fractions) ==
  {[at |-> Position(promise, fractions, i), phase |-> "in_window", label |-> i] : i \in InWindowFractions(fractions)}

PointsPastWindow(promise) ==
  {[at |-> promise.mustServeUntil + GraceOffset, phase |-> "grace", label |-> 100],
   [at |-> promise.mustServeUntil + PruneTolerance + PostMargin, phase |-> "post", label |-> 101]}

(* A point that lands too close to the last one kept is dropped. *)
Spaced(points) ==
  LET kept[n \in 0..Len(points)] ==
        IF n = 0 THEN <<>>
        ELSE LET before == kept[n - 1]
             IN  IF before # <<>> /\ points[n].at - Last(before).at < MinSpacing THEN before ELSE Append(before, points[n])
  IN  kept[Len(points)]

Before(p, q) == p.at < q.at \/ (p.at = q.at /\ p.label < q.label)

InOrder(points) ==
  [i \in 1..Cardinality(points) |-> CHOOSE p \in points : Cardinality({q \in points : Before(q, p)}) = i - 1]

ScheduleFor(promise, fractions) ==
  Spaced(InOrder(InWindowPoints(promise, fractions) \cup PointsPastWindow(promise)))

(* The final quarter of the window, on the promise's own settlement time.  *)
EndSegmentDivisor == 4
InEndSegment(at, promise) ==
  EndSegmentDivisor * (promise.mustServeUntil - at) <= promise.mustServeUntil - promise.settled
=============================================================================
