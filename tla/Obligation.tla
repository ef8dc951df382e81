----------------------------- MODULE Obligation -----------------------------
(***************************************************************************)
(* One promise from its schedule to its bucket: the points are read, or    *)
(* not, of every validator that signed for it, the rows are classified     *)
(* (Taxonomy), and the figures are drawn over them (Figures), in Go for    *)
(* the recomputation and in SQL for the rollup and the API.                *)
(***************************************************************************)
EXTENDS Figures

CONSTANTS
  Validators,  \* who signed for the promise
  Windows,     \* the promises: settlement, deadline and what they say of the params
  Fractions,   \* where the readings sit
  Lateness,    \* by how much a reading starts after its point
  MaxBlind     \* readings the observer does not get

(* The readings are numbered by their fractions, and 100 and 101 are those *)
(* past the deadline.                                                      *)
ASSUME ObligationAssumption ==
  /\ IsFiniteSet(Validators)
  /\ \A w \in Windows : w.settled \in Nat /\ w.mustServeUntil \in Nat /\ w.timeout \in Nat /\ w.retention \in Nat
  /\ Fractions \in Seq(Int) /\ Len(Fractions) < 100
  /\ Lateness \in Nat /\ MaxBlind \in Nat

VARIABLES
  pub,      \* the promise
  gone,     \* validator -> when the shard leaves its disk
  readings, \* the probe rows of the promise
  blind,    \* readings the observer did not get, so far
  down,     \* the point at which its own network is down, 0 if none
  withheld  \* the promise lies in a params range that withholds

obligationVars == <<pub, gone, readings, blind, down, withheld>>

(* A shard is kept, or lost between two readings. *)
ObligationInit ==
  /\ pub \in Windows
  /\ gone \in [Validators -> {p.at + Lateness + 1 : p \in InWindowPoints(pub, Fractions)} \cup {pub.mustServeUntil}]
  /\ down \in {0} \cup {p.label : p \in InWindowPoints(pub, Fractions)}
  /\ readings = {} /\ blind = 0 /\ withheld = FALSE

(* What is read past the deadline counts in no obligation. *)
ScheduleOf ==
  [w \in Windows |->
     LET all == ScheduleFor(w, Fractions)
     IN  SubSeq(all, 1, Cardinality({i \in DOMAIN all : all[i].phase = "in_window"}))]

RowsRead(v) == Cardinality({r \in readings : r.validator = v})

(* What a reading may come back with when it does not speak for the shard. *)
Silences ==
  {[outcome |-> "TCP_TIMEOUT", tls |-> FALSE], [outcome |-> "SERVER_ERROR", tls |-> TRUE],
   [outcome |-> "MISSED", tls |-> FALSE]}

Reply(v, point) ==
  IF point.label = down THEN [outcome |-> "TCP_TIMEOUT", tls |-> FALSE]
  ELSE [outcome |-> IF point.at + Lateness < gone[v] THEN "SERVED_OK" ELSE "NOT_FOUND", tls |-> TRUE]

RowOf(v, point, seen) ==
  LET started == point.at + Lateness
      phase == PhaseAtWindow(started, pub.mustServeUntil, PruneTolerance)
  IN  [validator |-> v, at |-> point.at, started |-> started, phase |-> phase, assigned |-> TRUE, attested |-> TRUE,
       outcome |-> seen.outcome, tls |-> seen.tls, held |-> withheld,
       class |-> Classify([assigned |-> TRUE, attested |-> TRUE, unknown |-> FALSE, phase |-> phase,
                           outcome |-> seen.outcome, verified |-> FALSE, shadowed |-> FALSE, uncertain |-> FALSE,
                           stale |-> FALSE, pinStale |-> FALSE])]

(* The points are far apart: one is read of everybody before the next is.  *)
Read(v) ==
  /\ RowsRead(v) < Len(ScheduleOf[pub])
  /\ \A u \in Validators : RowsRead(v) <= RowsRead(u)
  /\ LET point == ScheduleOf[pub][RowsRead(v) + 1]
     IN  \/ readings' = readings \cup {RowOf(v, point, Reply(v, point))} /\ blind' = blind
         \/ /\ blind < MaxBlind
            /\ \E seen \in Silences : readings' = readings \cup {RowOf(v, point, seen)}
            /\ blind' = blind + 1
  /\ UNCHANGED <<pub, gone, down, withheld>>

(* A range withholds the promise with its rows, or lets go of it. *)
HoldOrLift ==
  /\ withheld' = ~withheld
  /\ readings' = {[r EXCEPT !.held = ~withheld] : r \in readings}
  /\ UNCHANGED <<pub, gone, blind, down>>

ObligationNext == HoldOrLift \/ \E v \in Validators : Read(v)

ObligationSpec == ObligationInit /\ [][ObligationNext]_obligationVars

-----------------------------------------------------------------------------
(* The figures at the deadline, when nothing is pending any more. *)

InFigures(all) == Counted(all, pub.mustServeUntil, SuspectPoints(all))
Of(counted, v) == {r \in counted : r.validator = v}

InBucket(all, b) ==
  LET counted == InFigures(all)
  IN  {v \in Validators : Of(counted, v) # {} /\ Bucket(Of(counted, v), pub, pub.mustServeUntil) = b}

(* A shard that left the disk before the last minutes of its window is     *)
(* never counted as served, whatever the observer missed (schedule.go,     *)
(* LastPointMargin; verdict.go, EndSegmentDivisor).                        *)
ServedIsWatchedToTheEnd ==
  \A v \in InBucket(readings, "served") : gone[v] > pub.mustServeUntil - LastPointMargin

(* The recomputation in Go and the columns of the SQL put every obligation *)
(* in one bucket, and in the same one (rollup.go, ObligationSums).         *)
TwinsAgree ==
  LET counted == InFigures(readings)
  IN  \A v \in Validators : \A end \in {pub.mustServeUntil - 1, pub.mustServeUntil} :
        LET before == {r \in Of(counted, v) : r.started <= end}
        IN  before # {} => Columns(Sums(before, pub, end)) = {Bucket(before, pub, end)}
=============================================================================
