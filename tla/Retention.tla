----------------------------- MODULE Retention -----------------------------
(***************************************************************************)
(* observer/rollup: a day's figures are frozen once nothing of it can      *)
(* change any more, and its rows are deleted long after; what the API      *)
(* answers for all time is the frozen days and the rows that are left      *)
(* (observer/api, rolledFor and obligationArgs).                           *)
(*                                                                         *)
(* Times are hours.  A retention pass is not one transaction: a day's      *)
(* figures are, the mark that it is rolled is another write, and so is     *)
(* every table's delete and the mark of the first day left.                *)
(***************************************************************************)
EXTENDS Figures

CONSTANTS
  Signers,
  Promises,     \* what settled: its hours, its readings, whether it was drawn out
  Landings,     \* validator -> class: what a reading may land with
  RollupAfter,  \* days after its end that a day is rolled
  RetainRaw,    \* days its rows are kept
  PruneDays,    \* days a pass prunes at most
  MaxDelay,     \* days until a row is ingested, or a fault of it settled
  MaxDay

UTCDay(t) == t \div 24
Days == 0..MaxDay

(* --rollup-after clears every retention window, and so every reading of a *)
(* promise with the days its row takes to arrive (observer-collector, its  *)
(* flag; rollup.go, Config).  Nothing is read before it settled (rollDay). *)
ASSUME RetentionAssumption ==
  /\ RollupAfter \in Nat /\ RetainRaw \in Nat /\ PruneDays \in Nat /\ MaxDelay \in Nat /\ MaxDay \in Nat
  /\ MaxDelay <= RollupAfter
  /\ Landings \subseteq [Signers -> Classes]
  /\ \A p \in Promises :
       /\ p.settled \in Nat /\ UTCDay(p.settled) \in Days /\ p.mustServeUntil \in Nat
       /\ \A point \in p.points :
            /\ point.at \in Int /\ point.started \in Nat /\ p.settled <= point.started
            /\ UTCDay(point.started) + MaxDelay <= UTCDay(p.settled) + RollupAfter

(* A point keeps the nanosecond of the block its promise settled in        *)
(* (schedule.go; store.TimeLayout): those of one block share theirs, those *)
(* of different days do not.                                               *)
ASSUME MomentsAssumption ==
  \A p, q \in Promises : UTCDay(p.settled) # UTCDay(q.settled) =>
    \A point \in p.points, other \in q.points : point.at # other.at

VARIABLES
  today,     \* midnight has passed this often
  rows,      \* every probe row that was ever stored, as it reads now
  deleted,   \* <<table, day>> pairs the prune has deleted
  held,      \* promises under a params range that withholds
  through,   \* meta rollup_through
  rawFrom,   \* meta raw_from
  rolled,    \* day -> what the rollup tables hold of it
  pass       \* where the retention pass stands

retentionVars == <<today, rows, deleted, held, through, rawFrom, rolled, pass>>

Unset == -1
Hour == 24 * today

SettledOn(d) == {p \in Promises : UTCDay(p.settled) = d}

(* A promise drawn out has no probe rows: its decision stands for them. *)
TableOf(r) == IF r.promise.drawnOut THEN "sampling_decisions" ELSE "probes"
Tables == {"probes", "sampling_decisions"}

Stored == {r \in rows : <<TableOf(r), UTCDay(r.started)>> \notin deleted}

---------------------------------------------------------------------------
(* Figures over a set of rows. *)

AsHeld(rs) == {[r EXCEPT !.held = r.promise \in held] : r \in rs}

(* Every obligation with a row that counts, and its bucket. *)
ObligationsIn(rs, end) ==
  LET shown == AsHeld(rs)
      counted == Counted(shown, end, SuspectPoints(shown))
      whole(r) == {q \in counted : q.promise = r.promise /\ q.validator = r.validator}
  IN  {[promise |-> r.promise, validator |-> r.validator, bucket |-> Bucket(whole(r), r.promise, end)] : r \in counted}

(* rollDay: the promises settled that day, over all their rows; and the    *)
(* rows started that day, by class.                                        *)
DayFigures(rs, d) ==
  LET started == AsHeld({r \in rs : UTCDay(r.started) = d})
  IN  [obligations |-> ObligationsIn({r \in rs : UTCDay(r.promise.settled) = d}, Hour),
       probes |-> Cardinality(started),
       gaps |-> Cardinality({r \in started : IsGap(r.class)}),
       faults |-> Count({r \in started : r.at \notin SuspectPoints(started)}, {"FAULT"})]

---------------------------------------------------------------------------
(* The store, as the collector fills it. *)

RetentionInit ==
  /\ today = 0 /\ rows = {} /\ deleted = {} /\ held = {}
  /\ through = Unset /\ rawFrom = Unset /\ rolled = [d \in {} |-> {}]
  /\ pass = [at |-> "idle", day |-> 0, left |-> 0]

Landed(p, point) == \E r \in rows : r.promise = p /\ r.at = point.at

(* The record is ingested, and a fault confirmed or cleared, well within   *)
(* the days the rollup waits.                                              *)
Midnight ==
  /\ today < MaxDay
  /\ \A p \in Promises : \A point \in p.points :
       UTCDay(point.started) + MaxDelay <= today => Landed(p, point)
  /\ today' = today + 1
  /\ UNCHANGED <<rows, deleted, held, through, rawFrom, rolled, pass>>

(* The readings of one point, or what a sampling decision stands for. *)
Land(p, point) ==
  /\ point.started < Hour + 24 /\ ~Landed(p, point)
  /\ \E class \in IF p.drawnOut THEN {[v \in Signers |-> "NOT_PROBED"]} ELSE Landings :
       rows' = rows \cup
         {[promise |-> p, validator |-> v, at |-> point.at, started |-> point.started, phase |-> "in_window",
           assigned |-> TRUE, attested |-> TRUE, class |-> class[v], outcome |-> "PARTIAL",
           tls |-> class[v] \in {"HEALTHY", "FAULT"}, held |-> FALSE, deferred |-> class[v] = "PROBE_ERROR"]
          : v \in Signers}
  /\ UNCHANGED <<today, deleted, held, through, rawFrom, rolled, pass>>

(* A range comes on record with the scan of the blocks it covers. *)
HoldLands(p) ==
  /\ p \notin held /\ UTCDay(p.settled) + MaxDelay >= today /\ p.settled < Hour + 24
  /\ held' = held \cup {p}
  /\ UNCHANGED <<today, rows, deleted, through, rawFrom, rolled, pass>>

(* It closes, on the deadline as stamped, or on one that puts the last     *)
(* readings past it.                                                       *)
HoldLifts(p) ==
  /\ p \in held
  /\ held' = held \ {p}
  /\ \/ rows' = rows
     \/ rows' = {IF r \in Stored /\ r.promise = p /\ InEndSegment(r.at, p)
                 THEN [r EXCEPT !.phase = "grace", !.class = "TOLERATED"] ELSE r : r \in rows}
  /\ UNCHANGED <<today, deleted, through, rawFrom, rolled, pass>>

(* The late shadow verdict, whenever the scanner has read far enough. *)
AmendDeferred(r) ==
  /\ r \in Stored /\ r.deferred
  /\ \E class \in {"SHADOWED_SHARD", "UNMATCHED_GENUINE"} :
       rows' = (rows \ {r}) \cup {[r EXCEPT !.class = class, !.deferred = FALSE]}
  /\ UNCHANGED <<today, deleted, held, through, rawFrom, rolled, pass>>

---------------------------------------------------------------------------
(* A retention pass. *)

(* Mutant: a held promise does not keep its day open. *)
DayFinalDespiteHold(d) ==
  /\ \A p \in SettledOn(d) : Hour >= p.mustServeUntil + 1
  /\ \A r \in Stored : UTCDay(r.promise.settled) = d => ~r.deferred

(* Every window of the day has closed, no row of it awaits a late verdict, *)
(* none of its promises is held.                                           *)
DayFinal(d) ==
  /\ \A p \in SettledOn(d) : Hour >= p.mustServeUntil + 1
  /\ \A r \in Stored : UTCDay(r.promise.settled) = d => ~r.deferred
  /\ \A p \in SettledOn(d) : p \notin held

RollupDue(d) == d <= today - RollupAfter - 1

FirstRowDay == IF Promises = {} THEN 0 ELSE CHOOSE d \in Days : SettledOn(d) # {} /\ \A e \in 0..d - 1 : SettledOn(e) = {}

BeginRollup ==
  /\ pass.at = "idle"
  /\ pass' = [at |-> "roll", day |-> IF through = Unset THEN FirstRowDay ELSE through + 1, left |-> 0]
  /\ UNCHANGED <<today, rows, deleted, held, through, rawFrom, rolled>>

(* One transaction; it replaces an earlier rollup of the day. *)
RollDay ==
  /\ pass.at = "roll" /\ RollupDue(pass.day) /\ DayFinal(pass.day)
  /\ rolled' = [d \in DOMAIN rolled \cup {pass.day} |-> IF d = pass.day THEN DayFigures(Stored, d) ELSE rolled[d]]
  /\ pass' = [pass EXCEPT !.at = "rolled"]
  /\ UNCHANGED <<today, rows, deleted, held, through, rawFrom>>

NoteRolled ==
  /\ pass.at = "rolled"
  /\ through' = pass.day
  /\ pass' = [pass EXCEPT !.at = "roll", !.day = @ + 1]
  /\ UNCHANGED <<today, rows, deleted, held, rawFrom, rolled>>

(* Mutant: a day is pruned as soon as its rows are old enough. *)
ToPruneUnrolled(d) == d < today - RetainRaw /\ d <= today - RollupAfter

ToPrune(d) == d <= through /\ d < today - RetainRaw

(* Days roll in order: the first that is not final holds every later one.  *)
RollupOver ==
  /\ pass.at = "roll" /\ ~(RollupDue(pass.day) /\ DayFinal(pass.day))
  /\ pass' = IF through = Unset THEN [pass EXCEPT !.at = "idle"]
             ELSE [at |-> "prune", day |-> IF rawFrom = Unset THEN FirstRowDay ELSE rawFrom, left |-> PruneDays]
  /\ UNCHANGED <<today, rows, deleted, held, through, rawFrom, rolled>>

DeleteProbes ==
  /\ pass.at = "prune" /\ pass.left > 0 /\ ToPrune(pass.day)
  /\ deleted' = deleted \cup {<<"probes", pass.day>>}
  /\ pass' = [pass EXCEPT !.at = "halfDeleted"]
  /\ UNCHANGED <<today, rows, held, through, rawFrom, rolled>>

DeleteDecisions ==
  /\ pass.at = "halfDeleted"
  /\ deleted' = deleted \cup {<<"sampling_decisions", pass.day>>}
  /\ pass' = [pass EXCEPT !.at = "deleted"]
  /\ UNCHANGED <<today, rows, held, through, rawFrom, rolled>>

NotePruned ==
  /\ pass.at = "deleted"
  /\ rawFrom' = pass.day + 1
  /\ pass' = [at |-> "prune", day |-> pass.day + 1, left |-> pass.left - 1]
  /\ UNCHANGED <<today, rows, deleted, held, through, rolled>>

EndPass ==
  /\ pass.at = "prune" /\ ~(pass.left > 0 /\ ToPrune(pass.day))
  /\ pass' = [at |-> "idle", day |-> 0, left |-> 0]
  /\ UNCHANGED <<today, rows, deleted, held, through, rawFrom, rolled>>

(* An error, or the process: the pass ends where it is. *)
PassDies ==
  /\ pass.at # "idle"
  /\ pass' = [at |-> "idle", day |-> 0, left |-> 0]
  /\ UNCHANGED <<today, rows, deleted, held, through, rawFrom, rolled>>

RetentionNext ==
  \/ Midnight
  \/ \E p \in Promises : HoldLands(p) \/ HoldLifts(p) \/ \E point \in p.points : Land(p, point)
  \/ \E r \in rows : AmendDeferred(r)
  \/ BeginRollup \/ RollDay \/ NoteRolled \/ RollupOver
  \/ DeleteProbes \/ DeleteDecisions \/ NotePruned \/ EndPass \/ PassDies

RetentionSpec == RetentionInit /\ [][RetentionNext]_retentionVars

---------------------------------------------------------------------------
(* What the API answers for all time. *)

(* Past the first prune the raw part starts with the promises settled on   *)
(* raw_from: older ones may still have rows there.                         *)
RawObligations == ObligationsIn({r \in Stored : rawFrom # Unset => UTCDay(r.promise.settled) >= rawFrom}, Hour)

RolledObligations == UNION {rolled[d].obligations : d \in {e \in DOMAIN rolled : e < rawFrom}}

SameObligation(a, b) == a.promise = b.promise /\ a.validator = b.validator

(* A frozen day reads as its rows would read now, had they been kept: no   *)
(* correction, late verdict or row comes after it (rollup.go, dayFinal).   *)
RolledIsFinal ==
  \A d \in DOMAIN rolled : d <= through => rolled[d] = DayFigures(rows, d)

(* What a pass has deleted in part: a reader sees it until the next one    *)
(* has set raw_from.                                                       *)
HalfPruned == \E table \in Tables, d \in Days : <<table, d>> \in deleted /\ ~(d < rawFrom)

(* Every obligation there is is in the figures for all time, once, in the  *)
(* bucket it would be in had nothing been pruned (api.go, obligationArgs:  *)
(* "those rows would count the obligation a second time").                 *)
AllWindow == RolledObligations \cup RawObligations
CountedOnce ==
  /\ \A a \in RolledObligations, b \in RawObligations : ~SameObligation(a, b)
  /\ ~HalfPruned => AllWindow = ObligationsIn(rows, Hour)
=============================================================================
