--------------------------- MODULE ParamPipeline ---------------------------
(***************************************************************************)
(* The scanner, the prober and the collector over the files they share:    *)
(* ParamScanner writes publications.jsonl, param_uncertainty.jsonl and     *)
(* state.json, the prober writes measurements.jsonl, ParamHold reads all   *)
(* four. The processes share nothing else, and each takes its steps at its *)
(* own pace.                                                               *)
(***************************************************************************)
EXTENDS ParamScanner

CONSTANTS
  Points, RetryPasses, CursorEvery,     \* of the collector: see ParamHold
  MaxCorrections,
  CollectorFaults, MaxCollectorFaults   \* ParamHold's FaultKinds and MaxFaults

VARIABLES
  measFile, corrFile,                         \* the prober's file; the collector's
  pubs, ranges, rows, base, cur,              \* the collector's tables
  cpc, pos, asked, todo, now, pending, cfaults  \* the collector's pass

Hold ==
  INSTANCE ParamHold WITH
    ScannerRuns <- {<<>>}, script <- <<>>, written <- 0, stateHist <- state.hist, pc <- cpc,
    faults <- cfaults, FaultKinds <- CollectorFaults, MaxFaults <- MaxCollectorFaults

collectorVars == <<corrFile, pubs, ranges, rows, base, cur, cpc, pos, asked, todo, now, pending, cfaults>>
pipelineVars == <<scannerVars, measFile, collectorVars>>

PipelineInit == Init /\ measFile = <<>> /\ Hold!InitStore

Scanner == Next /\ UNCHANGED <<measFile, collectorVars>>
Prober == UNCHANGED scannerVars /\ Hold!ProberWrites
Collector == UNCHANGED scannerVars /\ (Hold!Pass \/ Hold!Failure)

PipelineNext == Scanner \/ Prober \/ Collector

PipelineSpec == PipelineInit /\ [][PipelineNext]_pipelineVars

-----------------------------------------------------------------------------
(* Properties. *)

SilentIn(p) == {k \in p.promise - 1 .. p.settle : chain[k].change = "silent"}

SilentBy(h) == {k \in 1 .. h : chain[k].change = "silent"}

(* Each of these silent changes is in one of these ranges. *)
Explained(silent, over) == \A k \in silent : \E r \in over : r.from <= k /\ k <= r.to

(* A value in force from the first tx of the promise's block, a finalize   *)
(* change or one a check put there, was replaced in that block: it is no   *)
(* candidate of the deadline (see ReplacedAtPromise).                      *)
HiddenAtPromise(p) ==
  chain[p.promise].change = "tx" /\ (ReplacedAtPromise(p) \/ (p.promise - 1) % RecEvery = 0)

(* When the collector closes a range, each publication it has under it has *)
(* a deadline no later than the earliest one its server could have used,   *)
(* provided the silent changes it spans are all in ranges on record by     *)
(* then: whatever history state.json held when the pass began.             *)
ClosedDeadlineIsRight ==
  [][\A r \in DOMAIN ranges :
       cpc = "range" /\ r \in DOMAIN ranges' /\ ranges[r].holds /\ ~ranges'[r].holds =>
         \A i \in Hold!Covered(r) :
           Explained(SilentIn(pubs[i]), {r}) /\ ~HiddenAtPromise(pubs[i]) => pubs[i].msu <= ServerDeadline(pubs[i])]_pipelineVars

(* A publication that settled after every range over it and is not held    *)
(* has a deadline no later than the earliest one its server could have     *)
(* used, provided every silent change up to its settlement is in a range   *)
(* verified by then, the ones before its promise too, which no check may   *)
(* have looked at yet: what a verified range proves is in the history it   *)
(* was stamped from.                                                       *)
LaterPublicationIsRight ==
  \A i \in DOMAIN pubs :
    LET p == pubs[i]
        before == {r \in DOMAIN ranges : ranges[r].resolution = "verified" /\ r.to < p.settle}
    IN ~p.held /\ Explained(SilentBy(p.settle), before) /\ ~HiddenAtPromise(p) => p.msu <= ServerDeadline(p)

(* The collector is never ahead of the record: every publication and every *)
(* range it has stored is a line of the scanner's files, with the deadline *)
(* the line stamped still on the row, across restarts of both processes.   *)
StoreFollowsRecord ==
  /\ \A i \in DOMAIN pubs : \E line \in Range(pubFile) : line.id = i /\ line.msu = pubs[i].stamped
  /\ \A r \in DOMAIN ranges : \E u \in Range(rangeFile) :
       Hold!RangeId(u) = r /\ u.resolution = ranges[r].resolution /\ u.values = ranges[r].values
=============================================================================
