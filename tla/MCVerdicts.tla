----------------------------- MODULE MCVerdicts -----------------------------
(* From a probe to the figures: one probe and its class (OneProbe), the    *)
(* rows of a promise and its bucket (Obligation), a verdict amended later  *)
(* (Amendment), the days that are frozen and pruned (Retention) and those  *)
(* that are exported (Exports).  They hand on nothing but rows and lines,  *)
(* of which each takes every kind there is, so they are looked at side by  *)
(* side: "part" says which one a behaviour is of, and Parts which ones a   *)
(* run looks at.                                                           *)
EXTENDS Exports, Amendment, OneProbe, Obligation, Retention

CONSTANTS
  Parts,
  v1, v2, v3 \* the validators of an obligation

VARIABLE part

verdictVars == <<part, probeVars, obligationVars, amendmentVars, retentionVars, exportVars>>

-----------------------------------------------------------------------------
(* OneProbe: a window of three units and a tolerance of one, under a clock *)
(* that is right, ahead, or behind by more than the guard band.            *)
RightAheadOrBehind == {-2, 0, 1}
AWorld ==
  [target |-> [assigned |-> TRUE, attested |-> TRUE, unknown |-> FALSE], stored |-> "own", honest |-> TRUE,
   skew |-> 0, offset |-> 0, pinStale |-> FALSE]

(* Obligation: a window of four hours, one so short that its last reading  *)
(* is dropped, and a record settled after its own deadline, with three     *)
(* readings each.                                                          *)
Promise(settled, mustServeUntil) ==
  [settled |-> settled, mustServeUntil |-> mustServeUntil, retention |-> 3600, timeout |-> 600]
AllWindows == {Promise(0, 14400), Promise(0, 60), Promise(5000, 4000)}
ThreeReadings == <<43, 69, 92>>

(* One validator is as good as another: they are named in the order their  *)
(* shards go.                                                              *)
NamedInOrder == gone[v1] <= gone[v2] /\ gone[v2] <= gone[v3]

(* Amendment: a fault that two vantages are asked about, or rows whose     *)
(* owner settled before the probe, after it, too late or never, in a block *)
(* that was read or not, with its assignment on record or not; or no row   *)
(* says how long a promise may take to settle.                             *)
AlphabeticalRank == [v \in Vantages |-> IF v = "a" THEN 1 ELSE 2]
Unsettled == MaxTime + 9
AFault == [kind |-> "FAULT", settles |-> Unsettled, unread |-> FALSE, assigned |-> TRUE, timeout |-> 1]
GenuineRows ==
  [kind : {"genuine"}, settles : {1, 2, Unsettled}, unread : BOOLEAN, assigned : BOOLEAN, timeout : {1}]
NoTimeout == [kind |-> "genuine", settles |-> 1, unread |-> FALSE, assigned |-> TRUE, timeout |-> 0]
EveryWorld == {AFault, NoTimeout} \cup GenuineRows

(* Retention: a promise that settles late on its day and is read on two    *)
(* days, and one settled on the second day that was drawn out.  A reading  *)
(* finds one validator at fault, all of them (which is suspect), or rows   *)
(* of one that await the late verdict.                                     *)
Reading(at, started) == [at |-> at, started |-> started]
Drawn == [settled |-> 20, mustServeUntil |-> 32, drawnOut |-> FALSE, points |-> {Reading(22, 22), Reading(31, 31)}]
DrawnOut == [settled |-> 30, mustServeUntil |-> 42, drawnOut |-> TRUE, points |-> {Reading(41, 31)}]
But(one, class) == [v \in Signers |-> IF v = one THEN class ELSE "HEALTHY"]
FourLandings ==
  {But("v1", "HEALTHY"), But("v1", "FAULT"), But("v2", "PROBE_ERROR"), [v \in Signers |-> "FAULT"]}
ADayAndTheNext == {Drawn, DrawnOut}

(* Exports: two lines in a file. *)
TwoLines == [f \in Files |-> 2]

-----------------------------------------------------------------------------
(* The other parts, of those whose properties are the run's, stay at a    *)
(* start of theirs.                                                        *)
NoObligation ==
  ObligationInit /\ pub = Promise(0, 60) /\ gone = [v \in Validators |-> pub.mustServeUntil] /\ down = 0
NoProbe == probeNow = 0 /\ probeWorld = AWorld /\ ProbeInit
NoAmendment == AmendmentInit /\ world = AFault
NoRetention == RetentionInit
NoExports == Init /\ key = NoKey

VerdictInit ==
  /\ part \in Parts
  /\ \/ part = "probe" /\ ProbeInit /\ NoObligation /\ NoAmendment /\ NoRetention /\ NoExports
     \/ part = "obligation" /\ ObligationInit /\ NamedInOrder /\ NoProbe /\ NoAmendment /\ NoRetention /\ NoExports
     \/ part = "amendment" /\ AmendmentInit /\ NoProbe /\ NoObligation /\ NoRetention /\ NoExports
     \/ part = "retention" /\ RetentionInit /\ NoProbe /\ NoObligation /\ NoAmendment /\ NoExports
     \/ part = "exports" /\ Init /\ NoProbe /\ NoObligation /\ NoAmendment /\ NoRetention

VerdictNext ==
  \/ part = "probe" /\ ProbeNext /\ UNCHANGED <<part, obligationVars, amendmentVars, retentionVars, exportVars>>
  \/ part = "obligation" /\ ObligationNext /\ UNCHANGED <<part, probeVars, amendmentVars, retentionVars, exportVars>>
  \/ part = "amendment" /\ AmendmentNext /\ UNCHANGED <<part, probeVars, obligationVars, retentionVars, exportVars>>
  \/ part = "retention" /\ RetentionNext /\ UNCHANGED <<part, probeVars, obligationVars, amendmentVars, exportVars>>
  \/ part = "exports" /\ Next /\ UNCHANGED <<part, probeVars, obligationVars, amendmentVars, retentionVars>>

VerdictSpec == VerdictInit /\ [][VerdictNext]_verdictVars

=============================================================================
