------------------------------- MODULE MCLive -------------------------------
(* What must happen sooner or later, in the collector that lifts a hold    *)
(* (ParamHold) and in the prober that fills its slots (ProbeSweep).  The   *)
(* two share nothing here: "part" says which of them a behaviour is of,    *)
(* and the other stays where it starts.                                    *)
EXTENDS MCProbeSweep

CONSTANTS EndOfBlock, PubIds, RetryPasses, CursorEvery, FaultKinds, MaxFaults, MaxCorrections

VARIABLES
  part,
  script, written, pubFile, rangeFile, measFile, stateHist, corrFile, pubs, ranges, probes, base, cur, pc, pos, asked,
  unfixed, now, pending, faults

R == INSTANCE ScannerScripts
H == INSTANCE ParamHold WITH ScannerRuns <- {R!OnePub}, Points <- {"early"}, rows <- probes, todo <- unfixed

holdVars ==
  <<script, written, pubFile, rangeFile, measFile, stateHist, corrFile, pubs, ranges, probes, base, cur, pc, pos,
    asked, unfixed, now, pending, faults>>
liveVars == <<part, sweepVars, holdVars>>

HoldAlone == part = "hold" /\ UNCHANGED <<part, sweepVars>>
SweepAlone == part = "sweep" /\ UNCHANGED <<part, holdVars>>

LiveInit == part \in {"hold", "sweep"} /\ SweepInit /\ H!Init

LiveNext == (HoldAlone /\ H!Next) \/ (SweepAlone /\ SweepNext)

(* The fairness of each part, as it states it (ParamHold, ProbeSweep). *)
LiveSpec ==
  /\ LiveInit /\ [][LiveNext]_liveVars
  /\ (part = "hold" => []<><<HoldAlone /\ H!Pass>>_liveVars)
  /\ WF_liveVars(SweepAlone /\ TimePasses) /\ WF_liveVars(SweepAlone /\ Cycle) /\ WF_liveVars(SweepAlone /\ TakeRetrySlot)
  /\ \A pub \in Pubs : WF_liveVars(SweepAlone /\ Publish(pub))
  /\ \A s \in Slots : WF_liveVars(SweepAlone /\ Work(s))

(* With passes that keep being made and one store error, every row a       *)
(* verified range withheld is released.                                    *)
HoldsEventuallyLift == part = "hold" => H!HoldsEventuallyLift

(* Every slot of a publication that is not drawn out gets its row. *)
SlotsEventuallyRecorded == part = "sweep" => EverySlotRecorded
=============================================================================
