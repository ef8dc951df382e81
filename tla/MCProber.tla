------------------------------ MODULE MCProber ------------------------------
(* The two halves of the prober: the policy that admits requests           *)
(* (ProbeBudget), under caps of every kind, and the sweep that sends them  *)
(* (ProbeSweep), of one publication with two points in its window, owed by *)
(* two validators, one of whose shards is heavier than the byte budget.    *)
(* The sweep takes the policy's answer as free, so the two are looked at   *)
(* side by side: "part" says which one a behaviour is of, and the other    *)
(* stays where it starts.                                                  *)
EXTENDS ProbeBudget, ProbeSweep

VARIABLE part

ACap(scope, what, window, cap) == [scope |-> scope, what |-> what, window |-> window, cap |-> cap]

EveryCap ==
  {ACap("validator", "n", 4, 2), ACap("validator", "bytes", 5, 3), ACap("global", "bytes", 3, 2)}

(* Validators differ in nothing the policy looks at. *)
Interchangeable == Permutations(Validators)

SettledAt0 == [pub \in Pubs |-> 0]
DeadlineAt3 == [pub \in Pubs |-> 3]
OneThenTwo == [pub \in Pubs |-> [pt \in Points |-> IF pt = "w1" THEN 1 ELSE 2]]
LightAndHeavy == [v \in Owing |-> IF v = "v1" THEN 1 ELSE 3]

proberVars == <<part, vars, sweepVars>>

ProberInit == part \in {"policy", "sweep"} /\ Init /\ SweepInit

ProberNext ==
  \/ part = "policy" /\ Next /\ UNCHANGED <<part, sweepVars>>
  \/ part = "sweep" /\ SweepNext /\ UNCHANGED <<part, vars>>

ProberSpec == ProberInit /\ [][ProberNext]_proberVars
=============================================================================
