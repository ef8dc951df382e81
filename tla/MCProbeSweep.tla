---------------------------- MODULE MCProbeSweep ----------------------------
(* One publication with two points in its window, owed by two                *)
(* validators, one of whose shards is heavier than the byte budget.        *)
EXTENDS ProbeSweep

SettledAt0 == [pub \in Pubs |-> 0]
DeadlineAt3 == [pub \in Pubs |-> 3]
OneThenTwo == [pub \in Pubs |-> [pt \in Points |-> IF pt = "w1" THEN 1 ELSE 2]]
LightAndHeavy == [v \in Owing |-> IF v = "v1" THEN 1 ELSE 3]
=============================================================================
