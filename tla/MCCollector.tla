----------------------------- MODULE MCCollector -----------------------------
(* What the collector's store keeps and the API says of it: the holds      *)
(* (ParamHold), the history of the withdrawal queue (Withdrawals) and the  *)
(* aggregates the API keeps while holds land (SnapshotCache).  No table is *)
(* shared, so they are looked at side by side: "part" says which one a     *)
(* behaviour is of.                                                        *)
EXTENDS MCParamHold, SnapshotCache, Withdrawals

VARIABLE part

OneRun == script = OneRange

NoQueue == queues = [h \in 0 .. Tip |-> EmptyQueue] /\ payouts = {} /\ NothingRead

NoCache == kind = "window" /\ CacheInit

CollectorInit ==
  /\ Init
  /\ \/ part = "holds" /\ NoQueue /\ NoCache
     \/ part = "withdrawals" /\ OneRun /\ WithdrawalInit /\ NoCache
     \/ part = "cache" /\ OneRun /\ NoQueue /\ CacheInit

CollectorNext ==
  \/ part = "holds" /\ Next /\ UNCHANGED <<part, withdrawalVars, cacheVars>>
  \/ part = "withdrawals" /\ WithdrawalNext /\ UNCHANGED <<part, holdVars, cacheVars>>
  \/ part = "cache" /\ CacheNext /\ UNCHANGED <<part, holdVars, withdrawalVars>>

CollectorSpec == CollectorInit /\ [][CollectorNext]_<<part, holdVars, withdrawalVars, cacheVars>>
=============================================================================
