--------------------------- MODULE MCParamScanner ---------------------------
(* The scanner's two histories on small instances: the params of           *)
(* ParamScanner (two windows, a check every second block) and the hosts of *)
(* HostHistory.  processBlock feeds both and neither reads the other, so   *)
(* they are looked at side by side: "part" says which one a behaviour is   *)
(* of.                                                                     *)
EXTENDS ParamScanner

Short == [timeout |-> 1, retention |-> 0]
Long == [timeout |-> 3, retention |-> 2]

TwoValues == {Short, Long}

CONSTANTS HostValidators, FirstScanned, LastHeight, RetryEvery, SaveEvery, GapHeights, Troubles, SeedTips, MaxCrashes

VARIABLES
  part, registered, height, step, hosts, seedAt, lost, activated, reread, hostState, hostFile, stamps, crashes

hostOnly ==
  <<registered, height, step, hosts, seedAt, lost, activated, reread, hostState, hostFile, stamps, crashes>>

H == INSTANCE HostHistory

NoHosts ==
  /\ registered = 0 /\ height = 0 /\ step = 0 /\ hosts = 0 /\ seedAt = 0 /\ lost = 0 /\ activated = 0
  /\ reread = 0 /\ hostState = 0 /\ hostFile = 0 /\ stamps = 0 /\ crashes = 0

(* A validator registers a host, or another, twice at most. *)
RegisteredAtMostTwice ==
  \A v \in HostValidators : Cardinality({h \in DOMAIN registered[v] : registered[v][h] # "no"}) <= 2

OneStart == chain[1].params = Short

ScanInit ==
  \/ part = "params" /\ Init /\ NoHosts
  \/ part = "hosts" /\ Init /\ OneStart /\ H!HostInit /\ RegisteredAtMostTwice

ScanNext ==
  \/ part = "params" /\ Next /\ UNCHANGED <<part, hostOnly>>
  \/ part = "hosts" /\ H!HostNext /\ UNCHANGED <<part, scannerVars>>

ScanSpec == ScanInit /\ [][ScanNext]_<<part, scannerVars, hostOnly>>

(* A host on record is the one registered when the promise settled         *)
(* (HostHistory).                                                          *)
HostIsRight == part = "hosts" => H!HostIsRight
=============================================================================
