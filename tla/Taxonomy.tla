------------------------------ MODULE Taxonomy ------------------------------
(***************************************************************************)
(* internal/probe/classify.go: what one probe's evidence is called.        *)
(* Pure operators.  The order of the questions is the code's: what is the  *)
(* observer's own doing first, then what is a property of the endpoint,    *)
(* then the obligation, and the phase last.                                *)
(***************************************************************************)
EXTENDS Integers

Outcomes ==
  {"SERVED_OK", "NOT_FOUND", "WRONG_ROWS", "INVALID_ROWS", "PARTIAL", "DNS_FAIL", "TCP_REFUSED", "TCP_TIMEOUT",
   "TCP_UNREACHABLE", "TLS_HANDSHAKE_FAIL", "IDENTITY_FAIL", "RPC_UNAVAILABLE", "SERVER_ERROR", "RPC_THROTTLED",
   "RPC_DEADLINE", "NO_REGISTERED_HOST", "UNROUTABLE_HOST", "RPC_ERROR", "PROBE_ERROR", "MISSED", "REACHABLE"}

Classes ==
  {"HEALTHY", "FAULT", "UNREACHABLE", "NOT_REGISTERED", "SHADOWED_SHARD", "UNMATCHED_GENUINE", "IDENTITY_EXPIRED",
   "IDENTITY_MISMATCH", "SERVER_ERROR", "THROTTLED", "TOLERATED", "EXPECTED_GONE", "EXPECTED_UNASSIGNED",
   "SERVED_PAST_WINDOW", "SERVING_UNASSIGNED", "UNREACHABLE_POST_WINDOW", "PROBE_ERROR", "NOT_PROBED", "UNATTESTED",
   "RETENTION_UNVERIFIED"}

Phases == {"in_window", "grace", "post"}

(* PhaseAtWindow: the deadline itself is already grace. *)
PhaseAtWindow(t, mustServeUntil, tolerance) ==
  IF t < mustServeUntil THEN "in_window"
  ELSE IF t <= mustServeUntil + tolerance THEN "grace"
  ELSE "post"

ReachFailures ==
  {"DNS_FAIL", "TCP_REFUSED", "TCP_TIMEOUT", "TCP_UNREACHABLE", "TLS_HANDSHAKE_FAIL", "RPC_UNAVAILABLE", "RPC_ERROR"}

(* Rows came back, and not exactly the ones this promise assigns. *)
OffAssignment == {"WRONG_ROWS", "PARTIAL"}

(* None of the questions asked so far has an answer. *)
NoClass == "open"

(* None of these says anything about the validator. *)
ObserverSide(e) ==
  IF e.outcome \in {"PROBE_ERROR", "RPC_DEADLINE"} THEN "PROBE_ERROR"
  ELSE IF e.outcome \in {"MISSED", "REACHABLE"} THEN "NOT_PROBED"
  ELSE NoClass

(* Identity and registration belong to the endpoint, not to one shard; a   *)
(* stale pin forbids every question that depends on the assignment.        *)
OfEndpoint(e) ==
  IF e.outcome = "IDENTITY_FAIL" THEN IF e.stale THEN "IDENTITY_EXPIRED" ELSE "IDENTITY_MISMATCH"
  ELSE IF e.outcome \in {"NO_REGISTERED_HOST", "UNROUTABLE_HOST"}
    THEN IF e.assigned THEN "NOT_REGISTERED" ELSE "EXPECTED_UNASSIGNED"
  ELSE IF e.pinStale THEN "PROBE_ERROR"
  ELSE NoClass

Unassigned(e) ==
  IF e.outcome \in OffAssignment \cup {"SERVED_OK", "INVALID_ROWS"} THEN "SERVING_UNASSIGNED"
  ELSE IF e.outcome \in ReachFailures \cup {"NOT_FOUND", "SERVER_ERROR", "RPC_THROTTLED"} THEN "EXPECTED_UNASSIGNED"
  ELSE "PROBE_ERROR"

(* Who owes nothing provable, and rows another promise explains. *)
OfObligation(e) ==
  IF e.assigned /\ ~e.attested /\ ~e.unknown THEN "UNATTESTED"
  ELSE IF ~e.assigned THEN Unassigned(e)
  ELSE IF e.outcome \in OffAssignment /\ e.verified /\ e.shadowed THEN "SHADOWED_SHARD"
  ELSE IF e.outcome \in OffAssignment /\ e.verified /\ e.uncertain THEN "PROBE_ERROR"
  ELSE NoClass

(* What differs between the window and the grace phase is what silence means. *)
BeforePrune(e, silent) ==
  IF e.outcome = "SERVED_OK" THEN "HEALTHY"
  ELSE IF e.outcome = "INVALID_ROWS" THEN "FAULT"
  ELSE IF e.outcome \in OffAssignment THEN IF e.verified THEN "UNMATCHED_GENUINE" ELSE "FAULT"
  ELSE silent

InWindow(e) ==
  BeforePrune(e, IF e.outcome = "NOT_FOUND" THEN "FAULT"
                 ELSE IF e.outcome = "SERVER_ERROR" THEN "SERVER_ERROR"
                 ELSE IF e.outcome = "RPC_THROTTLED" THEN "THROTTLED"
                 ELSE IF e.outcome \in ReachFailures THEN "UNREACHABLE"
                 ELSE "PROBE_ERROR")

InGrace(e) ==
  BeforePrune(e, IF e.outcome \in ReachFailures \cup {"NOT_FOUND", "SERVER_ERROR", "RPC_THROTTLED"}
                 THEN "TOLERATED" ELSE "PROBE_ERROR")

AfterWindow(e) ==
  IF e.outcome = "NOT_FOUND" THEN "EXPECTED_GONE"
  ELSE IF e.outcome = "INVALID_ROWS" THEN "FAULT"
  ELSE IF e.outcome \in OffAssignment \cup {"SERVED_OK"} THEN "SERVED_PAST_WINDOW"
  ELSE IF e.outcome \in ReachFailures \cup {"SERVER_ERROR", "RPC_THROTTLED"} THEN "UNREACHABLE_POST_WINDOW"
  ELSE "PROBE_ERROR"

OfPhase(e) ==
  IF e.phase = "in_window" THEN InWindow(e) ELSE IF e.phase = "grace" THEN InGrace(e) ELSE AfterWindow(e)

Classify(e) ==
  IF ObserverSide(e) # NoClass THEN ObserverSide(e)
  ELSE IF OfEndpoint(e) # NoClass THEN OfEndpoint(e)
  ELSE IF OfObligation(e) # NoClass THEN OfObligation(e)
  ELSE OfPhase(e)

-----------------------------------------------------------------------------
(* What a class means for the rate. *)
CountsFor == {"HEALTHY"}
CountsAgainst == {"FAULT"}
Rated == CountsFor \cup CountsAgainst

(* A verdict that would change if the deadline moved: bytes that do not    *)
(* verify are a fault on either side of it.                                *)
DeadlineDerived(class, outcome) == outcome # "INVALID_ROWS" /\ class \in Rated

(* The class a row is published under: a held row has no serve verdict. *)
EffectiveClass(class, outcome, held) ==
  IF held /\ DeadlineDerived(class, outcome) THEN "RETENTION_UNVERIFIED" ELSE class

IsGap(class) == class \in {"NOT_PROBED", "PROBE_ERROR"}
=============================================================================
