------------------------------ MODULE OneProbe ------------------------------
(***************************************************************************)
(* internal/probe/probe.go, tlslayer.go: one probe of one shard, layer by  *)
(* layer, from the first check to the class its row carries.               *)
(*                                                                         *)
(* Time is counted in units of a few seconds.  probeNow is the time of the *)
(* chain and of the server; the observer reads that + skew, and knows of   *)
(* its skew only what the newest block told it.  A probe may be abandoned  *)
(* in any layer, and time may pass in any layer.                           *)
(***************************************************************************)
EXTENDS Taxonomy

CONSTANTS
  ServeUntil, ProbeTolerance,
  NotFoundGuard,   \* how close to the deadline a NOT_FOUND may come
  Skews,           \* how far the observer's clock may be off
  MaxBlockAge,     \* how old the newest block may be when the offset is read
  MaxAddresses,    \* what a name resolves to
  MaxProbeTime

(* The newest block is no older than the guard band, 30 s, when the offset *)
(* is read from it.  The code takes the offset as it is and only logs      *)
(* (measureClock): a chain or a node that is further behind, under a clock *)
(* that is slow by as much, is outside of what is claimed here.            *)
ASSUME ProbeAssumption ==
  /\ ServeUntil \in Nat /\ ProbeTolerance \in Nat /\ NotFoundGuard \in Nat /\ MaxAddresses \in Nat
  /\ Skews \subseteq Int
  /\ MaxBlockAge \in Nat /\ MaxBlockAge <= NotFoundGuard

VARIABLES
  probeNow,
  probeWorld, \* what does not change: the target, the server, the clock
  stage,      \* the layer the probe is in
  left,       \* addresses not yet dialled
  dial,       \* the error kept so far, and whether every one was local
  answer,     \* what the server sent, when it has
  probeRow,   \* the Measurement
  canceled    \* ctx.Err() # nil

probeVars == <<probeNow, probeWorld, stage, left, dial, answer, probeRow, canceled>>

NotYet == "notYet"

---------------------------------------------------------------------------
(* What the endpoint may do. *)

(* What is under this commitment in the server's store: the shard of this  *)
(* promise, less than that (it signs after writing what it received), the  *)
(* shard of another promise over the same blob, or nothing.                *)
Stores == {"own", "short", "other", "nothing"}

Rows == {"own", "short", "other", "corrupt", "misshapen"}

RpcErrors ==
  {"NotFound", "Unavailable", "DeadlineExceeded", "ReceivedTooLarge", "SendTooLarge", "ResourceExhausted",
   "InvalidArgument", "Canceled", "Unimplemented", "Internal", "OtherCode"}

(* A server that keeps its promise holds the shard until the deadline; what *)
(* it cannot help is being slow, limited or broken.                        *)
Gone == probeWorld.stored = "nothing" \/ probeNow >= ServeUntil
HonestAnswers ==
  {"Unavailable", "DeadlineExceeded", "ReceivedTooLarge", "SendTooLarge", "ResourceExhausted", "Unimplemented",
   "Internal", "OtherCode", "misshapen"}
    \cup (IF probeWorld.stored = "nothing" THEN {} ELSE {probeWorld.stored})
    \cup (IF Gone THEN {"NotFound"} ELSE {})

Answers == IF probeWorld.honest THEN HonestAnswers ELSE Rows \cup RpcErrors

Handshakes == {"ok", "wire", "noCertificate", "verificationTimedOut", "wrongKey", "windowLapsed"}

DialErrors == {"noRoute", "noFamily", "noSocket", "refused", "timeout", "unrecognised"}

---------------------------------------------------------------------------
(* What the observer makes of it. *)

IsNoRoute(err) == err \in {"noRoute", "noFamily"}
LocalDialFault(err) == err \in {"noFamily", "noSocket"}
Local(err) == IsNoRoute(err) \/ LocalDialFault(err)

ClassifyDialError(err) ==
  IF LocalDialFault(err) THEN "PROBE_ERROR"
  ELSE IF err = "refused" THEN "TCP_REFUSED"
  ELSE IF err = "timeout" THEN "TCP_TIMEOUT"
  ELSE IF err = "noRoute" THEN "TCP_UNREACHABLE"
  ELSE "PROBE_ERROR"

(* The first error, unless it is "noRouteFromHere" and this one is not. *)
KeptError(err) ==
  IF dial.kept = NotYet \/ (~Local(err) /\ IsNoRoute(dial.kept)) THEN err ELSE dial.kept

ClassifyDownloadError(err) ==
  IF err = "NotFound" THEN "NOT_FOUND"
  ELSE IF err = "Unavailable" THEN "RPC_UNAVAILABLE"
  ELSE IF err = "DeadlineExceeded" THEN "RPC_DEADLINE"
  ELSE IF err = "ResourceExhausted" THEN "RPC_THROTTLED"
  ELSE IF err \in {"SendTooLarge", "Internal"} THEN "SERVER_ERROR"
  ELSE IF err \in {"ReceivedTooLarge", "InvalidArgument", "Canceled", "Unimplemented"} THEN "PROBE_ERROR"
  ELSE "RPC_ERROR"

(* The handshake's verdict: no certificate was judged when it failed on    *)
(* the wire, and a verification that timed out is starvation here.         *)
IdentityStale(hs) == hs = "windowLapsed"

FailureOf(hs) ==
  IF hs = "wire" THEN "TLS_HANDSHAKE_FAIL"
  ELSE IF hs = "verificationTimedOut" THEN "PROBE_ERROR"
  ELSE "IDENTITY_FAIL"

(* Mutant: the guard does not know of the observer's clock. *)
FixedGuard == NotFoundGuard

(* The band is wider by as much as the observer's clock is behind. *)
NotFoundGuardNow == IF probeWorld.offset < 0 THEN NotFoundGuard - probeWorld.offset ELSE NotFoundGuard

PhaseNow(ahead) == PhaseAtWindow(probeNow + probeWorld.skew + ahead, ServeUntil, ProbeTolerance)

(* A NOT_FOUND is graded as if it had come at the deadline, when it nearly did. *)
NotFoundPhase == IF probeRow.phase = "in_window" THEN PhaseNow(NotFoundGuardNow) ELSE probeRow.phase

---------------------------------------------------------------------------
Targets == [assigned : BOOLEAN, attested : BOOLEAN, unknown : BOOLEAN]

(* A signature is proof that the shard was written; a record from before   *)
(* signatures were read is judged as if there were one.  What a server     *)
(* that does not keep its promise holds makes no difference.               *)
InitWorld ==
  \E target \in Targets, stored \in Stores, honest, pinStale \in BOOLEAN, skew \in Skews, age \in 0..MaxBlockAge :
    /\ target.attested => target.assigned /\ ~target.unknown
    /\ honest /\ target.assigned /\ (target.attested \/ target.unknown) => stored # "nothing"
    /\ ~honest => stored = "nothing"
    /\ probeWorld = [target |-> target, stored |-> stored, honest |-> honest, skew |-> skew, offset |-> skew + age,
                pinStale |-> pinStale]

EmptyRow ==
  [phase |-> "in_window", outcome |-> NotYet, tls |-> FALSE, identity |-> FALSE, stale |-> FALSE,
   verified |-> FALSE, shadowed |-> FALSE, gap |-> FALSE, class |-> NotYet]

ProbeInit ==
  /\ probeNow \in 0..ServeUntil + ProbeTolerance
  /\ InitWorld
  /\ stage = "begin" /\ left = 0 /\ dial = [kept |-> NotYet, local |-> TRUE]
  /\ answer = NotYet /\ probeRow = EmptyRow /\ canceled = FALSE

ProbeTick ==
  /\ probeNow < MaxProbeTime /\ stage # "done"
  /\ probeNow' = probeNow + 1
  /\ UNCHANGED <<probeWorld, stage, left, dial, answer, probeRow, canceled>>

(* Shutdown, or the run's own deadline. *)
Cancel ==
  /\ ~canceled /\ stage # "done"
  /\ canceled' = TRUE
  /\ UNCHANGED <<probeNow, probeWorld, stage, left, dial, answer, probeRow>>

End(r, outcome) == stage' = "end" /\ probeRow' = [r EXCEPT !.outcome = outcome]

(* The phase is that of the start.  No verifier for the blob, no host, no  *)
(* key, a host that is not host:port, an address that is not public: the   *)
(* probe ends without a connection.                                        *)
Begin ==
  /\ stage = "begin"
  /\ LET started == [probeRow EXCEPT !.phase = PhaseNow(0)]
     IN  \/ \E outcome \in {"PROBE_ERROR", "NO_REGISTERED_HOST", "UNROUTABLE_HOST"} : End(started, outcome) /\ left' = left
         \/ probeRow' = started /\ stage' = "dns" /\ left' = left
         \/ probeRow' = started /\ stage' = "dial" /\ left' = 1
  /\ UNCHANGED <<probeNow, probeWorld, dial, answer, canceled>>

Resolve ==
  /\ stage = "dns"
  /\ \/ \E outcome \in {"DNS_FAIL", "UNROUTABLE_HOST"} : End(probeRow, outcome) /\ left' = left
     \/ stage' = "dial" /\ left' \in 1..MaxAddresses /\ probeRow' = probeRow
  /\ UNCHANGED <<probeNow, probeWorld, dial, answer, canceled>>

(* The endpoint of every later layer; what failed before it is text in the *)
(* row.  A sweep for reachability alone stops after the handshake.         *)
Connect ==
  /\ stage = "dial" /\ left > 0
  /\ stage' \in {"check", "handshake"}
  /\ dial' = [kept |-> NotYet, local |-> FALSE]
  /\ UNCHANGED <<probeNow, probeWorld, left, answer, probeRow, canceled>>

(* Mutant: an address that failed here counts against the validator. *)
DialFailsBlamed(err) ==
  /\ stage = "dial" /\ left > 0
  /\ left' = left - 1
  /\ dial' = [kept |-> KeptError(err), local |-> dial.local /\ Local(err)]
  /\ IF left' > 0 /\ ~canceled THEN UNCHANGED <<stage, probeRow>>
     ELSE End(probeRow, IF LocalDialFault(dial'.kept) THEN "TCP_UNREACHABLE" ELSE ClassifyDialError(dial'.kept))
  /\ UNCHANGED <<probeNow, probeWorld, answer, canceled>>

(* Every address in turn, until the probe is abandoned. *)
DialFails(err) ==
  /\ stage = "dial" /\ left > 0
  /\ left' = left - 1
  /\ dial' = [kept |-> KeptError(err), local |-> dial.local /\ Local(err)]
  /\ IF left' > 0 /\ ~canceled THEN UNCHANGED <<stage, probeRow>>
     ELSE End(probeRow, IF dial'.local THEN "PROBE_ERROR" ELSE ClassifyDialError(dial'.kept))
  /\ UNCHANGED <<probeNow, probeWorld, answer, canceled>>

(* A completed handshake says that the peer is this validator; a failed one *)
(* is the row's verdict whatever the download returns.                     *)
Handshake(hs) ==
  /\ stage \in {"check", "handshake"}
  /\ LET seen == [probeRow EXCEPT !.tls = hs # "wire", !.identity = hs = "ok", !.stale = IdentityStale(hs)]
     IN  IF hs # "ok" THEN End(seen, FailureOf(hs))
         ELSE IF stage = "check" THEN End(seen, "REACHABLE")
         ELSE stage' = "request" /\ probeRow' = seen
  /\ UNCHANGED <<probeNow, probeWorld, left, dial, answer, canceled>>

(* Before anything is sent: no client, or a version the id cannot carry. *)
NoRequest ==
  /\ stage = "handshake"
  /\ \E outcome \in {"RPC_ERROR", "PROBE_ERROR"} : End(probeRow, outcome)
  /\ UNCHANGED <<probeNow, probeWorld, left, dial, answer, canceled>>

Serve ==
  /\ stage = "request" /\ answer = NotYet
  /\ answer' \in Answers
  /\ UNCHANGED <<probeNow, probeWorld, stage, left, dial, probeRow, canceled>>

(* The download's own deadline, scaled to the shard. *)
GiveUp ==
  /\ stage = "request"
  /\ End(probeRow, "RPC_DEADLINE")
  /\ UNCHANGED <<probeNow, probeWorld, left, dial, answer, canceled>>

Parsed == answer \in Rows \ {"misshapen"}

(* The promise the rows belong to, among those the observer knows. *)
ShadowedBy(known, gap) == [probeRow EXCEPT !.verified = TRUE, !.shadowed = known, !.gap = ~known /\ gap]

(* An error by its code; a response this build cannot parse is its own gap; *)
(* rows that fail the commitment are invalid; rows that pass it and are    *)
(* not the assignment are looked up among the promises the observer knows. *)
Receive ==
  /\ stage = "request" /\ answer # NotYet
  /\ \/ /\ answer \in RpcErrors
        /\ End([probeRow EXCEPT !.phase = IF answer = "NotFound" THEN NotFoundPhase ELSE @], ClassifyDownloadError(answer))
     \/ answer \in Rows /\ ~Parsed /\ End(probeRow, "PROBE_ERROR")
     \/ answer = "corrupt" /\ End(probeRow, "INVALID_ROWS")
     \/ answer = "own" /\ End([probeRow EXCEPT !.verified = TRUE], "SERVED_OK")
     \/ answer = "short" /\ \E gap \in BOOLEAN : End([probeRow EXCEPT !.verified = TRUE, !.gap = gap], "PARTIAL")
     \/ /\ answer = "other"
        /\ \E known, gap \in BOOLEAN, outcome \in OffAssignment :
             End(ShadowedBy(known, gap), outcome)
  /\ UNCHANGED <<probeNow, probeWorld, left, dial, answer, canceled>>

EvidenceOf(r) ==
  [assigned |-> probeWorld.target.assigned, attested |-> probeWorld.target.attested,
   unknown |-> probeWorld.target.unknown, phase |-> r.phase, outcome |-> r.outcome, verified |-> r.verified,
   shadowed |-> r.shadowed, uncertain |-> r.gap, stale |-> r.stale, pinStale |-> probeWorld.pinStale]

(* The finaliser, after every return: an abandoned probe says nothing,     *)
(* unless it had the rows.                                                 *)
Finish ==
  /\ stage = "end"
  /\ LET outcome == IF canceled /\ probeRow.outcome # "SERVED_OK" THEN "PROBE_ERROR" ELSE probeRow.outcome
         final == [probeRow EXCEPT !.outcome = outcome]
     IN  probeRow' = [final EXCEPT !.class = Classify(EvidenceOf(final))]
  /\ stage' = "done"
  /\ UNCHANGED <<probeNow, probeWorld, left, dial, answer, canceled>>

ProbeNext ==
  \/ ProbeTick \/ Cancel
  \/ Begin \/ Resolve \/ Connect \/ NoRequest \/ Serve \/ GiveUp \/ Receive \/ Finish
  \/ \E err \in DialErrors : DialFails(err)
  \/ \E hs \in Handshakes : Handshake(hs)

ProbeSpec == ProbeInit /\ [][ProbeNext]_probeVars

---------------------------------------------------------------------------

(* A server that wrote what it signed for and keeps it until the deadline  *)
(* is never accused: not by a slow probe, not by an observer whose clock   *)
(* is off, not for another promise's rows, not for what it was never sent  *)
(* (probe.go, notFoundPhase; classify.go, ClassFault).                     *)
HonestNeverFaulted == probeWorld.honest => probeRow.class # "FAULT"

(* Classes that say something about the endpoint. *)
Blames == {"FAULT", "UNREACHABLE", "TOLERATED", "IDENTITY_EXPIRED", "IDENTITY_MISMATCH", "SERVER_ERROR", "THROTTLED"}

(* The observer's own trouble: it stopped, no packet left this machine, it *)
(* gave up waiting, its own receive bound was hit, its code parameters or  *)
(* its assignment pin are not the chain's.                                 *)
OwnTrouble ==
  \/ canceled /\ probeRow.outcome # "SERVED_OK"
  \/ left = 0 /\ dial.kept # NotYet /\ dial.local /\ ~probeRow.tls
  \/ stage = "done" /\ probeRow.outcome = "RPC_DEADLINE"
  \/ /\ probeRow.outcome \notin {NotYet, "RPC_DEADLINE"}
     /\ answer \in {"misshapen", "ReceivedTooLarge", "Unimplemented"}
  \/ probeWorld.pinStale /\ probeRow.identity

(* None of it is published as a statement about the validator (probe.go,   *)
(* the finaliser, parseShard, localDialFault; classify.go, PinStale).      *)
OwnTroubleBlamesNobody == stage = "done" /\ OwnTrouble => probeRow.class \notin Blames

=============================================================================
