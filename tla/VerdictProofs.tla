--------------------------- MODULE VerdictProofs ---------------------------
(***************************************************************************)
(* What one probe may be published as (OneProbe, Taxonomy), for any        *)
(* window, tolerance, guard band, clock and number of addresses; what the  *)
(* figures of a day stay once they are frozen (Figures, Retention), for    *)
(* any promises, readings, days and any course of the passes; and which    *)
(* bucket an obligation is in (Schedule, Figures, Obligation), for any     *)
(* validators, promises and schedule.                                      *)
(***************************************************************************)
EXTENDS OneProbe, Obligation, Retention, FiniteSetTheorems, SequenceTheorems, WellFoundedInduction, TLAPS

-----------------------------------------------------------------------------
(* What the classification says of the evidence (classify.go, Classify).   *)

(* A fault is charged to a validator that owes the shard, by a pin that is *)
(* the chain's, for bytes that do not verify or for silence in the window. *)
LEMMA FaultMeans ==
  ASSUME NEW e, Classify(e) = "FAULT"
  PROVE  /\ e.assigned /\ (e.attested \/ e.unknown) /\ ~e.pinStale
         /\ \/ e.outcome = "INVALID_ROWS"
            \/ e.outcome \in OffAssignment /\ ~e.verified
            \/ e.outcome = "NOT_FOUND" /\ e.phase = "in_window"
<1>1. ObserverSide(e) = NoClass
  BY DEF Classify, ObserverSide, NoClass
<1>2. OfEndpoint(e) = NoClass
  BY <1>1 DEF Classify, OfEndpoint, NoClass
<1>3. OfObligation(e) = NoClass
  BY <1>1, <1>2 DEF Classify, OfObligation, Unassigned, NoClass
<1>4. OfPhase(e) = "FAULT"
  BY <1>1, <1>2, <1>3 DEF Classify
<1>5. ~e.pinStale
  BY <1>2 DEF OfEndpoint, NoClass
<1>6. e.assigned /\ (e.attested \/ e.unknown)
  BY <1>3 DEF OfObligation, Unassigned, NoClass
<1>7. \/ e.outcome = "INVALID_ROWS"
      \/ e.outcome \in OffAssignment /\ ~e.verified
      \/ e.outcome = "NOT_FOUND" /\ e.phase = "in_window"
  BY <1>4 DEF OfPhase, InWindow, InGrace, AfterWindow, BeforePrune, OffAssignment
<1> QED
  BY <1>5, <1>6, <1>7

(* The observer's own outcomes come before every other question.           *)
LEMMA OwnOutcome ==
  ASSUME NEW e, e.outcome \in {"PROBE_ERROR", "RPC_DEADLINE"}
  PROVE  Classify(e) = "PROBE_ERROR"
BY DEF Classify, ObserverSide, NoClass

(* Under a pin that is not the chain's nothing is said that depends on it. *)
LEMMA StalePin ==
  ASSUME NEW e, e.pinStale, e.outcome \notin {"IDENTITY_FAIL", "NO_REGISTERED_HOST", "UNROUTABLE_HOST"}
  PROVE  Classify(e) \in {"PROBE_ERROR", "NOT_PROBED"}
BY DEF Classify, ObserverSide, OfEndpoint, NoClass

-----------------------------------------------------------------------------
(* What is known of a probe in each of its layers. *)

WorldInv ==
  /\ probeNow \in Int
  /\ probeWorld.stored \in Stores /\ probeWorld.skew \in Int /\ probeWorld.offset \in Int
  /\ probeWorld.offset \in probeWorld.skew..probeWorld.skew + MaxBlockAge
  /\ probeWorld.honest /\ probeWorld.target.assigned
       /\ (probeWorld.target.attested \/ probeWorld.target.unknown) => probeWorld.stored # "nothing"

RowType ==
  [phase : Phases, outcome : Outcomes \cup {NotYet}, tls : BOOLEAN, identity : BOOLEAN, stale : BOOLEAN,
   verified : BOOLEAN, shadowed : BOOLEAN, gap : BOOLEAN, class : Classes \cup {NotYet}]

(* The layers that come before the request, and those before an answer.    *)
Undialled == {"begin", "dns"}
Unsent == Undialled \cup {"dial", "check", "handshake"}
Ended == {"end", "done"}

StageInv ==
  /\ stage \in Unsent \cup {"request"} \cup Ended
  /\ left \in Int /\ dial.kept \in DialErrors \cup {NotYet} /\ canceled \in BOOLEAN
  /\ probeRow \in RowType
  /\ stage \in Undialled => dial.kept = NotYet
  /\ stage \in {"dial", "check", "handshake", "request"} => left > 0
  /\ stage \in Unsent => answer = NotYet /\ ~probeRow.tls /\ ~probeRow.identity
  /\ stage = "request" => probeRow.identity
  /\ stage \notin Ended => probeRow.outcome = NotYet
  /\ stage # "done" => probeRow.class = NotYet

(* An honest server's answer was true when it was given, and what is gone  *)
(* stays gone.                                                             *)
AnswerInv ==
  /\ answer \in Rows \cup RpcErrors \cup {NotYet}
  /\ probeWorld.honest => answer # "corrupt" /\ (answer = "NotFound" => Gone)

(* What an outcome says of what was seen.  A NOT_FOUND of an honest server  *)
(* is graded past the window, unless it never had the shard.               *)
OutcomeInv ==
  /\ probeRow.outcome \in OffAssignment => probeRow.verified
  /\ probeRow.outcome = "INVALID_ROWS" => answer = "corrupt"
  /\ probeRow.outcome = "NOT_FOUND" /\ probeRow.phase = "in_window" /\ probeWorld.honest
       => probeWorld.stored = "nothing"
  /\ probeRow.identity => probeRow.outcome \notin {"IDENTITY_FAIL", "NO_REGISTERED_HOST", "UNROUTABLE_HOST"}

(* An error of the observer's own is its outcome.                          *)
TroubleInv ==
  stage \in Ended =>
    /\ left = 0 /\ dial.kept # NotYet /\ dial.local /\ ~probeRow.tls => probeRow.outcome = "PROBE_ERROR"
    /\ answer \in {"misshapen", "ReceivedTooLarge", "Unimplemented"}
         => probeRow.outcome \in {"PROBE_ERROR", "RPC_DEADLINE"}

(* A row carries the class of its own evidence, and an abandoned probe has *)
(* rows or nothing to say.                                                 *)
DoneInv ==
  stage = "done" =>
    /\ probeRow.class = Classify(EvidenceOf(probeRow))
    /\ canceled => probeRow.outcome \in {"SERVED_OK", "PROBE_ERROR"}

ProbeInv == WorldInv /\ StageInv /\ AnswerInv /\ OutcomeInv /\ TroubleInv /\ DoneInv

-----------------------------------------------------------------------------
LEMMA InitProbe == ProbeInit => ProbeInv
<1> SUFFICES ASSUME ProbeInit PROVE ProbeInv
  OBVIOUS
<1> USE ProbeAssumption
<1>1. WorldInv
  BY DEF ProbeInit, InitWorld, WorldInv, Targets
<1>2. probeRow \in RowType
  BY DEF ProbeInit, EmptyRow, RowType, Phases
<1>3. /\ stage = "begin" /\ left = 0 /\ dial.kept = NotYet /\ answer = NotYet /\ canceled \in BOOLEAN
      /\ ~probeRow.tls /\ ~probeRow.identity /\ probeRow.outcome = NotYet /\ probeRow.class = NotYet
  BY DEF ProbeInit, EmptyRow
<1>5. StageInv
  BY <1>2, <1>3 DEF StageInv, Undialled, Unsent, Ended
<1>4. AnswerInv /\ OutcomeInv /\ TroubleInv /\ DoneInv
  BY DEF ProbeInit, EmptyRow, AnswerInv, OutcomeInv, TroubleInv, DoneInv, Ended, NotYet, OffAssignment, Rows, RpcErrors
<1> QED
  BY <1>1, <1>4, <1>5 DEF ProbeInv

(* What no step but its own changes.                                       *)
LEMMA WorldStays == ProbeInv /\ [ProbeNext]_probeVars => probeWorld' = probeWorld /\ WorldInv'
<1> SUFFICES ASSUME ProbeInv, [ProbeNext]_probeVars PROVE probeWorld' = probeWorld /\ WorldInv'
  OBVIOUS
<1>1. probeWorld' = probeWorld /\ (probeNow' = probeNow \/ probeNow' = probeNow + 1)
  BY DEF ProbeNext, ProbeTick, Cancel, Begin, Resolve, Connect, NoRequest, Serve, GiveUp, Receive, Finish, DialFails,
         Handshake, probeVars
<1> QED
  BY <1>1 DEF ProbeInv, WorldInv

(* A step that leaves the row and the dialling alone.                      *)
LEMMA TimePasses ==
  ASSUME ProbeInv, WorldInv', probeNow' \in {probeNow, probeNow + 1}, stage # "done" \/ canceled' = canceled,
         canceled' \in BOOLEAN, UNCHANGED <<probeWorld, stage, left, dial, answer, probeRow>>
  PROVE  ProbeInv'
<1>1. Gone => Gone'
  BY ProbeAssumption DEF ProbeInv, WorldInv, Gone
<1>2. StageInv'
  BY DEF ProbeInv, StageInv
<1>3. AnswerInv'
  BY <1>1 DEF ProbeInv, AnswerInv
<1>4. OutcomeInv' /\ TroubleInv'
  BY DEF ProbeInv, OutcomeInv, TroubleInv
<1>5. DoneInv'
  BY DEF ProbeInv, DoneInv, EvidenceOf
<1> QED
  BY <1>2, <1>3, <1>4, <1>5 DEF ProbeInv

(* The probe goes on to another layer, or ends.                            *)
LEMMA GoesOn ==
  ASSUME ProbeInv, WorldInv', stage \notin Ended, UNCHANGED <<probeNow, probeWorld, answer, canceled>>,
         stage' \in Unsent \cup {"request"}, left' \in Int, dial'.kept \in DialErrors \cup {NotYet},
         stage' \in Undialled => dial'.kept = NotYet,
         stage' \in {"dial", "check", "handshake", "request"} => left' > 0,
         stage' \in Unsent => answer = NotYet,
         NEW r \in RowType, probeRow' = r, r.outcome = NotYet, r.class = NotYet,
         stage' \in Unsent => ~r.tls /\ ~r.identity,
         stage' = "request" => r.identity
  PROVE  ProbeInv'
<1>1. stage' # "done" /\ stage' \notin Ended
  BY DEF Unsent, Undialled, Ended
<1>2. StageInv'
  BY <1>1 DEF ProbeInv, StageInv
<1>3. AnswerInv'
  BY DEF ProbeInv, AnswerInv, Gone
<1>4. OutcomeInv' /\ TroubleInv' /\ DoneInv'
  BY <1>1 DEF OutcomeInv, TroubleInv, DoneInv, NotYet, OffAssignment
<1> QED
  BY <1>2, <1>3, <1>4 DEF ProbeInv

LEMMA Ends ==
  ASSUME ProbeInv, WorldInv', stage \notin Ended, UNCHANGED <<probeNow, probeWorld, answer, canceled>>,
         left' \in Int, dial'.kept \in DialErrors \cup {NotYet},
         NEW r \in RowType, NEW outcome \in Outcomes, End(r, outcome), r.class = NotYet,
         outcome \in OffAssignment => r.verified,
         outcome = "INVALID_ROWS" => answer = "corrupt",
         outcome = "NOT_FOUND" /\ r.phase = "in_window" /\ probeWorld.honest => probeWorld.stored = "nothing",
         r.identity => outcome \notin {"IDENTITY_FAIL", "NO_REGISTERED_HOST", "UNROUTABLE_HOST"},
         left' = 0 /\ dial'.kept # NotYet /\ dial'.local /\ ~r.tls => outcome = "PROBE_ERROR",
         answer \in {"misshapen", "ReceivedTooLarge", "Unimplemented"} => outcome \in {"PROBE_ERROR", "RPC_DEADLINE"}
  PROVE  ProbeInv'
<1> DEFINE ended == [r EXCEPT !.outcome = outcome]
<1>1. stage' = "end" /\ probeRow' = ended
  BY DEF End
<1>2. /\ ended \in RowType /\ ended.outcome = outcome /\ ended.phase = r.phase /\ ended.tls = r.tls
      /\ ended.identity = r.identity /\ ended.verified = r.verified /\ ended.class = NotYet
  BY DEF RowType
<1> HIDE DEF ended
<1>3. StageInv'
  BY <1>1, <1>2 DEF ProbeInv, StageInv, Unsent, Undialled, Ended
<1>4. AnswerInv'
  BY DEF ProbeInv, AnswerInv, Gone
<1>5. OutcomeInv'
  BY <1>1, <1>2 DEF OutcomeInv
<1>6. TroubleInv' /\ DoneInv'
  BY <1>1, <1>2 DEF TroubleInv, DoneInv
<1> QED
  BY <1>3, <1>4, <1>5, <1>6 DEF ProbeInv

(* What is known before anything was sent.                                 *)
LEMMA BeforeRequest ==
  ASSUME ProbeInv, stage \in Unsent
  PROVE  /\ stage \notin Ended /\ answer = NotYet /\ left \in Int
         /\ dial.kept \in DialErrors \cup {NotYet} /\ canceled \in BOOLEAN
         /\ probeRow \in RowType /\ probeRow.outcome = NotYet /\ probeRow.class = NotYet
         /\ ~probeRow.tls /\ ~probeRow.identity
BY DEF ProbeInv, StageInv, Unsent, Undialled, Ended

LEMMA BeginInv == ProbeInv /\ Begin /\ WorldInv' => ProbeInv'
<1> SUFFICES ASSUME ProbeInv, Begin, WorldInv' PROVE ProbeInv'
  OBVIOUS
<1> DEFINE started == [probeRow EXCEPT !.phase = PhaseNow(0)]
<1>1. stage = "begin" /\ UNCHANGED <<probeNow, probeWorld, dial, answer, canceled>>
  BY DEF Begin
<1>2. stage \in Unsent /\ dial.kept = NotYet
  BY <1>1 DEF ProbeInv, StageInv, Undialled, Unsent
<1>3. PhaseNow(0) \in Phases
  BY DEF PhaseNow, PhaseAtWindow, Phases
<1>4. /\ started \in RowType /\ ~started.tls /\ ~started.identity
      /\ started.outcome = NotYet /\ started.class = NotYet
  BY <1>2, <1>3, BeforeRequest DEF RowType
<1> HIDE DEF started
<1>5. CASE probeRow' = started /\ stage' = "dns" /\ left' = left
  BY <1>1, <1>2, <1>4, <1>5, BeforeRequest, GoesOn DEF Unsent, Undialled
<1>6. CASE probeRow' = started /\ stage' = "dial" /\ left' = 1
  BY <1>1, <1>2, <1>4, <1>6, BeforeRequest, GoesOn DEF Unsent, Undialled
<1>7. ASSUME NEW outcome \in {"PROBE_ERROR", "NO_REGISTERED_HOST", "UNROUTABLE_HOST"},
             End(started, outcome), left' = left
      PROVE  ProbeInv'
  <2>1. outcome \in Outcomes /\ outcome \notin OffAssignment
    BY DEF Outcomes, OffAssignment
  <2> QED
    BY <1>1, <1>2, <1>4, <1>7, <2>1, BeforeRequest, Ends DEF NotYet
<1> QED
  BY <1>5, <1>6, <1>7 DEF Begin, started

LEMMA ResolveInv == ProbeInv /\ Resolve /\ WorldInv' => ProbeInv'
<1> SUFFICES ASSUME ProbeInv, Resolve, WorldInv' PROVE ProbeInv'
  OBVIOUS
<1>1. stage = "dns" /\ UNCHANGED <<probeNow, probeWorld, dial, answer, canceled>>
  BY DEF Resolve
<1>2. stage \in Unsent /\ dial.kept = NotYet
  BY <1>1 DEF ProbeInv, StageInv, Undialled, Unsent
<1>3. CASE stage' = "dial" /\ left' \in 1..MaxAddresses /\ probeRow' = probeRow
  BY <1>1, <1>2, <1>3, BeforeRequest, GoesOn, ProbeAssumption DEF Unsent, Undialled
<1>4. ASSUME NEW outcome \in {"DNS_FAIL", "UNROUTABLE_HOST"}, End(probeRow, outcome), left' = left
      PROVE  ProbeInv'
  <2>1. outcome \in Outcomes /\ outcome \notin OffAssignment
    BY DEF Outcomes, OffAssignment
  <2> QED
    BY <1>1, <1>2, <1>4, <2>1, BeforeRequest, Ends DEF NotYet
<1> QED
  BY <1>3, <1>4 DEF Resolve

LEMMA ConnectInv == ProbeInv /\ Connect /\ WorldInv' => ProbeInv'
<1> SUFFICES ASSUME ProbeInv, Connect, WorldInv' PROVE ProbeInv'
  OBVIOUS
<1>1. /\ stage = "dial" /\ left > 0 /\ stage' \in {"check", "handshake"}
      /\ dial'.kept = NotYet /\ UNCHANGED <<probeNow, probeWorld, left, answer, probeRow, canceled>>
  BY DEF Connect
<1>2. stage \in Unsent /\ stage' \in Unsent /\ stage' \notin Undialled /\ stage' # "request"
  BY <1>1 DEF Unsent, Undialled
<1> QED
  BY <1>1, <1>2, BeforeRequest, GoesOn

(* An error is kept; when every one was local, so is the outcome.          *)
LEMMA DialFailsInv == ASSUME NEW err \in DialErrors PROVE ProbeInv /\ DialFails(err) /\ WorldInv' => ProbeInv'
<1> SUFFICES ASSUME ProbeInv, DialFails(err), WorldInv' PROVE ProbeInv'
  OBVIOUS
<1>1. /\ stage = "dial" /\ left > 0 /\ left' = left - 1
      /\ dial' = [kept |-> KeptError(err), local |-> dial.local /\ Local(err)]
      /\ UNCHANGED <<probeNow, probeWorld, answer, canceled>>
  BY DEF DialFails
<1>2. stage \in Unsent
  BY <1>1 DEF Unsent
<1>3. dial'.kept \in DialErrors
  BY <1>1, <1>2, BeforeRequest DEF KeptError
<1>4. CASE left' > 0 /\ ~canceled
  <2>1. UNCHANGED <<stage, probeRow>>
    BY <1>4 DEF DialFails
  <2> QED
    BY <1>1, <1>2, <1>3, <1>4, <2>1, BeforeRequest, GoesOn DEF Unsent, Undialled
<1>5. CASE ~(left' > 0 /\ ~canceled)
  <2> DEFINE outcome == IF dial'.local THEN "PROBE_ERROR" ELSE ClassifyDialError(dial'.kept)
  <2>1. End(probeRow, outcome)
    BY <1>5 DEF DialFails
  <2>2. /\ outcome \in {"PROBE_ERROR", "TCP_REFUSED", "TCP_TIMEOUT", "TCP_UNREACHABLE"}
        /\ dial'.local => outcome = "PROBE_ERROR"
    BY DEF ClassifyDialError
  <2> HIDE DEF outcome
  <2>3. outcome \in Outcomes /\ outcome \notin OffAssignment
    BY <2>2 DEF Outcomes, OffAssignment
  <2> QED
    BY <1>1, <1>2, <1>3, <2>1, <2>2, <2>3, BeforeRequest, Ends DEF NotYet
<1> QED
  BY <1>4, <1>5

LEMMA NoRequestInv == ProbeInv /\ NoRequest /\ WorldInv' => ProbeInv'
<1> SUFFICES ASSUME ProbeInv, NoRequest, WorldInv' PROVE ProbeInv'
  OBVIOUS
<1>1. stage = "handshake" /\ UNCHANGED <<probeNow, probeWorld, left, dial, answer, canceled>>
  BY DEF NoRequest
<1>2. PICK outcome \in {"RPC_ERROR", "PROBE_ERROR"} : End(probeRow, outcome)
  BY DEF NoRequest
<1>3. stage \in Unsent /\ left > 0
  BY <1>1 DEF ProbeInv, StageInv, Unsent
<1>4. outcome \in Outcomes /\ outcome \notin OffAssignment
  BY DEF Outcomes, OffAssignment
<1> QED
  BY <1>1, <1>2, <1>3, <1>4, BeforeRequest, Ends DEF NotYet

(* The handshake: the identity stands only if it completed.                *)
LEMMA HandshakeInv == ASSUME NEW hs \in Handshakes PROVE ProbeInv /\ Handshake(hs) /\ WorldInv' => ProbeInv'
<1> SUFFICES ASSUME ProbeInv, Handshake(hs), WorldInv' PROVE ProbeInv'
  OBVIOUS
<1> DEFINE seen == [probeRow EXCEPT !.tls = hs # "wire", !.identity = hs = "ok", !.stale = IdentityStale(hs)]
<1>1. stage \in {"check", "handshake"} /\ UNCHANGED <<probeNow, probeWorld, left, dial, answer, canceled>>
  BY DEF Handshake
<1>2. stage \in Unsent /\ left > 0 /\ left \in Int
  BY <1>1 DEF ProbeInv, StageInv, Unsent
<1>3. IdentityStale(hs) \in BOOLEAN
  BY DEF IdentityStale
<1>4. /\ seen \in RowType /\ seen.outcome = NotYet /\ seen.class = NotYet
      /\ seen.identity <=> hs = "ok"
  BY <1>2, <1>3, BeforeRequest DEF RowType
<1>5. \/ hs # "ok" /\ End(seen, FailureOf(hs))
      \/ hs = "ok" /\ End(seen, "REACHABLE")
      \/ hs = "ok" /\ stage' = "request" /\ probeRow' = seen
  BY DEF Handshake
<1> HIDE DEF seen
<1>6. CASE hs = "ok" /\ stage' = "request" /\ probeRow' = seen
  BY <1>1, <1>2, <1>4, <1>6, BeforeRequest, GoesOn DEF Unsent, Undialled
<1>7. CASE hs = "ok" /\ End(seen, "REACHABLE")
  <2>1. "REACHABLE" \in Outcomes /\ "REACHABLE" \notin OffAssignment
    BY DEF Outcomes, OffAssignment
  <2> QED
    BY <1>1, <1>2, <1>4, <1>7, <2>1, BeforeRequest, Ends DEF NotYet
<1>8. CASE hs # "ok" /\ End(seen, FailureOf(hs))
  <2>1. FailureOf(hs) \in {"TLS_HANDSHAKE_FAIL", "PROBE_ERROR", "IDENTITY_FAIL"}
    BY DEF FailureOf
  <2>2. FailureOf(hs) \in Outcomes /\ FailureOf(hs) \notin OffAssignment
    BY <2>1 DEF Outcomes, OffAssignment
  <2> QED
    BY <1>1, <1>2, <1>4, <1>8, <2>1, <2>2, BeforeRequest, Ends DEF NotYet
<1> QED
  BY <1>5, <1>6, <1>7, <1>8

-----------------------------------------------------------------------------
(* The request and what becomes of its answer. *)

LEMMA AtRequest ==
  ASSUME ProbeInv, stage = "request"
  PROVE  /\ stage \notin Ended /\ left \in Int /\ left > 0
         /\ dial.kept \in DialErrors \cup {NotYet} /\ canceled \in BOOLEAN
         /\ probeRow \in RowType /\ probeRow.outcome = NotYet /\ probeRow.class = NotYet
         /\ probeRow.identity
BY DEF ProbeInv, StageInv, Unsent, Undialled, Ended

LEMMA ServeInv == ProbeInv /\ Serve /\ WorldInv' => ProbeInv'
<1> SUFFICES ASSUME ProbeInv, Serve, WorldInv' PROVE ProbeInv'
  OBVIOUS
<1>1. /\ stage = "request" /\ answer' \in Answers
      /\ UNCHANGED <<probeNow, probeWorld, stage, left, dial, probeRow, canceled>>
  BY DEF Serve
<1>2. stage \notin Unsent /\ stage \notin Ended /\ stage # "done"
  BY <1>1 DEF Unsent, Undialled, Ended
<1>3. AnswerInv'
  <2>1. CASE probeWorld.honest
    <3>1. answer' \in HonestAnswers /\ probeWorld.stored \in Stores
      BY <1>1, <2>1 DEF Answers, ProbeInv, WorldInv
    <3>2. answer' \in Rows \cup RpcErrors /\ answer' # "corrupt"
      BY <3>1 DEF HonestAnswers, Rows, RpcErrors, Stores
    <3>3. answer' = "NotFound" => Gone
      BY <3>1 DEF HonestAnswers, Stores
    <3> QED
      BY <1>1, <3>2, <3>3 DEF AnswerInv, Gone
  <2>2. CASE ~probeWorld.honest
    BY <1>1, <2>2 DEF Answers, AnswerInv
  <2> QED
    BY <2>1, <2>2
<1>4. StageInv'
  BY <1>1, <1>2 DEF ProbeInv, StageInv
<1>5. OutcomeInv' /\ TroubleInv' /\ DoneInv'
  BY <1>1, <1>2, AtRequest DEF OutcomeInv, TroubleInv, DoneInv, NotYet, OffAssignment
<1> QED
  BY <1>3, <1>4, <1>5 DEF ProbeInv

LEMMA GiveUpInv == ProbeInv /\ GiveUp /\ WorldInv' => ProbeInv'
<1> SUFFICES ASSUME ProbeInv, GiveUp, WorldInv' PROVE ProbeInv'
  OBVIOUS
<1>1. /\ stage = "request" /\ End(probeRow, "RPC_DEADLINE")
      /\ UNCHANGED <<probeNow, probeWorld, left, dial, answer, canceled>>
  BY DEF GiveUp
<1>2. "RPC_DEADLINE" \in Outcomes /\ "RPC_DEADLINE" \notin OffAssignment
  BY DEF Outcomes, OffAssignment
<1> QED
  BY <1>1, <1>2, AtRequest, Ends

(* An honest server says NOT_FOUND only of what is gone, and by then the   *)
(* guarded clock of the observer has passed the deadline: the offset it    *)
(* knows is at most the age of a block above its true skew.                *)
LEMMA NotFoundIsLate ==
  ASSUME WorldInv, Gone, probeWorld.stored # "nothing", probeRow.phase \in Phases
  PROVE  NotFoundPhase # "in_window"
<1>1. probeNow >= ServeUntil
  BY DEF Gone
<1>2. probeWorld.skew + NotFoundGuardNow >= 0
  BY ProbeAssumption DEF WorldInv, NotFoundGuardNow
<1>3. /\ NotFoundGuardNow \in Int /\ probeNow \in Int /\ probeWorld.skew \in Int /\ ServeUntil \in Int
  BY ProbeAssumption DEF WorldInv, NotFoundGuardNow
<1>4. ~(probeNow + probeWorld.skew + NotFoundGuardNow < ServeUntil)
  BY <1>1, <1>2, <1>3
<1>5. PhaseNow(NotFoundGuardNow) # "in_window"
  BY <1>4 DEF PhaseNow, PhaseAtWindow
<1> QED
  BY <1>5 DEF NotFoundPhase

LEMMA ReceiveInv == ProbeInv /\ Receive /\ WorldInv' => ProbeInv'
<1> SUFFICES ASSUME ProbeInv, Receive, WorldInv' PROVE ProbeInv'
  OBVIOUS
<1>1. stage = "request" /\ answer # NotYet /\ UNCHANGED <<probeNow, probeWorld, left, dial, answer, canceled>>
  BY DEF Receive
<1>2. left \in Int /\ left > 0 /\ probeRow \in RowType /\ probeRow.class = NotYet /\ probeRow.identity
  BY <1>1, AtRequest
<1>3. ASSUME NEW outcome \in {"PROBE_ERROR", "RPC_DEADLINE", "INVALID_ROWS", "SERVED_OK", "PARTIAL", "WRONG_ROWS",
                              "RPC_UNAVAILABLE", "RPC_THROTTLED", "SERVER_ERROR", "RPC_ERROR", "NOT_FOUND"},
             NEW r \in RowType, End(r, outcome), r.class = NotYet,
             outcome \in OffAssignment => r.verified,
             outcome = "INVALID_ROWS" => answer = "corrupt",
             outcome = "NOT_FOUND" /\ r.phase = "in_window" /\ probeWorld.honest => probeWorld.stored = "nothing",
             answer \in {"misshapen", "ReceivedTooLarge", "Unimplemented"} => outcome = "PROBE_ERROR"
      PROVE  ProbeInv'
  <2>1. outcome \in Outcomes /\ outcome \notin {"IDENTITY_FAIL", "NO_REGISTERED_HOST", "UNROUTABLE_HOST"}
    BY DEF Outcomes
  <2> QED
    BY <1>1, <1>2, <1>3, <2>1, AtRequest, Ends
<1>4. CASE answer \in RpcErrors
                 /\ End([probeRow EXCEPT !.phase = IF answer = "NotFound" THEN NotFoundPhase ELSE @],
                        ClassifyDownloadError(answer))
  <2> DEFINE r == [probeRow EXCEPT !.phase = IF answer = "NotFound" THEN NotFoundPhase ELSE @]
  <2> DEFINE outcome == ClassifyDownloadError(answer)
  <2>1. NotFoundPhase \in Phases /\ probeRow.phase \in Phases
    BY <1>2 DEF NotFoundPhase, PhaseNow, PhaseAtWindow, Phases, RowType
  <2>2. r \in RowType /\ r.class = NotYet /\ (answer = "NotFound" => r.phase = NotFoundPhase)
    BY <1>2, <2>1 DEF RowType
  <2>3. /\ outcome \in {"PROBE_ERROR", "RPC_DEADLINE", "RPC_UNAVAILABLE", "RPC_THROTTLED", "SERVER_ERROR",
                        "RPC_ERROR", "NOT_FOUND"}
        /\ outcome = "NOT_FOUND" => answer = "NotFound"
        /\ answer \in {"misshapen", "ReceivedTooLarge", "Unimplemented"} => outcome = "PROBE_ERROR"
    BY <1>4 DEF ClassifyDownloadError, RpcErrors
  <2>4. End(r, outcome)
    BY <1>4
  <2> HIDE DEF r, outcome
  <2>5. outcome = "NOT_FOUND" /\ r.phase = "in_window" /\ probeWorld.honest => probeWorld.stored = "nothing"
    BY <2>1, <2>2, <2>3, NotFoundIsLate DEF ProbeInv, AnswerInv
  <2>6. outcome \notin OffAssignment /\ outcome # "INVALID_ROWS"
    BY <2>3 DEF OffAssignment
  <2> QED
    BY <1>3, <2>2, <2>3, <2>4, <2>5, <2>6
<1>5. CASE answer \in Rows /\ ~Parsed /\ End(probeRow, "PROBE_ERROR")
  BY <1>2, <1>3, <1>5 DEF OffAssignment
<1>6. CASE answer = "corrupt" /\ End(probeRow, "INVALID_ROWS")
  BY <1>2, <1>3, <1>6 DEF OffAssignment
<1>7. CASE answer = "own" /\ End([probeRow EXCEPT !.verified = TRUE], "SERVED_OK")
  <2>1. [probeRow EXCEPT !.verified = TRUE] \in RowType /\ [probeRow EXCEPT !.verified = TRUE].class = NotYet
    BY <1>2 DEF RowType
  <2> QED
    BY <1>3, <1>7, <2>1 DEF OffAssignment
<1>8. ASSUME NEW gap \in BOOLEAN, answer = "short", End([probeRow EXCEPT !.verified = TRUE, !.gap = gap], "PARTIAL")
      PROVE  ProbeInv'
  <2> DEFINE r == [probeRow EXCEPT !.verified = TRUE, !.gap = gap]
  <2>1. r \in RowType /\ r.class = NotYet /\ r.verified
    BY <1>2 DEF RowType
  <2> QED
    BY <1>3, <1>8, <2>1
<1>9. ASSUME NEW known \in BOOLEAN, NEW gap \in BOOLEAN, NEW outcome \in OffAssignment, answer = "other",
             End(ShadowedBy(known, gap), outcome)
      PROVE  ProbeInv'
  <2>1. (~known /\ gap) \in BOOLEAN
    OBVIOUS
  <2>2. /\ ShadowedBy(known, gap) \in RowType /\ ShadowedBy(known, gap).class = NotYet
        /\ ShadowedBy(known, gap).verified
    BY <1>2, <2>1 DEF RowType, ShadowedBy
  <2> QED
    BY <1>3, <1>9, <2>2 DEF OffAssignment
<1> QED
  BY <1>4, <1>5, <1>6, <1>7, <1>8, <1>9 DEF Receive

-----------------------------------------------------------------------------
(* The finaliser calls the row by its evidence.                            *)
LEMMA FinishInv == ProbeInv /\ Finish /\ WorldInv' => ProbeInv'
<1> SUFFICES ASSUME ProbeInv, Finish, WorldInv' PROVE ProbeInv'
  OBVIOUS
<1> DEFINE outcome == IF canceled /\ probeRow.outcome # "SERVED_OK" THEN "PROBE_ERROR" ELSE probeRow.outcome
<1> DEFINE final == [probeRow EXCEPT !.outcome = outcome]
<1> DEFINE class == Classify(EvidenceOf(final))
<1>1. /\ stage = "end" /\ stage' = "done" /\ UNCHANGED <<probeNow, probeWorld, left, dial, answer, canceled>>
      /\ probeRow' = [final EXCEPT !.class = class]
  BY DEF Finish
<1>2. /\ probeRow \in RowType /\ left \in Int /\ dial.kept \in DialErrors \cup {NotYet} /\ canceled \in BOOLEAN
  BY DEF ProbeInv, StageInv
<1>3. outcome \in {probeRow.outcome, "PROBE_ERROR"} /\ (canceled => outcome \in {"SERVED_OK", "PROBE_ERROR"})
  OBVIOUS
<1>4. "PROBE_ERROR" \in Outcomes /\ "PROBE_ERROR" \notin OffAssignment
  BY DEF Outcomes, OffAssignment
<1> HIDE DEF outcome, class
<1>5. /\ final \in RowType /\ final.outcome = outcome /\ final.phase = probeRow.phase /\ final.tls = probeRow.tls
      /\ final.identity = probeRow.identity /\ final.stale = probeRow.stale
      /\ final.verified = probeRow.verified /\ final.shadowed = probeRow.shadowed /\ final.gap = probeRow.gap
  BY <1>2, <1>3, <1>4 DEF RowType
<1>6. class \in Classes
  BY DEF class, Classify, ObserverSide, OfEndpoint, OfObligation, Unassigned, OfPhase, InWindow, InGrace, AfterWindow,
         BeforePrune, Classes, NoClass
<1> HIDE DEF final
<1>7. /\ probeRow' \in RowType /\ probeRow'.outcome = outcome /\ probeRow'.phase = probeRow.phase
      /\ probeRow'.tls = probeRow.tls /\ probeRow'.identity = probeRow.identity
      /\ probeRow'.verified = probeRow.verified /\ probeRow'.class = class
  BY <1>1, <1>5, <1>6 DEF RowType
<1>8. EvidenceOf(probeRow)' = EvidenceOf(final)
  BY <1>1, <1>5 DEF EvidenceOf, RowType
<1>9. StageInv'
  BY <1>1, <1>2, <1>7 DEF StageInv, Unsent, Undialled, Ended
<1>10. AnswerInv'
  BY <1>1 DEF ProbeInv, AnswerInv, Gone
<1>11. OutcomeInv'
  BY <1>1, <1>3, <1>4, <1>7 DEF ProbeInv, OutcomeInv
<1>12. TroubleInv'
  BY <1>1, <1>3, <1>7 DEF ProbeInv, TroubleInv, Ended
<1>13. DoneInv'
  BY <1>1, <1>3, <1>7, <1>8 DEF DoneInv, class
<1> QED
  BY <1>9, <1>10, <1>11, <1>12, <1>13 DEF ProbeInv

LEMMA NextProbe == ProbeInv /\ [ProbeNext]_probeVars => ProbeInv'
<1> SUFFICES ASSUME ProbeInv, [ProbeNext]_probeVars PROVE ProbeInv'
  OBVIOUS
<1>1. WorldInv'
  BY WorldStays
<1>2. CASE ProbeTick
  BY <1>1, <1>2, TimePasses DEF ProbeTick, ProbeInv, StageInv
<1>3. CASE Cancel
  BY <1>1, <1>3, TimePasses DEF Cancel
<1>4. CASE UNCHANGED probeVars
  BY <1>1, <1>4, TimePasses DEF probeVars, ProbeInv, StageInv
<1>5. CASE Begin \/ Resolve \/ Connect \/ NoRequest
  BY <1>1, <1>5, BeginInv, ResolveInv, ConnectInv, NoRequestInv
<1>6. CASE Serve \/ GiveUp \/ Receive \/ Finish
  BY <1>1, <1>6, ServeInv, GiveUpInv, ReceiveInv, FinishInv
<1>7. CASE \E err \in DialErrors : DialFails(err)
  BY <1>1, <1>7, DialFailsInv
<1>8. CASE \E hs \in Handshakes : Handshake(hs)
  BY <1>1, <1>8, HandshakeInv
<1> QED
  BY <1>2, <1>3, <1>4, <1>5, <1>6, <1>7, <1>8 DEF ProbeNext

(* What is known in each layer is so in every one of them, of every probe. *)
THEOREM ProbeInvariant == ProbeSpec => []ProbeInv
BY InitProbe, NextProbe, PTL DEF ProbeSpec

(* A server that wrote what it signed for and keeps it until the deadline  *)
(* is never accused (probe.go, notFoundPhase; classify.go, ClassFault).    *)
THEOREM HonestNeverFaultedAlways == ProbeSpec => []HonestNeverFaulted
<1>1. ProbeInv => HonestNeverFaulted
  <2> SUFFICES ASSUME ProbeInv, probeWorld.honest, probeRow.class = "FAULT" PROVE FALSE
    BY DEF HonestNeverFaulted
  <2>1. Classify(EvidenceOf(probeRow)) = "FAULT"
    BY DEF ProbeInv, StageInv, DoneInv, NotYet
  <2>2. /\ probeWorld.target.assigned /\ (probeWorld.target.attested \/ probeWorld.target.unknown)
        /\ \/ probeRow.outcome = "INVALID_ROWS"
           \/ probeRow.outcome \in OffAssignment /\ ~probeRow.verified
           \/ probeRow.outcome = "NOT_FOUND" /\ probeRow.phase = "in_window"
    BY <2>1, FaultMeans DEF EvidenceOf
  <2>3. probeWorld.stored # "nothing"
    BY <2>2 DEF ProbeInv, WorldInv
  <2> QED
    BY <2>2, <2>3 DEF ProbeInv, OutcomeInv, AnswerInv
<1> QED
  BY <1>1, ProbeInvariant, PTL

(* The observer's own trouble is never published as a statement about the  *)
(* validator (probe.go, the finaliser, localDialFault; classify.go).       *)
THEOREM OwnTroubleBlamesNobodyAlways == ProbeSpec => []OwnTroubleBlamesNobody
<1>1. ProbeInv => OwnTroubleBlamesNobody
  <2> SUFFICES ASSUME ProbeInv, stage = "done", OwnTrouble PROVE probeRow.class \notin Blames
    BY DEF OwnTroubleBlamesNobody
  <2> DEFINE e == EvidenceOf(probeRow)
  <2>1. probeRow.class = Classify(e) /\ e.outcome = probeRow.outcome /\ e.pinStale = probeWorld.pinStale
    BY DEF ProbeInv, DoneInv, EvidenceOf
  <2> HIDE DEF e
  <2>2. CASE probeRow.outcome \in {"PROBE_ERROR", "RPC_DEADLINE"}
    BY <2>1, <2>2, OwnOutcome DEF Blames
  <2>3. CASE probeWorld.pinStale /\ probeRow.identity
    <3>1. Classify(e) \in {"PROBE_ERROR", "NOT_PROBED"}
      BY <2>1, <2>3, StalePin DEF ProbeInv, OutcomeInv
    <3> QED
      BY <2>1, <3>1 DEF Blames
  <2>4. stage \in Ended
    BY DEF Ended
  <2>5. probeRow.outcome \in {"PROBE_ERROR", "RPC_DEADLINE"} \/ (probeWorld.pinStale /\ probeRow.identity)
    BY <2>4 DEF OwnTrouble, ProbeInv, TroubleInv, DoneInv
  <2> QED
    BY <2>2, <2>3, <2>5
<1> QED
  BY <1>1, ProbeInvariant, PTL

-----------------------------------------------------------------------------
(* The figures of a day whose promises are decided: none is held, every    *)
(* window has closed, every reading is behind.                             *)

OfDay(rs, d) == {r \in rs : UTCDay(r.promise.settled) = d}
StartedOn(rs, d) == {r \in rs : UTCDay(r.started) = d}

AsDecided(rs) == {[r EXCEPT !.held = FALSE] : r \in rs}

DecidedObligations(rs) ==
  LET shown == AsDecided(rs)
      counted == {r \in Judged(shown) : r.attested /\ r.at \notin SuspectPoints(shown)}
      whole(r) == {q \in counted : q.promise = r.promise /\ q.validator = r.validator}
  IN  {[promise |-> r.promise, validator |-> r.validator,
        bucket |-> Bucket(whole(r), r.promise, r.promise.mustServeUntil)] : r \in counted}

(* What rollDay freezes, of the rows of the day's promises and of those    *)
(* started that day.                                                       *)
DecidedDay(settled, started) ==
  LET shown == AsDecided(started)
  IN  [obligations |-> DecidedObligations(settled), probes |-> Cardinality(shown),
       gaps |-> Cardinality({r \in shown : IsGap(r.class)}),
       faults |-> Count({r \in shown : r.at \notin SuspectPoints(shown)}, {"FAULT"})]

LEMMA ShownAsDecided ==
  ASSUME NEW rs, \A r \in rs : r.promise \notin held
  PROVE  AsHeld(rs) = AsDecided(rs)
<1>1. \A r \in rs : [r EXCEPT !.held = r.promise \in held] = [r EXCEPT !.held = FALSE]
  <2> TAKE r \in rs
  <2>1. (r.promise \in held) = FALSE
    OBVIOUS
  <2> QED
    BY <2>1, Zenon
<1> QED
  BY <1>1, Zenon DEF AsHeld, AsDecided

(* Past the deadline the moment the figures are drawn makes no difference. *)
LEMMA BucketIsFinal ==
  ASSUME NEW rs, NEW p, NEW end \in Int, p.mustServeUntil \in Int, p.mustServeUntil <= end
  PROVE  Bucket(rs, p, end) = Bucket(rs, p, p.mustServeUntil)
BY DEF Bucket

StoredRow ==
  [promise : Promises, validator : Signers, at : Int, started : Nat, phase : {"in_window", "grace"},
   assigned : {TRUE}, attested : {TRUE}, class : Classes, outcome : {"PARTIAL"}, tls : BOOLEAN, held : {FALSE},
   deferred : BOOLEAN]

LEMMA DecidedIsFinal ==
  ASSUME NEW rs, rs \subseteq StoredRow, NEW end \in Int,
         \A r \in rs : r.promise \notin held /\ r.started <= end /\ r.promise.mustServeUntil <= end
  PROVE  ObligationsIn(rs, end) = DecidedObligations(rs)
<1> DEFINE shown == AsDecided(rs)
<1> DEFINE counted == {r \in Judged(shown) : r.attested /\ r.at \notin SuspectPoints(shown)}
<1> DEFINE whole(r) == {q \in counted : q.promise = r.promise /\ q.validator = r.validator}
<1>1. AsHeld(rs) = shown
  BY ShownAsDecided
<1>2. \A r \in shown : r.started <= end /\ r.promise.mustServeUntil <= end /\ r.promise \in Promises
  BY DEF AsDecided, StoredRow
<1>3. Judged(shown) \subseteq shown
  BY DEF Judged
<1>4. Counted(shown, end, SuspectPoints(shown)) = counted
  BY <1>2, <1>3 DEF Counted
<1>5. \A r \in counted : Bucket(whole(r), r.promise, end) = Bucket(whole(r), r.promise, r.promise.mustServeUntil)
  <2> TAKE r \in counted
  <2>1. r.promise \in Promises /\ r.promise.mustServeUntil <= end
    BY <1>2, <1>3
  <2>2. r.promise.mustServeUntil \in Int
    BY <2>1, RetentionAssumption
  <2> QED
    BY <2>1, <2>2, BucketIsFinal
<1>6. ObligationsIn(rs, end) =
        {[promise |-> r.promise, validator |-> r.validator, bucket |-> Bucket(whole(r), r.promise, end)] : r \in counted}
  BY <1>1, <1>4, Zenon DEF ObligationsIn
<1>7. DecidedObligations(rs) =
        {[promise |-> r.promise, validator |-> r.validator,
          bucket |-> Bucket(whole(r), r.promise, r.promise.mustServeUntil)] : r \in counted}
  BY Zenon DEF DecidedObligations
<1> HIDE DEF counted, whole
<1> QED
  BY <1>5, <1>6, <1>7, Zenon

LEMMA DecidedDayIsFinal ==
  ASSUME NEW rs, rs \subseteq StoredRow, NEW d, Hour \in Int,
         \A r \in OfDay(rs, d) : r.promise \notin held /\ r.started <= Hour /\ r.promise.mustServeUntil <= Hour,
         \A r \in StartedOn(rs, d) : r.promise \notin held
  PROVE  DayFigures(rs, d) = DecidedDay(OfDay(rs, d), StartedOn(rs, d))
<1>1. OfDay(rs, d) \subseteq StoredRow
  BY DEF OfDay
<1>2. ObligationsIn(OfDay(rs, d), Hour) = DecidedObligations(OfDay(rs, d))
  BY <1>1, DecidedIsFinal
<1>3. AsHeld(StartedOn(rs, d)) = AsDecided(StartedOn(rs, d))
  BY ShownAsDecided
<1> QED
  BY <1>2, <1>3, Zenon DEF DayFigures, DecidedDay, OfDay, StartedOn

-----------------------------------------------------------------------------
(* The inductive invariant. *)

(* The days whose figures stand, the mark that they are rolled or not.     *)
FrozenUpTo == IF pass.at = "rolled" THEN pass.day ELSE through
Frozen(p) == UTCDay(p.settled) <= FrozenUpTo

(* Of the days up to n no promise is held, every window has closed, every  *)
(* delay is over and no row is owed a verdict.                             *)
DecidedUpTo(n) ==
  /\ \A p \in Promises : UTCDay(p.settled) <= n =>
       p \notin held /\ p.mustServeUntil <= Hour /\ UTCDay(p.settled) + RollupAfter < today
  /\ \A r \in rows : UTCDay(r.promise.settled) <= n => ~r.deferred

PassSteps == {"idle", "roll", "rolled", "prune", "halfDeleted", "deleted"}
NextToRoll == IF through = Unset THEN FirstRowDay ELSE through + 1

StoreInv ==
  /\ today \in Nat /\ today <= MaxDay /\ rows \subseteq StoredRow /\ held \subseteq Promises
  /\ \A r \in rows : \E point \in r.promise.points : point.at = r.at
  /\ \A r \in rows : r.promise.settled <= r.started
  /\ \A r \in rows : UTCDay(r.started) + MaxDelay <= UTCDay(r.promise.settled) + RollupAfter

(* A reading is in the store when its delay is over.                       *)
ArrivedInv ==
  \A p \in Promises : \A point \in p.points : UTCDay(point.started) + MaxDelay < today => Landed(p, point)

(* Days are rolled in order, from the first on which anything settled, and *)
(* deleted in order after that.                                            *)
PassInv ==
  /\ pass \in [at : PassSteps, day : Int, left : Int]
  /\ through \in Int /\ through >= Unset /\ (through # Unset => FirstRowDay <= through)
  /\ rawFrom \in Int /\ (rawFrom # Unset => rawFrom <= through + 1)
  /\ pass.at \in {"roll", "rolled"} => pass.day = NextToRoll
  /\ pass.at \in {"halfDeleted", "deleted"} => pass.day <= through
  /\ \A t \in Tables, d \in Int : <<t, d>> \in deleted => d <= through

RolledInv ==
  /\ FrozenUpTo < today /\ DOMAIN rolled \subseteq Int /\ FirstRowDay..FrozenUpTo \subseteq DOMAIN rolled
  /\ \A d \in DOMAIN rolled : FirstRowDay <= d
  /\ \A d \in DOMAIN rolled : d <= FrozenUpTo => rolled[d] = DecidedDay(OfDay(rows, d), StartedOn(rows, d))

RetentionInv == StoreInv /\ ArrivedInv /\ DecidedUpTo(FrozenUpTo) /\ PassInv /\ RolledInv

-----------------------------------------------------------------------------
LEMMA DayOrder ==
  ASSUME NEW s \in Nat, NEW t \in Nat
  PROVE  /\ UTCDay(s) \in Nat /\ (s <= t => UTCDay(s) <= UTCDay(t))
         /\ \A d \in Int : UTCDay(s) < d => s < 24 * d
BY DEF UTCDay

LEMMA SettlesOnADay ==
  ASSUME NEW p \in Promises
  PROVE  p.settled \in Nat /\ UTCDay(p.settled) \in Nat /\ p.mustServeUntil \in Nat /\ UTCDay(p.settled) \in Days
BY RetentionAssumption, DayOrder

LEMMA RowTypes ==
  ASSUME StoreInv, NEW r \in rows
  PROVE  /\ r \in StoredRow /\ r.promise \in Promises /\ r.started \in Nat /\ r.promise.settled \in Nat
         /\ UTCDay(r.started) \in Nat /\ UTCDay(r.promise.settled) \in Nat
         /\ UTCDay(r.promise.settled) <= UTCDay(r.started)
<1>1. r \in StoredRow /\ r.promise \in Promises /\ r.started \in Nat
  BY DEF StoreInv, StoredRow
<1> QED
  BY <1>1, SettlesOnADay, DayOrder DEF StoreInv

(* Nothing settled before the day the first pass begins with.              *)
LEMMA FirstDay ==
  ASSUME Promises # {}
  PROVE  FirstRowDay \in Days /\ \A p \in Promises : FirstRowDay <= UTCDay(p.settled)
<1> DEFINE Some == {d \in Nat : SettledOn(d) # {}}
<1>1. PICK p0 \in Promises : TRUE
  OBVIOUS
<1>2. UTCDay(p0.settled) \in Some
  BY SettlesOnADay DEF SettledOn
<1>3. PICK d \in Some : \A e \in Some : ~(<<e, d>> \in OpToRel(<, Nat))
  BY <1>2, NatLessThanWellFounded, WFMin, Some \subseteq Nat
<1>4. d \in Nat /\ SettledOn(d) # {} /\ \A e \in Nat : e < d => SettledOn(e) = {}
  BY <1>3 DEF OpToRel
<1>5. PICK p1 \in Promises : UTCDay(p1.settled) = d
  BY <1>4 DEF SettledOn
<1>6. d \in Days
  BY <1>5, SettlesOnADay
<1>7. \E f \in Days : SettledOn(f) # {} /\ \A e \in 0..f - 1 : SettledOn(e) = {}
  BY <1>4, <1>6
<1>8. /\ FirstRowDay \in Days /\ SettledOn(FirstRowDay) # {}
      /\ \A e \in 0..FirstRowDay - 1 : SettledOn(e) = {}
  BY <1>7, Zenon DEF FirstRowDay
<1>9. ASSUME NEW p \in Promises PROVE FirstRowDay <= UTCDay(p.settled)
  <2>1. UTCDay(p.settled) \in Nat /\ SettledOn(UTCDay(p.settled)) # {}
    BY SettlesOnADay DEF SettledOn
  <2>2. FirstRowDay \in Nat
    BY <1>8, RetentionAssumption DEF Days
  <2> QED
    BY <1>8, <2>1, <2>2
<1> QED
  BY <1>8, <1>9

LEMMA FirstRowDayIsNat == FirstRowDay \in Nat
<1>1. CASE Promises = {}
  BY <1>1 DEF FirstRowDay
<1>2. CASE Promises # {}
  BY <1>2, FirstDay, RetentionAssumption DEF Days
<1> QED
  BY <1>1, <1>2

(* What a decided promise owes has been in the store for as long.          *)
LEMMA DecidedHasLanded ==
  ASSUME StoreInv, ArrivedInv, NEW n, DecidedUpTo(n), NEW p \in Promises, UTCDay(p.settled) <= n, NEW point \in p.points
  PROVE  Landed(p, point)
<1>1. UTCDay(p.settled) + RollupAfter < today
  BY DEF DecidedUpTo
<1>2. point.started \in Nat /\ UTCDay(point.started) + MaxDelay <= UTCDay(p.settled) + RollupAfter
  BY RetentionAssumption
<1>3. UTCDay(point.started) \in Nat /\ UTCDay(p.settled) \in Nat
  BY <1>2, DayOrder, SettlesOnADay
<1>4. UTCDay(point.started) + MaxDelay < today
  BY <1>1, <1>2, <1>3, RetentionAssumption DEF StoreInv
<1> QED
  BY <1>4 DEF ArrivedInv

(* Every row of a day, and every row started on it, is of a promise that   *)
(* settled by then.                                                        *)
LEMMA RowsOfADay ==
  ASSUME StoreInv, NEW d \in Int, NEW r \in OfDay(rows, d) \cup StartedOn(rows, d)
  PROVE  r \in rows /\ UTCDay(r.promise.settled) <= d
<1>1. r \in rows /\ (UTCDay(r.promise.settled) = d \/ UTCDay(r.started) = d)
  BY DEF OfDay, StartedOn
<1> QED
  BY <1>1, RowTypes

(* A decided day's figures are those of decided obligations.               *)
LEMMA DecidedFigures ==
  ASSUME StoreInv, NEW d \in Int, DecidedUpTo(d)
  PROVE  DayFigures(rows, d) = DecidedDay(OfDay(rows, d), StartedOn(rows, d))
<1>1. Hour \in Int
  BY DEF StoreInv, Hour
<1>2. ASSUME NEW r \in OfDay(rows, d) \cup StartedOn(rows, d)
      PROVE  r.promise \notin held /\ r.started <= Hour /\ r.promise.mustServeUntil <= Hour
  <2>1. r \in rows /\ UTCDay(r.promise.settled) <= d
    BY <1>2, RowsOfADay
  <2>2. r.promise \in Promises /\ r.started \in Nat /\ UTCDay(r.started) \in Nat /\ UTCDay(r.promise.settled) \in Nat
    BY <2>1, RowTypes
  <2>3. r.promise \notin held /\ r.promise.mustServeUntil <= Hour /\ UTCDay(r.promise.settled) + RollupAfter < today
    BY <2>1, <2>2 DEF DecidedUpTo
  <2>4. UTCDay(r.started) + MaxDelay <= UTCDay(r.promise.settled) + RollupAfter
    BY <2>1 DEF StoreInv
  <2>5. UTCDay(r.started) < today /\ today \in Int
    BY <2>2, <2>3, <2>4, RetentionAssumption DEF StoreInv
  <2>6. r.started < 24 * today
    BY <2>2, <2>5, DayOrder
  <2> QED
    BY <2>2, <2>3, <2>6 DEF Hour, StoreInv
<1>3. rows \subseteq StoredRow
  BY DEF StoreInv
<1> QED
  BY <1>1, <1>2, <1>3, DecidedDayIsFinal

LEMMA DecidedBefore ==
  ASSUME StoreInv, NEW m \in Int, NEW n \in Int, m <= n, DecidedUpTo(n)
  PROVE  DecidedUpTo(m)
BY SettlesOnADay, RowTypes DEF DecidedUpTo

-----------------------------------------------------------------------------
LEMMA InitRetention == RetentionInit => RetentionInv
<1> SUFFICES ASSUME RetentionInit PROVE RetentionInv
  OBVIOUS
<1>1. today = 0 /\ rows = {} /\ held = {} /\ deleted = {} /\ through = -1 /\ pass.at = "idle" /\ DOMAIN rolled = {}
  BY DEF RetentionInit, Unset
<1>2. StoreInv
  BY <1>1, RetentionAssumption DEF StoreInv
<1>3. ArrivedInv
  BY <1>1, RetentionAssumption, DayOrder DEF ArrivedInv
<1>4. DecidedUpTo(FrozenUpTo)
  BY <1>1, SettlesOnADay DEF DecidedUpTo, FrozenUpTo
<1>5. PassInv
  BY <1>1 DEF PassInv, RetentionInit, PassSteps, Unset
<1>6. RolledInv
  <2>1. FrozenUpTo = -1 /\ FirstRowDay \in Nat
    BY <1>1, FirstRowDayIsNat DEF FrozenUpTo
  <2> QED
    BY <1>1, <2>1 DEF RolledInv
<1> QED
  BY <1>2, <1>3, <1>4, <1>5, <1>6 DEF RetentionInv

-----------------------------------------------------------------------------
(* What the collector does to the store leaves the frozen promises alone.  *)

LEMMA StoreStep ==
  ASSUME RetentionInv, UNCHANGED <<deleted, through, rawFrom, rolled, pass>>, StoreInv', ArrivedInv', today <= today',
         \A p \in Promises : Frozen(p) => p \notin held',
         \A r \in rows' : Frozen(r.promise) => r \in rows,
         \A r \in rows : Frozen(r.promise) => r \in rows'
  PROVE  RetentionInv'
<1>1. FrozenUpTo' = FrozenUpTo /\ FrozenUpTo \in Int
  BY DEF RetentionInv, FrozenUpTo, PassInv
<1>2. today \in Int /\ today' \in Int
  BY DEF RetentionInv, StoreInv
<1>3. DecidedUpTo(FrozenUpTo)'
  BY <1>1, <1>2, SettlesOnADay, RetentionAssumption DEF RetentionInv, DecidedUpTo, Frozen, Hour
<1>4. PassInv'
  BY DEF RetentionInv, PassInv, NextToRoll
<1>5. ASSUME NEW d \in DOMAIN rolled, d <= FrozenUpTo
      PROVE  OfDay(rows', d) = OfDay(rows, d) /\ StartedOn(rows', d) = StartedOn(rows, d)
  <2>1. d \in Int
    BY <1>5 DEF RetentionInv, RolledInv
  <2>2. \A r \in rows : UTCDay(r.promise.settled) \in Nat /\ UTCDay(r.promise.settled) <= UTCDay(r.started)
                        /\ UTCDay(r.started) \in Nat
    BY RowTypes DEF RetentionInv
  <2>3. \A r \in rows' : UTCDay(r.promise.settled) \in Nat /\ UTCDay(r.promise.settled) <= UTCDay(r.started)
                         /\ UTCDay(r.started) \in Nat
    <3> TAKE r \in rows'
    <3>1. r.promise \in Promises /\ r.started \in Nat /\ r.promise.settled <= r.started
      BY DEF StoreInv, StoredRow
    <3> QED
      BY <3>1, SettlesOnADay, DayOrder
  <2> QED
    BY <1>1, <1>5, <2>1, <2>2, <2>3 DEF OfDay, StartedOn, Frozen
<1>6. RolledInv'
  BY <1>1, <1>2, <1>5 DEF RetentionInv, RolledInv
<1> QED
  BY <1>3, <1>4, <1>6 DEF RetentionInv

LEMMA MidnightInv == RetentionInv /\ Midnight => RetentionInv'
<1> SUFFICES ASSUME RetentionInv, Midnight PROVE RetentionInv'
  OBVIOUS
<1>1. /\ today' = today + 1 /\ UNCHANGED <<rows, deleted, held, through, rawFrom, rolled, pass>>
      /\ \A p \in Promises : \A point \in p.points : UTCDay(point.started) + MaxDelay <= today => Landed(p, point)
  BY DEF Midnight
<1>2. StoreInv'
  BY <1>1, RetentionAssumption DEF Midnight, RetentionInv, StoreInv
<1>3. ArrivedInv'
  <2> SUFFICES ASSUME NEW p \in Promises, NEW point \in p.points, UTCDay(point.started) + MaxDelay < today'
               PROVE  Landed(p, point)'
    BY DEF ArrivedInv
  <2>1. UTCDay(point.started) \in Nat
    BY RetentionAssumption, DayOrder
  <2> QED
    BY <1>1, <2>1, RetentionAssumption DEF Landed, RetentionInv, StoreInv
<1>4. today <= today'
  BY <1>1 DEF RetentionInv, StoreInv
<1>5. \A p \in Promises : Frozen(p) => p \notin held
  BY DEF RetentionInv, DecidedUpTo, Frozen
<1> QED
  BY <1>1, <1>2, <1>3, <1>4, <1>5, StoreStep

LEMMA LandInv == ASSUME NEW p \in Promises, NEW point \in p.points PROVE RetentionInv /\ Land(p, point) => RetentionInv'
<1> SUFFICES ASSUME RetentionInv, Land(p, point) PROVE RetentionInv'
  OBVIOUS
<1>1. ~Landed(p, point) /\ UNCHANGED <<today, deleted, held, through, rawFrom, rolled, pass>>
  BY DEF Land
<1> DEFINE Row(class, v) ==
      [promise |-> p, validator |-> v, at |-> point.at, started |-> point.started, phase |-> "in_window",
       assigned |-> TRUE, attested |-> TRUE, class |-> class[v], outcome |-> "PARTIAL",
       tls |-> class[v] \in {"HEALTHY", "FAULT"}, held |-> FALSE, deferred |-> class[v] = "PROBE_ERROR"]
<1>2. PICK class \in IF p.drawnOut THEN {[v \in Signers |-> "NOT_PROBED"]} ELSE Landings :
        rows' = rows \cup {Row(class, v) : v \in Signers}
  BY Zenon DEF Land
<1>3. class \in [Signers -> Classes]
  BY <1>2, RetentionAssumption DEF Classes
<1>4. ASSUME NEW v \in Signers
      PROVE  Row(class, v) \in StoredRow /\ Row(class, v).promise = p /\ Row(class, v).started = point.started
             /\ Row(class, v).at = point.at
  <2>1. class[v] \in Classes /\ (class[v] \in {"HEALTHY", "FAULT"}) \in BOOLEAN /\ (class[v] = "PROBE_ERROR") \in BOOLEAN
    BY <1>3
  <2>2. point.at \in Int /\ point.started \in Nat
    BY RetentionAssumption
  <2> QED
    BY <2>1, <2>2 DEF StoredRow
<1> HIDE DEF Row
<1>5. ~Frozen(p)
  BY <1>1, DecidedHasLanded DEF RetentionInv, Frozen
<1>6. StoreInv'
  BY <1>1, <1>2, <1>4, RetentionAssumption DEF RetentionInv, StoreInv
<1>7. ArrivedInv'
  BY <1>1, <1>2 DEF RetentionInv, ArrivedInv, Landed
<1>8. \A q \in Promises : Frozen(q) => q \notin held
  BY DEF RetentionInv, DecidedUpTo, Frozen
<1>9. today <= today'
  BY <1>1 DEF RetentionInv, StoreInv
<1> QED
  BY <1>1, <1>2, <1>4, <1>5, <1>6, <1>7, <1>8, <1>9, StoreStep

(* A range is on record long before the day of its promises is rolled.     *)
LEMMA HoldLandsInv == ASSUME NEW p \in Promises PROVE RetentionInv /\ HoldLands(p) => RetentionInv'
<1> SUFFICES ASSUME RetentionInv, HoldLands(p) PROVE RetentionInv'
  OBVIOUS
<1>1. /\ UTCDay(p.settled) + MaxDelay >= today /\ held' = held \cup {p}
      /\ UNCHANGED <<today, rows, deleted, through, rawFrom, rolled, pass>>
  BY DEF HoldLands
<1>2. today \in Int
  BY DEF RetentionInv, StoreInv
<1>3. ~Frozen(p)
  BY <1>1, <1>2, SettlesOnADay, RetentionAssumption DEF RetentionInv, DecidedUpTo, Frozen
<1>4. \A q \in Promises : Frozen(q) => q \notin held'
  BY <1>1, <1>3 DEF RetentionInv, DecidedUpTo, Frozen
<1>5. StoreInv'
  BY <1>1 DEF RetentionInv, StoreInv
<1>6. ArrivedInv'
  BY <1>1 DEF RetentionInv, ArrivedInv, Landed
<1> QED
  BY <1>1, <1>2, <1>4, <1>5, <1>6, StoreStep

(* A step that changes what a row says leaves the reading it is of.        *)
LEMMA RowsChange ==
  ASSUME RetentionInv, UNCHANGED <<today, deleted, through, rawFrom, rolled, pass>>, held' \subseteq held,
         NEW change \in [rows -> StoredRow], rows' = {change[r] : r \in rows},
         \A r \in rows : /\ change[r].promise = r.promise /\ change[r].at = r.at /\ change[r].started = r.started
                         /\ (Frozen(r.promise) => change[r] = r)
  PROVE  RetentionInv'
<1>1. StoreInv'
  BY DEF RetentionInv, StoreInv
<1>2. ArrivedInv'
  <2> SUFFICES ASSUME NEW p \in Promises, NEW point \in p.points, UTCDay(point.started) + MaxDelay < today
               PROVE  \E r \in rows' : r.promise = p /\ r.at = point.at
    BY DEF ArrivedInv, Landed
  <2>1. PICK r \in rows : r.promise = p /\ r.at = point.at
    BY DEF RetentionInv, ArrivedInv, Landed
  <2> QED
    BY <2>1
<1>3. \A q \in Promises : Frozen(q) => q \notin held'
  BY DEF RetentionInv, DecidedUpTo, Frozen
<1>4. \A r \in rows' : Frozen(r.promise) => r \in rows
  OBVIOUS
<1>5. \A r \in rows : Frozen(r.promise) => r \in rows'
  OBVIOUS
<1>6. today <= today'
  BY DEF RetentionInv, StoreInv
<1> QED
  BY <1>1, <1>2, <1>3, <1>4, <1>5, <1>6, StoreStep

LEMMA HoldLiftsInv == ASSUME NEW p \in Promises PROVE RetentionInv /\ HoldLifts(p) => RetentionInv'
<1> SUFFICES ASSUME RetentionInv, HoldLifts(p) PROVE RetentionInv'
  OBVIOUS
<1> DEFINE late(r) == r \in Stored /\ r.promise = p /\ InEndSegment(r.at, p)
<1> DEFINE Tolerated(r) == [r EXCEPT !.phase = "grace", !.class = "TOLERATED"]
<1>1. /\ p \in held /\ held' = held \ {p} /\ UNCHANGED <<today, deleted, through, rawFrom, rolled, pass>>
      /\ (rows' = rows \/ rows' = {IF late(r) THEN Tolerated(r) ELSE r : r \in rows})
  BY DEF HoldLifts
<1>2. ~Frozen(p)
  BY <1>1 DEF RetentionInv, DecidedUpTo, Frozen
<1>3. \A r \in rows : r \in StoredRow
  BY DEF RetentionInv, StoreInv
<1>4. ASSUME NEW r \in rows
      PROVE  /\ Tolerated(r) \in StoredRow /\ Tolerated(r).promise = r.promise /\ Tolerated(r).at = r.at
             /\ Tolerated(r).started = r.started
  BY <1>3 DEF StoredRow, Classes
<1>5. \A r \in rows : late(r) => r.promise = p
  OBVIOUS
<1> HIDE DEF late, Tolerated
<1>6. CASE rows' = rows
  <2> DEFINE change == [r \in rows |-> r]
  <2>1. change \in [rows -> StoredRow] /\ rows' = {change[r] : r \in rows} /\ \A r \in rows : change[r] = r
    BY <1>3, <1>6
  <2> HIDE DEF change
  <2> QED
    BY <1>1, <2>1, RowsChange
<1>7. CASE rows' = {IF late(r) THEN Tolerated(r) ELSE r : r \in rows}
  <2> DEFINE change == [r \in rows |-> IF late(r) THEN Tolerated(r) ELSE r]
  <2>1. change \in [rows -> StoredRow] /\ \A r \in rows : change[r] = IF late(r) THEN Tolerated(r) ELSE r
    BY <1>3, <1>4
  <2> HIDE DEF change
  <2>2. rows' = {change[r] : r \in rows}
    BY <1>7, <2>1
  <2>3. ASSUME NEW r \in rows
        PROVE  /\ change[r].promise = r.promise /\ change[r].at = r.at /\ change[r].started = r.started
               /\ (Frozen(r.promise) => change[r] = r)
    BY <1>2, <1>4, <1>5, <2>1
  <2> QED
    BY <1>1, <2>1, <2>2, <2>3, RowsChange
<1> QED
  BY <1>1, <1>6, <1>7

(* A row owed a late verdict is of no frozen day.                          *)
LEMMA AmendDeferredInv == ASSUME NEW r \in rows PROVE RetentionInv /\ AmendDeferred(r) => RetentionInv'
<1> SUFFICES ASSUME RetentionInv, AmendDeferred(r) PROVE RetentionInv'
  OBVIOUS
<1> DEFINE Judge(class) == [r EXCEPT !.class = class, !.deferred = FALSE]
<1>1. r.deferred /\ UNCHANGED <<today, deleted, held, through, rawFrom, rolled, pass>>
  BY DEF AmendDeferred
<1>2. PICK class \in {"SHADOWED_SHARD", "UNMATCHED_GENUINE"} : rows' = (rows \ {r}) \cup {Judge(class)}
  BY DEF AmendDeferred
<1>3. ~Frozen(r.promise)
  BY <1>1 DEF RetentionInv, DecidedUpTo, Frozen
<1>4. \A q \in rows : q \in StoredRow
  BY DEF RetentionInv, StoreInv
<1>5. Judge(class) \in StoredRow /\ Judge(class).promise = r.promise /\ Judge(class).at = r.at /\ Judge(class).started = r.started
  BY <1>4 DEF StoredRow, Classes
<1> HIDE DEF Judge
<1> DEFINE change == [q \in rows |-> IF q = r THEN Judge(class) ELSE q]
<1>6. change \in [rows -> StoredRow] /\ \A q \in rows : change[q] = IF q = r THEN Judge(class) ELSE q
  BY <1>4, <1>5
<1> HIDE DEF change
<1>7. rows' = {change[q] : q \in rows}
  BY <1>2, <1>6
<1>8. ASSUME NEW q \in rows
      PROVE  /\ change[q].promise = q.promise /\ change[q].at = q.at /\ change[q].started = q.started
             /\ (Frozen(q.promise) => change[q] = q)
  BY <1>3, <1>5, <1>6
<1> QED
  BY <1>1, <1>6, <1>7, <1>8, RowsChange

-----------------------------------------------------------------------------
(* A pass writes the figures and the marks, and deletes from the tables:   *)
(* no row of the record changes.                                           *)

LEMMA PassStep ==
  ASSUME RetentionInv, UNCHANGED <<today, rows, held, rolled>>, PassInv', FrozenUpTo' <= FrozenUpTo
  PROVE  RetentionInv'
<1>1. StoreInv' /\ ArrivedInv'
  BY DEF RetentionInv, StoreInv, ArrivedInv, Landed
<1>2. FrozenUpTo \in Int /\ FrozenUpTo' \in Int
  BY DEF RetentionInv, PassInv, FrozenUpTo
<1>3. DecidedUpTo(FrozenUpTo')
  BY <1>2, DecidedBefore DEF RetentionInv
<1>4. DecidedUpTo(FrozenUpTo)'
  BY <1>3 DEF DecidedUpTo, Hour
<1>5. RolledInv'
  BY <1>2, FirstRowDayIsNat DEF RetentionInv, RolledInv, StoreInv
<1> QED
  BY <1>1, <1>4, <1>5 DEF RetentionInv

LEMMA BeginRollupInv == RetentionInv /\ BeginRollup => RetentionInv'
<1> SUFFICES ASSUME RetentionInv, BeginRollup PROVE RetentionInv'
  OBVIOUS
<1>1. /\ pass' = [at |-> "roll", day |-> NextToRoll, left |-> 0] /\ pass.at = "idle"
      /\ UNCHANGED <<today, rows, deleted, held, through, rawFrom, rolled>>
  BY DEF BeginRollup, NextToRoll
<1>2. PassInv'
  BY <1>1, FirstRowDayIsNat DEF RetentionInv, PassInv, PassSteps, NextToRoll
<1> QED
  BY <1>1, <1>2, PassStep DEF FrozenUpTo, RetentionInv, PassInv

LEMMA RollupOverInv == RetentionInv /\ RollupOver => RetentionInv'
<1> SUFFICES ASSUME RetentionInv, RollupOver PROVE RetentionInv'
  OBVIOUS
<1>1. /\ pass.at = "roll" /\ pass'.at \in {"idle", "prune"} /\ UNCHANGED <<today, rows, deleted, held, through, rawFrom, rolled>>
  BY DEF RollupOver, RetentionInv, PassInv
<1>2. PassInv'
  BY <1>1, FirstRowDayIsNat, RetentionAssumption DEF RollupOver, RetentionInv, PassInv, PassSteps
<1> QED
  BY <1>1, <1>2, PassStep DEF FrozenUpTo, RetentionInv, PassInv

LEMMA PassDiesInv == RetentionInv /\ (PassDies \/ EndPass) => RetentionInv'
<1> SUFFICES ASSUME RetentionInv, PassDies \/ EndPass PROVE RetentionInv'
  OBVIOUS
<1>1. pass' = [at |-> "idle", day |-> 0, left |-> 0] /\ UNCHANGED <<today, rows, deleted, held, through, rawFrom, rolled>>
  BY DEF PassDies, EndPass
<1>2. PassInv'
  BY <1>1 DEF RetentionInv, PassInv, PassSteps
<1>3. FrozenUpTo' <= FrozenUpTo
  BY <1>1, FirstRowDayIsNat DEF FrozenUpTo, RetentionInv, PassInv, NextToRoll, Unset
<1> QED
  BY <1>1, <1>2, <1>3, PassStep

(* Only rows of rolled days are deleted.                                   *)
LEMMA LaterDaysAreStored ==
  ASSUME StoreInv, PassInv, NEW d \in Int, through < d
  PROVE  OfDay(Stored, d) = OfDay(rows, d) /\ StartedOn(Stored, d) = StartedOn(rows, d)
<1>1. ASSUME NEW r \in rows, UTCDay(r.promise.settled) = d \/ UTCDay(r.started) = d PROVE r \in Stored
  <2>1. UTCDay(r.started) \in Nat /\ d <= UTCDay(r.started)
    BY <1>1, RowTypes
  <2>2. TableOf(r) \in Tables
    BY DEF TableOf, Tables
  <2>3. <<TableOf(r), UTCDay(r.started)>> \notin deleted
    BY <2>1, <2>2 DEF PassInv
  <2> QED
    BY <2>3 DEF Stored
<1> QED
  BY <1>1 DEF OfDay, StartedOn, Stored

(* A day is rolled once it is decided: what is frozen is what its rows     *)
(* will always say.                                                        *)
LEMMA RollDayInv == RetentionInv /\ RollDay => RetentionInv'
<1> SUFFICES ASSUME RetentionInv, RollDay PROVE RetentionInv'
  OBVIOUS
<1> DEFINE n == pass.day
<1>1. /\ pass.at = "roll" /\ RollupDue(n) /\ DayFinal(n)
      /\ rolled' = [d \in DOMAIN rolled \cup {n} |-> IF d = n THEN DayFigures(Stored, d) ELSE rolled[d]]
      /\ pass' = [pass EXCEPT !.at = "rolled"]
      /\ UNCHANGED <<today, rows, deleted, held, through, rawFrom>>
  BY DEF RollDay
<1>2. n \in Int /\ n = NextToRoll /\ FrozenUpTo = through /\ through \in Int /\ through < n /\ FirstRowDay <= n
  BY <1>1, FirstRowDayIsNat DEF RetentionInv, PassInv, NextToRoll, FrozenUpTo, Unset
<1>3. pass' \in [at : PassSteps, day : Int, left : Int] /\ pass'.at = "rolled" /\ pass'.day = n
  BY <1>1 DEF RetentionInv, PassInv, PassSteps
<1>4. FrozenUpTo' = n
  BY <1>3 DEF FrozenUpTo
<1>5. ASSUME NEW d \in Int, FirstRowDay <= d, d <= n PROVE d = n \/ d <= through
  BY <1>2, <1>5 DEF NextToRoll
<1>6. DecidedUpTo(n)
  <2>1. ASSUME NEW p \in Promises, UTCDay(p.settled) <= n
        PROVE  p \notin held /\ p.mustServeUntil <= Hour /\ UTCDay(p.settled) + RollupAfter < today
    <3>1. UTCDay(p.settled) = n \/ UTCDay(p.settled) <= through
      BY <1>5, <2>1, SettlesOnADay, FirstDay
    <3>2. CASE UTCDay(p.settled) <= through
      BY <1>2, <3>2 DEF RetentionInv, DecidedUpTo
    <3>3. CASE UTCDay(p.settled) = n
      <4>1. p \in SettledOn(n) /\ today \in Int /\ p.mustServeUntil \in Nat
        BY <3>3, SettlesOnADay DEF SettledOn, RetentionInv, StoreInv
      <4> QED
        BY <1>1, <1>2, <3>3, <4>1, RetentionAssumption DEF DayFinal, RollupDue, Hour
    <3> QED
      BY <3>1, <3>2, <3>3
  <2>2. ASSUME NEW r \in rows, UTCDay(r.promise.settled) <= n PROVE ~r.deferred
    <3>1. UTCDay(r.promise.settled) = n \/ UTCDay(r.promise.settled) <= through
      BY <1>5, <2>2, RowTypes, SettlesOnADay, FirstDay DEF RetentionInv
    <3>2. CASE UTCDay(r.promise.settled) <= through
      BY <1>2, <3>2 DEF RetentionInv, DecidedUpTo
    <3>3. CASE UTCDay(r.promise.settled) = n
      <4>1. r \in OfDay(Stored, n)
        BY <1>2, <3>3, LaterDaysAreStored DEF RetentionInv, OfDay
      <4> QED
        BY <1>1, <4>1 DEF DayFinal, OfDay
    <3> QED
      BY <3>1, <3>2, <3>3
  <2> QED
    BY <2>1, <2>2 DEF DecidedUpTo
<1>7. DayFigures(Stored, n) = DecidedDay(OfDay(rows, n), StartedOn(rows, n))
  <2>1. OfDay(Stored, n) = OfDay(rows, n) /\ StartedOn(Stored, n) = StartedOn(rows, n)
    BY <1>2, LaterDaysAreStored DEF RetentionInv
  <2>2. DayFigures(Stored, n) = DayFigures(rows, n)
    BY <2>1, Zenon DEF DayFigures, OfDay, StartedOn
  <2> QED
    BY <1>2, <1>6, <2>2, DecidedFigures DEF RetentionInv
<1>8. StoreInv' /\ ArrivedInv'
  BY <1>1 DEF RetentionInv, StoreInv, ArrivedInv, Landed
<1>9. DecidedUpTo(FrozenUpTo)'
  BY <1>1, <1>4, <1>6 DEF DecidedUpTo, Hour
<1>10. PassInv'
  BY <1>1, <1>2, <1>3 DEF RetentionInv, PassInv, NextToRoll
<1>11. RolledInv'
  <2>1. DOMAIN rolled' = DOMAIN rolled \cup {n} /\ \A d \in DOMAIN rolled' : d \in Int /\ FirstRowDay <= d
    BY <1>1, <1>2 DEF RetentionInv, RolledInv
  <2>2. ASSUME NEW d \in DOMAIN rolled', d <= n
        PROVE  rolled'[d] = DecidedDay(OfDay(rows, d), StartedOn(rows, d))
    <3>1. CASE d = n
      BY <1>1, <1>7, <2>1, <3>1
    <3>2. CASE d # n
      <4>1. d \in DOMAIN rolled /\ d <= FrozenUpTo
        BY <1>2, <1>5, <2>1, <2>2, <3>2
      <4>2. rolled'[d] = rolled[d]
        BY <1>1, <3>2, <4>1
      <4> QED
        BY <4>1, <4>2 DEF RetentionInv, RolledInv
    <3> QED
      BY <3>1, <3>2
  <2>3. FirstRowDay..n \subseteq DOMAIN rolled'
    BY <1>2, <1>5, <2>1, FirstRowDayIsNat DEF RetentionInv, RolledInv
  <2>4. n < today
    BY <1>1, <1>2, RetentionAssumption DEF RollupDue, RetentionInv, StoreInv
  <2> QED
    BY <1>1, <1>4, <2>1, <2>2, <2>3, <2>4 DEF RolledInv
<1> QED
  BY <1>8, <1>9, <1>10, <1>11 DEF RetentionInv

LEMMA NoteRolledInv == RetentionInv /\ NoteRolled => RetentionInv'
<1> SUFFICES ASSUME RetentionInv, NoteRolled PROVE RetentionInv'
  OBVIOUS
<1>1. /\ pass.at = "rolled" /\ through' = pass.day /\ pass' = [pass EXCEPT !.at = "roll", !.day = @ + 1]
      /\ UNCHANGED <<today, rows, deleted, held, rawFrom, rolled>>
  BY DEF NoteRolled
<1>2. pass.day \in Int /\ pass.day = NextToRoll /\ through \in Int /\ through < pass.day /\ FirstRowDay <= pass.day /\ 0 <= pass.day
  BY <1>1, FirstRowDayIsNat DEF RetentionInv, PassInv, NextToRoll, Unset
<1>3. pass' \in [at : PassSteps, day : Int, left : Int] /\ pass'.at = "roll" /\ pass'.day = pass.day + 1
  <2>1. pass \in [at : PassSteps, day : Int, left : Int]
    BY DEF RetentionInv, PassInv
  <2>2. pass' = [at |-> "roll", day |-> pass.day + 1, left |-> pass.left]
    BY <1>1, <2>1
  <2> QED
    BY <1>2, <2>1, <2>2 DEF PassSteps
<1>4. PassInv'
  BY <1>1, <1>2, <1>3 DEF RetentionInv, PassInv, NextToRoll, Unset
<1> QED
  BY <1>1, <1>2, <1>3, <1>4, PassStep DEF FrozenUpTo

LEMMA PruneInv == RetentionInv /\ (DeleteProbes \/ DeleteDecisions \/ NotePruned) => RetentionInv'
<1> SUFFICES ASSUME RetentionInv, DeleteProbes \/ DeleteDecisions \/ NotePruned PROVE RetentionInv'
  OBVIOUS
<1>1. pass.at \notin {"roll", "rolled"} /\ pass'.at \notin {"roll", "rolled"} /\ UNCHANGED <<today, rows, held, through, rolled>>
  BY DEF DeleteProbes, DeleteDecisions, NotePruned, RetentionInv, PassInv
<1>2. FrozenUpTo' <= FrozenUpTo
  BY <1>1 DEF FrozenUpTo, RetentionInv, PassInv
<1>3. CASE DeleteProbes
  BY <1>1, <1>2, <1>3, PassStep DEF DeleteProbes, ToPrune, RetentionInv, PassInv, PassSteps, Tables
<1>4. CASE DeleteDecisions
  BY <1>1, <1>2, <1>4, PassStep DEF DeleteDecisions, RetentionInv, PassInv, PassSteps, Tables
<1>5. CASE NotePruned
  BY <1>1, <1>2, <1>5, PassStep DEF NotePruned, RetentionInv, PassInv, PassSteps, Tables
<1> QED
  BY <1>3, <1>4, <1>5

LEMMA NextRetention == RetentionInv /\ [RetentionNext]_retentionVars => RetentionInv'
<1> SUFFICES ASSUME RetentionInv, [RetentionNext]_retentionVars PROVE RetentionInv'
  OBVIOUS
<1>1. ASSUME NEW p \in Promises, NEW point \in p.points, Land(p, point) PROVE RetentionInv'
  BY <1>1, LandInv
<1>2. ASSUME NEW p \in Promises, HoldLands(p) \/ HoldLifts(p) PROVE RetentionInv'
  BY <1>2, HoldLandsInv, HoldLiftsInv
<1>3. ASSUME NEW r \in rows, AmendDeferred(r) PROVE RetentionInv'
  BY <1>3, AmendDeferredInv
<1>4. CASE Midnight
  BY <1>4, MidnightInv
<1>5. CASE BeginRollup \/ RollDay \/ NoteRolled \/ RollupOver
  BY <1>5, BeginRollupInv, RollDayInv, NoteRolledInv, RollupOverInv
<1>6. CASE DeleteProbes \/ DeleteDecisions \/ NotePruned \/ EndPass \/ PassDies
  BY <1>6, PruneInv, PassDiesInv
<1>7. CASE UNCHANGED retentionVars
  <2>1. UNCHANGED <<today, rows, deleted, held, through, rawFrom, rolled, pass>>
    BY <1>7 DEF retentionVars
  <2>2. FrozenUpTo' = FrozenUpTo /\ FrozenUpTo \in Int
    BY <2>1 DEF FrozenUpTo, RetentionInv, PassInv
  <2>3. PassInv'
    BY <2>1 DEF RetentionInv, PassInv, NextToRoll
  <2> QED
    BY <2>1, <2>2, <2>3, PassStep
<1> QED
  BY <1>1, <1>2, <1>3, <1>4, <1>5, <1>6, <1>7 DEF RetentionNext

(* What a frozen day relies on holds after every step: its promises are    *)
(* decided, its rows complete, the marks in the order the pass sets them.  *)
THEOREM RetentionInvariant == RetentionSpec => []RetentionInv
<1> QED
  BY InitRetention, NextRetention, PTL DEF RetentionSpec

(* A frozen day reads as its rows would read now, had they been kept: no   *)
(* correction, late verdict or row comes after it (rollup.go, dayFinal).   *)
THEOREM RolledIsFinalAlways == RetentionSpec => []RolledIsFinal
<1>1. ASSUME RetentionInv PROVE RolledIsFinal
  <2> SUFFICES ASSUME NEW d \in DOMAIN rolled, d <= through PROVE rolled[d] = DayFigures(rows, d)
    BY DEF RolledIsFinal
  <2>1. d \in Int /\ through \in Int /\ FrozenUpTo \in Int
    BY <1>1 DEF RetentionInv, RolledInv, PassInv, FrozenUpTo
  <2>2. d <= FrozenUpTo
    BY <1>1, <2>1, FirstRowDayIsNat DEF FrozenUpTo, RetentionInv, PassInv, NextToRoll, Unset
  <2>3. DecidedUpTo(d)
    BY <1>1, <2>1, <2>2, DecidedBefore DEF RetentionInv
  <2>4. rolled[d] = DecidedDay(OfDay(rows, d), StartedOn(rows, d))
    BY <1>1, <2>2 DEF RetentionInv, RolledInv
  <2> QED
    BY <1>1, <2>1, <2>3, <2>4, DecidedFigures DEF RetentionInv
<1> QED
  BY <1>1, RetentionInvariant, PTL

-----------------------------------------------------------------------------
(* The figures of a set of rows are those of its days: a point of one day  *)
(* says nothing of the readings of another.                                *)

CountedOf(rs, end) == Counted(AsHeld(rs), end, SuspectPoints(AsHeld(rs)))

LEMMA SuspectByDay ==
  ASSUME NEW rs, NEW d, NEW end,
         \A x, y \in rs : x.at = y.at => UTCDay(x.promise.settled) = UTCDay(y.promise.settled)
  PROVE  Counted(OfDay(rs, d), end, SuspectPoints(OfDay(rs, d))) = OfDay(Counted(rs, end, SuspectPoints(rs)), d)
<1>1. Judged(OfDay(rs, d)) = OfDay(Judged(rs), d) /\ Judged(rs) \subseteq rs
  BY DEF Judged, OfDay
<1>2. ASSUME NEW x \in OfDay(Judged(rs), d)
      PROVE  x.at \in SuspectPoints(rs) <=> x.at \in SuspectPoints(OfDay(rs, d))
  <2>1. {q \in Judged(rs) : q.at = x.at} = {q \in Judged(OfDay(rs, d)) : q.at = x.at}
    BY <1>1 DEF OfDay
  <2>2. x.at \in SuspectPoints(rs) <=> Suspect({q \in Judged(rs) : q.at = x.at})
    BY Zenon DEF SuspectPoints, OfDay
  <2>3. x.at \in SuspectPoints(OfDay(rs, d)) <=> Suspect({q \in Judged(OfDay(rs, d)) : q.at = x.at})
    BY <1>1, Zenon DEF SuspectPoints
  <2> QED
    BY <2>1, <2>2, <2>3, Zenon
<1> QED
  BY <1>1, <1>2 DEF Counted, OfDay

LEMMA CountedByDay ==
  ASSUME StoreInv, NEW rs, rs \subseteq rows, NEW d, NEW end
  PROVE  CountedOf(OfDay(rs, d), end) = OfDay(CountedOf(rs, end), d)
<1> DEFINE Show(r) == [r EXCEPT !.held = r.promise \in held]
<1>1. ASSUME NEW r \in rs PROVE Show(r).promise = r.promise /\ Show(r).at = r.at
  BY <1>1 DEF StoreInv, StoredRow
<1> HIDE DEF Show
<1>2. \A ss : AsHeld(ss) = {Show(r) : r \in ss}
  BY Zenon DEF AsHeld, Show
<1>3. AsHeld(OfDay(rs, d)) = OfDay(AsHeld(rs), d)
  BY <1>1, <1>2 DEF OfDay
<1>4. ASSUME NEW x \in AsHeld(rs), NEW y \in AsHeld(rs), x.at = y.at
      PROVE  UTCDay(x.promise.settled) = UTCDay(y.promise.settled)
  <2>1. PICK r \in rs : x.promise = r.promise /\ x.at = r.at
    BY <1>1, <1>2
  <2>2. PICK q \in rs : y.promise = q.promise /\ y.at = q.at
    BY <1>1, <1>2
  <2>3. PICK point \in r.promise.points : point.at = r.at
    BY DEF StoreInv
  <2>4. PICK other \in q.promise.points : other.at = q.at
    BY DEF StoreInv
  <2>5. r.promise \in Promises /\ q.promise \in Promises
    BY RowTypes
  <2> QED
    BY <1>4, <2>1, <2>2, <2>3, <2>4, <2>5, MomentsAssumption
<1> HIDE DEF OfDay
<1> QED
  BY <1>3, <1>4, SuspectByDay DEF CountedOf

LEMMA ObligationsByDay ==
  ASSUME StoreInv, NEW rs, rs \subseteq rows, NEW d, NEW end
  PROVE  ObligationsIn(OfDay(rs, d), end) = {o \in ObligationsIn(rs, end) : UTCDay(o.promise.settled) = d}
<1> DEFINE whole(ss, r) == {q \in ss : q.promise = r.promise /\ q.validator = r.validator}
<1> DEFINE Obl(ss, r) ==
      [promise |-> r.promise, validator |-> r.validator, bucket |-> Bucket(whole(ss, r), r.promise, end)]
<1> DEFINE all == CountedOf(rs, end)
<1>1. CountedOf(OfDay(rs, d), end) = {r \in all : UTCDay(r.promise.settled) = d}
  <2>1. OfDay(all, d) = {r \in all : UTCDay(r.promise.settled) = d}
    BY Zenon DEF OfDay
  <2> QED
    BY <2>1, CountedByDay, Zenon
<1>2. ObligationsIn(rs, end) = {Obl(all, r) : r \in all}
  BY Zenon DEF ObligationsIn, CountedOf
<1>3. ObligationsIn(OfDay(rs, d), end) = {Obl(CountedOf(OfDay(rs, d), end), r) : r \in CountedOf(OfDay(rs, d), end)}
  BY Zenon DEF ObligationsIn, CountedOf
<1> HIDE DEF all
<1>4. ASSUME NEW r \in all, UTCDay(r.promise.settled) = d
      PROVE  whole(CountedOf(OfDay(rs, d), end), r) = whole(all, r)
  BY <1>1, <1>4
<1>5. ASSUME NEW r \in all, UTCDay(r.promise.settled) = d
      PROVE  Obl(CountedOf(OfDay(rs, d), end), r) = Obl(all, r)
  BY <1>4, <1>5, Zenon
<1>6. \A r \in all : Obl(all, r).promise = r.promise
  OBVIOUS
<1> HIDE DEF Obl, whole
<1> QED
  BY <1>1, <1>2, <1>3, <1>5, <1>6

-----------------------------------------------------------------------------
LEMMA ObligationsHaveRows ==
  ASSUME StoreInv, NEW rs, rs \subseteq rows, NEW end, NEW o \in ObligationsIn(rs, end)
  PROVE  \E r \in rs : o.promise = r.promise
<1> DEFINE Whole(r) == {q \in CountedOf(rs, end) : q.promise = r.promise /\ q.validator = r.validator}
<1> DEFINE Bucketed(r) == Bucket(Whole(r), r.promise, end)
<1>0. ObligationsIn(rs, end) =
        {[promise |-> r.promise, validator |-> r.validator, bucket |-> Bucketed(r)] : r \in CountedOf(rs, end)}
  BY Zenon DEF ObligationsIn, CountedOf
<1> HIDE DEF Bucketed
<1>1. PICK r \in CountedOf(rs, end) : o.promise = r.promise
  BY <1>0
<1>2. CountedOf(rs, end) \subseteq AsHeld(rs)
  BY DEF CountedOf, Counted, Judged
<1>3. PICK q \in rs : r = [q EXCEPT !.held = q.promise \in held]
  BY <1>1, <1>2 DEF AsHeld
<1>4. r.promise = q.promise
  BY <1>3 DEF StoreInv, StoredRow
<1> QED
  BY <1>1, <1>4

(* What is frozen of a day, and the days that are. *)
LEMMA RolledAreOfTheirDay ==
  ASSUME RetentionInv, RolledIsFinal, NEW a
  PROVE  a \in RolledObligations <=>
           /\ a \in ObligationsIn(rows, Hour) /\ UTCDay(a.promise.settled) < rawFrom
<1>1. StoreInv /\ PassInv /\ RolledInv
  BY DEF RetentionInv
<1>2. /\ rawFrom \in Int /\ through \in Int /\ FrozenUpTo \in Int /\ FirstRowDay \in Nat
      /\ (rawFrom # -1 => rawFrom <= through + 1) /\ through <= FrozenUpTo
  BY <1>1, FirstRowDayIsNat DEF PassInv, FrozenUpTo, NextToRoll, Unset
<1>3. ASSUME NEW d \in DOMAIN rolled, d < rawFrom
      PROVE  rolled[d].obligations = {o \in ObligationsIn(rows, Hour) : UTCDay(o.promise.settled) = d}
  <2>1. d \in Nat /\ d <= through
    BY <1>1, <1>2, <1>3 DEF RolledInv
  <2>2. rolled[d] = DayFigures(rows, d)
    BY <2>1 DEF RolledIsFinal
  <2>3. DayFigures(rows, d).obligations = ObligationsIn(OfDay(rows, d), Hour)
    BY Zenon DEF DayFigures, OfDay
  <2> QED
    BY <1>1, <2>2, <2>3, ObligationsByDay
<1>4. ASSUME a \in RolledObligations
      PROVE  a \in ObligationsIn(rows, Hour) /\ UTCDay(a.promise.settled) < rawFrom
  <2>1. PICK d \in DOMAIN rolled : d < rawFrom /\ a \in rolled[d].obligations
    BY <1>4 DEF RolledObligations
  <2> QED
    BY <1>3, <2>1
<1>5. ASSUME a \in ObligationsIn(rows, Hour), UTCDay(a.promise.settled) < rawFrom
      PROVE  a \in RolledObligations
  <2> DEFINE d == UTCDay(a.promise.settled)
  <2>1. PICK r \in rows : a.promise = r.promise
    BY <1>1, <1>5, ObligationsHaveRows
  <2>2. d \in Nat /\ r.promise \in Promises /\ FirstRowDay <= d
    BY <1>1, <2>1, RowTypes, FirstDay
  <2>3. d \in DOMAIN rolled
    BY <1>1, <1>2, <1>5, <2>2 DEF RolledInv
  <2>4. a \in rolled[d].obligations
    BY <1>3, <1>5, <2>3
  <2> QED
    BY <1>5, <2>3, <2>4 DEF RolledObligations
<1> QED
  BY <1>4, <1>5

(* The raw part is the rest, once a prune has noted what it deleted. *)
LEMMA RawIsTheRest ==
  ASSUME RetentionInv, ~HalfPruned, NEW b
  PROVE  b \in RawObligations <=>
           b \in ObligationsIn(rows, Hour) /\ ~(UTCDay(b.promise.settled) < rawFrom)
<1>1. StoreInv /\ PassInv /\ RolledInv
  BY DEF RetentionInv
<1> DEFINE raw == {r \in Stored : rawFrom # Unset => UTCDay(r.promise.settled) >= rawFrom}
<1>2. /\ rawFrom \in Int /\ through \in Int /\ through <= FrozenUpTo /\ FrozenUpTo < today /\ FrozenUpTo \in Int
      /\ today \in Int /\ today <= MaxDay
  BY <1>1, FirstRowDayIsNat DEF PassInv, RolledInv, FrozenUpTo, NextToRoll, Unset, StoreInv
<1>3. ASSUME NEW r \in rows, ~(UTCDay(r.promise.settled) < rawFrom) PROVE r \in raw
  <2>1. UTCDay(r.started) \in Nat /\ UTCDay(r.promise.settled) \in Nat /\ UTCDay(r.promise.settled) <= UTCDay(r.started)
    BY <1>1, RowTypes
  <2>2. TableOf(r) \in Tables
    BY DEF TableOf, Tables
  <2>3. ASSUME <<TableOf(r), UTCDay(r.started)>> \in deleted PROVE FALSE
    <3>1. UTCDay(r.started) <= through
      BY <1>1, <2>1, <2>2, <2>3 DEF PassInv
    <3>2. UTCDay(r.started) \in Days
      BY <1>2, <2>1, <3>1, RetentionAssumption DEF Days
    <3> QED
      BY <1>2, <1>3, <2>1, <2>2, <2>3, <3>2 DEF HalfPruned
  <2> QED
    BY <1>2, <1>3, <2>1, <2>3 DEF Stored
<1>4. raw \subseteq rows
  BY DEF Stored
<1>5. ASSUME NEW o, ~(UTCDay(o.promise.settled) < rawFrom)
      PROVE  o \in ObligationsIn(raw, Hour) <=> o \in ObligationsIn(rows, Hour)
  <2> DEFINE d == UTCDay(o.promise.settled)
  <2>1. OfDay(raw, d) = OfDay(rows, d)
    BY <1>3, <1>4, <1>5 DEF OfDay
  <2>2. ObligationsIn(OfDay(raw, d), Hour) = {x \in ObligationsIn(raw, Hour) : UTCDay(x.promise.settled) = d}
    BY <1>1, <1>4, ObligationsByDay
  <2>3. ObligationsIn(OfDay(rows, d), Hour) = {x \in ObligationsIn(rows, Hour) : UTCDay(x.promise.settled) = d}
    BY <1>1, ObligationsByDay
  <2> QED
    BY <2>1, <2>2, <2>3
<1>6. ASSUME NEW o \in ObligationsIn(raw, Hour) PROVE ~(UTCDay(o.promise.settled) < rawFrom)
  <2>1. PICK r \in raw : o.promise = r.promise
    BY <1>1, <1>4, ObligationsHaveRows
  <2>2. UTCDay(r.promise.settled) \in Nat
    BY <1>1, <1>4, RowTypes
  <2> QED
    BY <1>2, <2>1, <2>2 DEF Unset
<1>7. RawObligations = ObligationsIn(raw, Hour)
  BY Zenon DEF RawObligations
<1> QED
  BY <1>5, <1>6, <1>7

(* Every obligation is in the figures for all time once, in the bucket its *)
(* rows give it, whatever has been rolled and deleted of it and however a  *)
(* pass was cut short (api.go, obligationArgs).                            *)
THEOREM CountedOnceAlways == RetentionSpec => []CountedOnce
<1>1. ASSUME RetentionInv, RolledIsFinal PROVE CountedOnce
  <2>1. ASSUME NEW a \in RolledObligations, NEW b \in RawObligations PROVE ~SameObligation(a, b)
    <3>1. StoreInv /\ rawFrom \in Int /\ a \in ObligationsIn(rows, Hour) /\ UTCDay(a.promise.settled) < rawFrom
      BY <1>1, RolledAreOfTheirDay DEF RetentionInv, PassInv
    <3> DEFINE raw == {r \in Stored : rawFrom # Unset => UTCDay(r.promise.settled) >= rawFrom}
    <3>2. RawObligations = ObligationsIn(raw, Hour) /\ raw \subseteq rows
      BY Zenon DEF RawObligations, Stored
    <3>3. PICK r \in raw : b.promise = r.promise
      BY <3>1, <3>2, ObligationsHaveRows
    <3>4. PICK q \in rows : a.promise = q.promise
      BY <3>1, ObligationsHaveRows
    <3>5. UTCDay(r.promise.settled) \in Nat /\ UTCDay(q.promise.settled) \in Nat
      BY <3>1, <3>2, RowTypes
    <3> QED
      BY <3>1, <3>3, <3>4, <3>5 DEF SameObligation, Unset
  <2>2. ASSUME ~HalfPruned PROVE AllWindow = ObligationsIn(rows, Hour)
    BY <1>1, <2>2, RolledAreOfTheirDay, RawIsTheRest DEF AllWindow
  <2> QED
    BY <2>1, <2>2 DEF CountedOnce
<1> QED
  BY <1>1, RetentionInvariant, RolledIsFinalAlways, PTL

-----------------------------------------------------------------------------
(* One obligation in Go and in SQL (verdict.go, rollup.go).                *)

(* The readings of one validator, of which no two were scheduled together. *)
Readings(rs) ==
  /\ IsFiniteSet(rs)
  /\ \A r \in rs : r.at \in Int /\ r.started \in Int
  /\ \A r, q \in rs : r.at = q.at => r = q

Rank(rs, r) ==
  Cardinality({q \in rs : \/ ~IsGap(q.class) /\ IsGap(r.class)
                          \/ IsGap(q.class) = IsGap(r.class) /\ q.at > r.at
                          \/ IsGap(q.class) = IsGap(r.class) /\ q.at = r.at /\ q.started > r.started})

LEMMA RankCountsNewer ==
  ASSUME NEW rs, Readings(rs), NEW r \in rs
  PROVE  /\ Rank(rs, r) = Cardinality({q \in rs : NewerRow(q, r)})
         /\ Rank(rs, r) \in Nat
         /\ Rank(rs, r) = 0 <=> \A q \in rs : ~NewerRow(q, r)
<1> DEFINE newer == {q \in rs : NewerRow(q, r)}
<1>1. \A q \in rs : NewerRow(q, r) <=>
         \/ ~IsGap(q.class) /\ IsGap(r.class)
         \/ IsGap(q.class) = IsGap(r.class) /\ q.at > r.at
         \/ IsGap(q.class) = IsGap(r.class) /\ q.at = r.at /\ q.started > r.started
  <2> TAKE q \in rs
  <2>1. IsGap(q.class) \in BOOLEAN /\ IsGap(r.class) \in BOOLEAN
    BY DEF IsGap
  <2> QED
    BY <2>1 DEF NewerRow
<1>2. {q \in rs : \/ ~IsGap(q.class) /\ IsGap(r.class)
                  \/ IsGap(q.class) = IsGap(r.class) /\ q.at > r.at
                  \/ IsGap(q.class) = IsGap(r.class) /\ q.at = r.at /\ q.started > r.started} = newer
  BY <1>1
<1>3. Rank(rs, r) = Cardinality(newer)
  BY <1>2 DEF Rank
<1>4. IsFiniteSet(newer)
  BY FS_Subset DEF Readings
<1> QED
  BY <1>3, <1>4, FS_CardinalityType, FS_EmptySet

LEMMA NewerOrder ==
  ASSUME NEW rs, Readings(rs), NEW a \in rs, NEW b \in rs, NEW c \in rs
  PROVE  /\ ~NewerRow(a, a)
         /\ NewerRow(a, b) /\ NewerRow(b, c) => NewerRow(a, c)
         /\ a # b => NewerRow(a, b) \/ NewerRow(b, a)
<1>1. IsGap(a.class) \in BOOLEAN /\ IsGap(b.class) \in BOOLEAN /\ IsGap(c.class) \in BOOLEAN
  BY DEF IsGap
<1> QED
  BY <1>1 DEF NewerRow, Readings

(* One row is the newest, in Go as in SQL. *)
LEMMA NewestIsFirst ==
  ASSUME NEW rs, Readings(rs), rs # {}
  PROVE  Newest(rs) \in rs /\ {q \in rs : Rank(rs, q) = 0} = {Newest(rs)}
<1> DEFINE Ranks == {Rank(rs, r) : r \in rs}
<1>0. \A r \in rs : Rank(rs, r) \in Nat /\ (Rank(rs, r) = 0 <=> \A q \in rs : ~NewerRow(q, r))
  BY RankCountsNewer
<1>1. Ranks \subseteq Nat /\ Ranks # {}
  BY <1>0
<1>2. PICK n \in Ranks : \A m \in Ranks : ~(<<m, n>> \in OpToRel(<, Nat))
  BY <1>1, NatLessThanWellFounded, WFMin
<1>3. PICK r \in rs : n = Rank(rs, r)
  OBVIOUS
<1>4. \A q \in rs : ~(Rank(rs, q) < Rank(rs, r))
  BY <1>1, <1>2, <1>3 DEF OpToRel
<1>5. ASSUME NEW q \in rs, NewerRow(q, r) PROVE FALSE
  <2> DEFINE above(x) == {y \in rs : NewerRow(y, x)}
  <2>1. above(q) \subseteq above(r) /\ q \in above(r) /\ q \notin above(q)
    BY <1>5, NewerOrder
  <2>2. IsFiniteSet(above(r)) /\ above(q) # above(r)
    BY <2>1, FS_Subset DEF Readings
  <2> HIDE DEF above
  <2>3. Cardinality(above(q)) < Cardinality(above(r))
    BY <2>1, <2>2, FS_Subset, FS_CardinalityType
  <2> USE DEF above
  <2> QED
    BY <1>4, <2>3, RankCountsNewer
<1>6. Newest(rs) \in rs /\ \A q \in rs \ {Newest(rs)} : ~NewerRow(q, Newest(rs))
  BY <1>5 DEF Newest
<1>7. ASSUME NEW q \in rs PROVE Rank(rs, q) = 0 <=> q = Newest(rs)
  <2>1. ~NewerRow(q, q) /\ (q # Newest(rs) => NewerRow(q, Newest(rs)) \/ NewerRow(Newest(rs), q))
    BY <1>6, NewerOrder
  <2>2. \A x \in rs : ~NewerRow(x, x)
    BY NewerOrder
  <2> QED
    BY <1>0, <1>6, <2>1, <2>2
<1> QED
  BY <1>6, <1>7

LEMMA CountIsSome ==
  ASSUME NEW rs, IsFiniteSet(rs), NEW cs
  PROVE  Count(rs, cs) \in Nat /\ (Count(rs, cs) = 0 <=> \A r \in rs : ClassOf(r) \notin cs)
<1> DEFINE some == {r \in rs : ClassOf(r) \in cs}
<1>1. IsFiniteSet(some)
  BY FS_Subset
<1>2. Cardinality(some) \in Nat /\ (Cardinality(some) = 0 <=> some = {})
  BY <1>1, FS_CardinalityType, FS_EmptySet
<1> QED
  BY <1>2 DEF Count

(* The sums over the rows of an obligation tell as much as the rows do. *)
LEMMA SumsTell ==
  ASSUME NEW rs, Readings(rs), rs # {}, NEW w, NEW end
  PROVE  LET s == Sums(rs, w, end)
             attempted == {r \in rs : ~IsGap(ClassOf(r))}
         IN  /\ s.pending = (w.mustServeUntil > end)
             /\ s.faults \in Nat /\ (s.faults = 0 <=> \A r \in rs : ClassOf(r) # "FAULT")
             /\ s.healthy \in Nat /\ (s.healthy = 0 <=> \A r \in rs : ClassOf(r) # "HEALTHY")
             /\ s.held \in Nat /\ (s.held = 0 <=> \A r \in rs : ClassOf(r) # "RETENTION_UNVERIFIED")
             /\ s.lateHealthy \in Nat
             /\ s.lateHealthy = 0 <=> \A r \in rs : ~(ClassOf(r) = "HEALTHY" /\ InEndSegment(r.at, w))
             /\ s.attempted \in Nat /\ (s.attempted = 0 <=> attempted = {})
             /\ s.reached \in Nat /\ (s.reached = 0 <=> \A r \in attempted : ~r.tls)
             /\ s.last = {ClassOf(Newest(rs))}
<1> DEFINE attempted == {r \in rs : ~IsGap(ClassOf(r))}
           reached == {r \in attempted : r.tls}
           late == {r \in rs : InEndSegment(r.at, w)}
<1>1. IsFiniteSet(rs) /\ IsFiniteSet(attempted) /\ IsFiniteSet(reached) /\ IsFiniteSet(late)
  BY FS_Subset DEF Readings
<1>2. /\ Cardinality(attempted) \in Nat /\ (Cardinality(attempted) = 0 <=> attempted = {})
      /\ Cardinality(reached) \in Nat /\ (Cardinality(reached) = 0 <=> reached = {})
  BY <1>1, FS_CardinalityType, FS_EmptySet
<1>3. {q \in rs : Rank(rs, q) = 0} = {Newest(rs)}
  BY NewestIsFirst
<1>4. Sums(rs, w, end) =
        [faults |-> Count(rs, {"FAULT"}), healthy |-> Count(rs, {"HEALTHY"}),
         held |-> Count(rs, {"RETENTION_UNVERIFIED"}), lateHealthy |-> Count(late, {"HEALTHY"}),
         attempted |-> Cardinality(attempted), reached |-> Cardinality(reached),
         last |-> {ClassOf(r) : r \in {q \in rs : Rank(rs, q) = 0}},
         pending |-> w.mustServeUntil > end]
  BY Zenon DEF Sums, Rank
<1>5. {ClassOf(r) : r \in {q \in rs : Rank(rs, q) = 0}} = {ClassOf(Newest(rs))}
  BY <1>3
<1>6. /\ Count(rs, {"FAULT"}) \in Nat /\ (Count(rs, {"FAULT"}) = 0 <=> \A r \in rs : ClassOf(r) \notin {"FAULT"})
      /\ Count(rs, {"HEALTHY"}) \in Nat /\ (Count(rs, {"HEALTHY"}) = 0 <=> \A r \in rs : ClassOf(r) \notin {"HEALTHY"})
      /\ Count(rs, {"RETENTION_UNVERIFIED"}) \in Nat
      /\ Count(rs, {"RETENTION_UNVERIFIED"}) = 0 <=> \A r \in rs : ClassOf(r) \notin {"RETENTION_UNVERIFIED"}
      /\ Count(late, {"HEALTHY"}) \in Nat /\ (Count(late, {"HEALTHY"}) = 0 <=> \A r \in late : ClassOf(r) \notin {"HEALTHY"})
  BY <1>1, CountIsSome
<1> QED
  BY <1>2, <1>4, <1>5, <1>6

(* The recomputation in Go and the columns of the SQL put the rows of an   *)
(* obligation in one bucket, and in the same one.                          *)
LEMMA TwinsAgreeOn ==
  ASSUME NEW rs, Readings(rs), rs # {}, NEW w, NEW end
  PROVE  Columns(Sums(rs, w, end)) = {Bucket(rs, w, end)}
<1> DEFINE s == Sums(rs, w, end)
           attempted == {r \in rs : ~IsGap(ClassOf(r))}
           Is(class) == \E r \in rs : ClassOf(r) = class
           pending == w.mustServeUntil > end
           late == \E r \in rs : ClassOf(r) = "HEALTHY" /\ InEndSegment(r.at, w)
           last == ClassOf(Newest(rs)) = "HEALTHY"
           reached == \E r \in attempted : r.tls
           tried == attempted # {}
<1>1. /\ s.pending <=> pending
      /\ s.faults > 0 <=> Is("FAULT") 
      /\ s.faults = 0 <=> ~Is("FAULT")
      /\ s.healthy > 0 <=> Is("HEALTHY")
      /\ s.healthy = 0 <=> ~Is("HEALTHY")
      /\ s.held > 0 <=> Is("RETENTION_UNVERIFIED")
      /\ s.held = 0 <=> ~Is("RETENTION_UNVERIFIED")
      /\ s.lateHealthy > 0 <=> late
      /\ s.attempted > 0 <=> tried
      /\ s.attempted = 0 <=> ~tried
      /\ s.reached > 0 <=> reached
      /\ s.reached = 0 <=> ~reached
      /\ "HEALTHY" \in s.last <=> last
  <2>0. /\ s.pending = (w.mustServeUntil > end)
        /\ s.faults \in Nat /\ (s.faults = 0 <=> \A r \in rs : ClassOf(r) # "FAULT")
        /\ s.healthy \in Nat /\ (s.healthy = 0 <=> \A r \in rs : ClassOf(r) # "HEALTHY")
        /\ s.held \in Nat /\ (s.held = 0 <=> \A r \in rs : ClassOf(r) # "RETENTION_UNVERIFIED")
        /\ s.lateHealthy \in Nat
        /\ s.lateHealthy = 0 <=> \A r \in rs : ~(ClassOf(r) = "HEALTHY" /\ InEndSegment(r.at, w))
        /\ s.attempted \in Nat /\ (s.attempted = 0 <=> attempted = {})
        /\ s.reached \in Nat /\ (s.reached = 0 <=> \A r \in attempted : ~r.tls)
        /\ s.last = {ClassOf(Newest(rs))}
    BY SumsTell, Zenon
  <2> HIDE DEF s, attempted
  <2>1. /\ s.faults \in Nat /\ (s.faults = 0 <=> ~Is("FAULT"))
        /\ s.healthy \in Nat /\ (s.healthy = 0 <=> ~Is("HEALTHY"))
        /\ s.held \in Nat /\ (s.held = 0 <=> ~Is("RETENTION_UNVERIFIED"))
        /\ s.lateHealthy \in Nat /\ (s.lateHealthy = 0 <=> ~late)
        /\ s.attempted \in Nat /\ (s.attempted = 0 <=> ~tried)
        /\ s.reached \in Nat /\ (s.reached = 0 <=> ~reached)
    BY <2>0
  <2> HIDE DEF s, Is, late, tried, reached, pending
  <2>2. s.pending <=> pending
    BY <2>0, Zenon DEF pending
  <2>3. "HEALTHY" \in s.last <=> last
    BY <2>0
  <2> QED
    BY <2>1, <2>2, <2>3
<1>2. (late \/ last => Is("HEALTHY")) /\ (reached => tried)
  BY NewestIsFirst
<1>3. Bucket(rs, w, end) =
        IF pending THEN "pending" ELSE IF Is("FAULT") THEN "broken" ELSE IF last /\ late THEN "served"
        ELSE IF Is("HEALTHY") THEN "end_unobserved" ELSE IF Is("RETENTION_UNVERIFIED") THEN "held_param_unverified"
        ELSE IF reached THEN "unobserved_reachable" ELSE IF tried THEN "unobserved_unreachable"
        ELSE "unobserved_not_probed"
  BY DEF Bucket
<1> HIDE DEF s, Is, pending, late, last, reached, tried
<1>4. ASSUME NEW b \in Buckets PROVE b \in Columns(s) <=> b = Bucket(rs, w, end)
  BY <1>1, <1>2, <1>3 DEF Columns, Buckets
<1>5. Bucket(rs, w, end) \in Buckets
  BY <1>3 DEF Buckets
<1>6. Columns(s) \subseteq Buckets
  BY DEF Columns
<1> QED
  BY <1>4, <1>5, <1>6 DEF s

-----------------------------------------------------------------------------
(* When the readings of a promise are (Schedule): the points are put in    *)
(* order, whatever they are, and no two that are kept are at one time.     *)

LEMMA LeastNat ==
  ASSUME NEW T \in SUBSET Nat, T # {}
  PROVE  \E x \in T : \A y \in T : x <= y
<1>1. PICK x \in T : \A y \in T : ~(<<y, x>> \in OpToRel(<, Nat))
  BY NatLessThanWellFounded, WFMin
<1>2. \A y \in T : ~(y < x)
  BY <1>1 DEF OpToRel
<1> QED
  BY <1>2

(* Points that are told apart by their labels. *)
ArePoints(points) ==
  /\ IsFiniteSet(points)
  /\ \A p \in points : p.at \in Int /\ p.label \in Int
  /\ \A p, q \in points : p.label = q.label => p = q

LEMMA BeforeOrder ==
  ASSUME NEW points, ArePoints(points), NEW p \in points, NEW q \in points, NEW r \in points
  PROVE  /\ ~Before(p, p)
         /\ Before(p, q) /\ Before(q, r) => Before(p, r)
         /\ p # q => Before(p, q) \/ Before(q, p)
  BY DEF ArePoints, Before

(* As many points come before the i-th as should, for every i: no two have *)
(* as many before them, and there are as many places as points.            *)
LEMMA EveryPlaceIsTaken ==
  ASSUME NEW points, ArePoints(points), NEW i \in 1 .. Cardinality(points)
  PROVE  \E p \in points : Cardinality({q \in points : Before(q, p)}) = i - 1
<1> DEFINE n == Cardinality(points)
           before(p) == {q \in points : Before(q, p)}
           rank == [p \in points |-> Cardinality(before(p))]
           places == 0 .. n - 1
<1>1. IsFiniteSet(points) /\ n \in Nat
  BY FS_CardinalityType DEF ArePoints
<1>2. \A p \in points : IsFiniteSet(before(p)) /\ Cardinality(before(p)) \in Nat
  BY <1>1, FS_Subset, FS_CardinalityType
<1>3. ASSUME NEW p \in points PROVE Cardinality(before(p)) \in places
  <2>1. before(p) \subseteq points /\ before(p) # points
    BY BeforeOrder
  <2>2. IsFiniteSet(before(p)) /\ Cardinality(before(p)) \in Nat
    BY <1>2
  <2> HIDE DEF before
  <2>3. Cardinality(before(p)) <= n /\ Cardinality(before(p)) # n
    BY <1>1, <2>1, FS_Subset
  <2> QED
    BY <1>1, <2>2, <2>3
<1>4. ASSUME NEW p \in points, NEW q \in points, Before(p, q)
      PROVE  Cardinality(before(p)) < Cardinality(before(q))
  <2>1. before(p) \subseteq before(q) /\ p \in before(q) /\ p \notin before(p)
    BY <1>4, BeforeOrder
  <2>2. before(p) # before(q)
    BY <2>1
  <2> HIDE DEF before
  <2> QED
    BY <1>2, <2>1, <2>2, FS_Subset
<1> HIDE DEF before
<1>5. \A p, q \in points : Cardinality(before(p)) = Cardinality(before(q)) => p = q
  BY <1>2, <1>4, BeforeOrder
<1>6. rank \in Injection(points, places)
  <2>1. rank \in [points -> places]
    BY <1>3
  <2>2. IsInjective(rank)
    BY <1>5 DEF IsInjective
  <2> QED
    BY <2>1, <2>2 DEF Injection
<1>7. IsFiniteSet(places) /\ Cardinality(places) = n
  <2>1. 0 \in Int /\ n - 1 \in Int
    BY <1>1
  <2>2. IsFiniteSet(0 .. n - 1) /\ Cardinality(0 .. n - 1) = IF 0 > n - 1 THEN 0 ELSE (n - 1) - 0 + 1
    BY <2>1, FS_Interval
  <2> QED
    BY <1>1, <2>2
<1>8. rank \in Surjection(points, places)
  <2> HIDE DEF rank, places
  <2> QED
    BY <1>6, <1>7, FS_Injection
<1>9. \A k \in places : \E p \in points : rank[p] = k
  BY <1>8 DEF Surjection
<1>10. i - 1 \in places
  BY <1>1
<1> QED
  BY <1>9, <1>10 DEF before

LEMMA InOrderIs ==
  ASSUME NEW points, ArePoints(points)
  PROVE  InOrder(points) \in Seq(points) /\ Len(InOrder(points)) = Cardinality(points)
<1>1. Cardinality(points) \in Nat
  BY FS_CardinalityType DEF ArePoints
<1>2. InOrder(points) \in [1 .. Cardinality(points) -> points]
  BY EveryPlaceIsTaken DEF InOrder
<1> QED
  BY <1>1, <1>2

(* Points one after the other. *)
IsSchedule(points) ==
  /\ Len(points) \in Nat
  /\ \A i \in 1 .. Len(points) : points[i].at \in Int
  /\ \A i, j \in 1 .. Len(points) : i < j => points[i].at < points[j].at

(* The points kept, from the first one looked at to the last. *)
Keep(before, point) ==
  IF before # <<>> /\ point.at - Last(before).at < MinSpacing THEN before ELSE Append(before, point)

LEMMA SpacedSteps ==
  ASSUME NEW points, Len(points) \in Nat
  PROVE  \E kept : /\ kept[0] = <<>>
                   /\ \A n \in 1 .. Len(points) : kept[n] = Keep(kept[n - 1], points[n])
                   /\ Spaced(points) = kept[Len(points)]
<1> DEFINE L == Len(points)
           body(kept, n) == IF n = 0 THEN <<>> ELSE Keep(kept[n - 1], points[n])
           T == {m \in 0 .. L : \A f : f # [n \in 0 .. m |-> body(f, n)]}
<1>1. T = {}
  <2> SUFFICES ASSUME T # {} PROVE FALSE
    OBVIOUS
  <2>1. PICK m \in T : \A k \in T : m <= k
    <3>1. T \in SUBSET Nat
      OBVIOUS
    <3> HIDE DEF T
    <3> QED
      BY <3>1, LeastNat
  <2>2. m \in 0 .. L /\ \A f : f # [n \in 0 .. m |-> body(f, n)]
    OBVIOUS
  <2>3. CASE m = 0
    <3> DEFINE f == [n \in 0 .. 0 |-> <<>>]
    <3>1. f = [n \in 0 .. 0 |-> body(f, n)]
      OBVIOUS
    <3> QED
      BY <2>2, <2>3, <3>1
  <2>4. CASE m # 0
    <3>1. m - 1 \in 0 .. L /\ ~(m <= m - 1)
      BY <2>2, <2>4
    <3>2. PICK f : f = [n \in 0 .. m - 1 |-> body(f, n)]
      <4>1. m - 1 \notin T
        <5> HIDE DEF T
        <5> QED
          BY <2>1, <3>1
      <4> HIDE DEF body
      <4> QED
        BY <3>1, <4>1
    <3> DEFINE g == [n \in 0 .. m |-> IF n = m THEN Keep(f[m - 1], points[m]) ELSE f[n]]
    <3>3. \A n \in 0 .. m : g[n] = body(g, n)
      <4>1. g[m] = body(g, m)
        BY <2>2, <2>4
      <4>2. ASSUME NEW n \in 0 .. m - 1 PROVE g[n] = body(g, n)
        <5>1. g[n] = f[n] /\ f[n] = body(f, n)
          BY <2>2, <3>2
        <5>2. n # 0 => g[n - 1] = f[n - 1]
          BY <2>2
        <5> QED
          BY <5>1, <5>2
      <4>3. \A n \in 0 .. m : n = m \/ n \in 0 .. m - 1
        BY <2>2, <2>4
      <4> HIDE DEF g
      <4> QED
        BY <4>1, <4>2, <4>3
    <3>4. g = [n \in 0 .. m |-> body(g, n)]
      <4>1. g = [n \in 0 .. m |-> g[n]]
        OBVIOUS
      <4> HIDE DEF g
      <4> QED
        BY <3>3, <4>1
    <3> QED
      BY <2>2, <3>4
  <2> QED
    BY <2>3, <2>4
<1> DEFINE kept == CHOOSE f : f = [n \in 0 .. L |-> body(f, n)]
<1>2. kept = [n \in 0 .. L |-> body(kept, n)]
  <2>1. L \in 0 .. L
    OBVIOUS
  <2>2. \E f : f = [n \in 0 .. L |-> body(f, n)]
    BY <1>1, <2>1
  <2> QED
    BY <2>2
<1>3. Spaced(points) = kept[L]
  BY DEF Spaced, Keep
<1> HIDE DEF kept
<1>4. kept[0] = <<>> /\ \A n \in 1 .. L : kept[n] = Keep(kept[n - 1], points[n])
  <2>1. \A n \in 0 .. L : kept[n] = body(kept, n)
    BY <1>2
  <2> QED
    BY <2>1
<1> QED
  BY <1>3, <1>4

LEMMA KeptIs ==
  ASSUME NEW S, \A p \in S : p.at \in Int, NEW before \in Seq(S), IsSchedule(before), NEW point \in S
  PROVE  Keep(before, point) \in Seq(S) /\ IsSchedule(Keep(before, point))
<1>1. CASE before # <<>> /\ point.at - Last(before).at < MinSpacing
  BY <1>1 DEF Keep
<1>2. CASE ~(before # <<>> /\ point.at - Last(before).at < MinSpacing)
  <2> DEFINE after == Append(before, point)
             n == Len(before)
  <2>1. Keep(before, point) = after
    BY <1>2 DEF Keep
  <2>2. /\ n \in Nat /\ after \in Seq(S) /\ Len(after) = n + 1
        /\ \A i \in 1 .. n : after[i] = before[i]
        /\ after[n + 1] = point
    BY AppendProperties, LenProperties
  <2>3. point.at \in Int /\ \A i \in 1 .. n : before[i].at \in Int /\ before[i].at < point.at
    <3>1. CASE n = 0
      BY <3>1
    <3>2. CASE n # 0
      <4>1. before # <<>> /\ before[n].at \in Int
        BY <2>2, <3>2 DEF IsSchedule
      <4>2. before[n].at < point.at
        BY <1>2, <4>1 DEF Last, MinSpacing
      <4>3. \A i \in 1 .. n : i = n \/ before[i].at < before[n].at
        BY <2>2, <3>2 DEF IsSchedule
      <4> QED
        BY <2>2, <4>1, <4>2, <4>3 DEF IsSchedule
    <3> QED
      BY <3>1, <3>2
  <2>4. \A i \in 1 .. n + 1 : i = n + 1 \/ i \in 1 .. n
    BY <2>2
  <2> HIDE DEF after, n
  <2>5. \A i, j \in 1 .. n : i < j => before[i].at < before[j].at
    BY DEF IsSchedule, n
  <2>6. ASSUME NEW i \in 1 .. n + 1, NEW j \in 1 .. n + 1, i < j PROVE after[i].at < after[j].at
    <3>1. i \in 1 .. n
      BY <2>2, <2>4, <2>6
    <3> QED
      BY <2>2, <2>3, <2>4, <2>5, <2>6, <3>1
  <2>7. \A i \in 1 .. n + 1 : after[i].at \in Int
    BY <2>2, <2>3, <2>4
  <2> QED
    BY <2>1, <2>2, <2>6, <2>7 DEF IsSchedule
<1> QED
  BY <1>1, <1>2

LEMMA SpacedIs ==
  ASSUME NEW S, \A p \in S : p.at \in Int, NEW points \in Seq(S)
  PROVE  Spaced(points) \in Seq(S) /\ IsSchedule(Spaced(points))
<1> DEFINE L == Len(points)
<1>1. L \in Nat /\ \A n \in 1 .. L : points[n] \in S
  OBVIOUS
<1>2. PICK kept : /\ kept[0] = <<>>
                  /\ \A n \in 1 .. L : kept[n] = Keep(kept[n - 1], points[n])
                  /\ Spaced(points) = kept[L]
  BY <1>1, SpacedSteps
<1> HIDE DEF L
<1> DEFINE right(n) == kept[n] \in Seq(S) /\ IsSchedule(kept[n])
           T == {n \in 0 .. L : ~right(n)}
<1>3. right(0)
  BY <1>2 DEF IsSchedule
<1>4. ASSUME NEW n \in 1 .. L, right(n - 1) PROVE right(n)
  BY <1>1, <1>2, <1>4, KeptIs
<1> HIDE DEF right
<1>5. T = {}
  <2> SUFFICES ASSUME T # {} PROVE FALSE
    OBVIOUS
  <2>1. T \in SUBSET Nat
    OBVIOUS
  <2>2. PICK n \in T : \A k \in T : n <= k
    <3> HIDE DEF T
    <3> QED
      BY <2>1, LeastNat
  <2>3. n \in 0 .. L /\ ~right(n)
    OBVIOUS
  <2>4. n \in 1 .. L /\ n - 1 \in 0 .. L /\ ~(n <= n - 1)
    BY <1>1, <1>3, <2>3
  <2>5. right(n - 1)
    BY <2>2, <2>4
  <2> QED
    BY <1>4, <2>3, <2>4, <2>5
<1>6. right(L)
  BY <1>1, <1>5
<1> QED
  BY <1>2, <1>6 DEF right

LEMMA PositionIsInt ==
  ASSUME NEW w \in Windows, NEW i \in InWindowFractions(Fractions)
  PROVE  Position(w, Fractions, i) \in Int /\ i \in 1 .. Len(Fractions)
<1>1. i \in 1 .. Len(Fractions) /\ Fractions[i] \in Int
  BY ObligationAssumption DEF InWindowFractions
<1>2. w.settled \in Int /\ w.mustServeUntil \in Int /\ w.timeout \in Int /\ w.retention \in Int
  BY ObligationAssumption
<1>3. Start(w) \in Int
  BY <1>2 DEF Start, FallbackSpan
<1>4. \A a, b \in Int : a * b \in Int /\ a \div 100 \in Int
  OBVIOUS
<1>5. (w.mustServeUntil - Start(w)) * Fractions[i] \in Int
  BY <1>1, <1>2, <1>3, <1>4
<1>6. Start(w) + ((w.mustServeUntil - Start(w)) * Fractions[i]) \div 100 \in Int
  BY <1>3, <1>4, <1>5
<1> QED
  BY <1>1, <1>2, <1>6 DEF Position, LastPointMargin

LEMMA PointsAreTold ==
  ASSUME NEW w \in Windows
  PROVE  ArePoints(InWindowPoints(w, Fractions) \cup PointsPastWindow(w))
<1> DEFINE inside == InWindowPoints(w, Fractions)
           past == PointsPastWindow(w)
           F == InWindowFractions(Fractions)
           place == [i \in F |-> [at |-> Position(w, Fractions, i), phase |-> "in_window", label |-> i]]
<1>1. Len(Fractions) \in Nat /\ Len(Fractions) < 100 /\ w.mustServeUntil \in Int
  BY ObligationAssumption
<1>2. IsFiniteSet(F)
  <2>1. IsFiniteSet(1 .. Len(Fractions))
    BY <1>1, FS_Interval
  <2>2. F \subseteq 1 .. Len(Fractions)
    BY PositionIsInt
  <2> QED
    BY <2>1, <2>2, FS_Subset
<1>3. IsFiniteSet(inside)
  <2>1. place \in Surjection(F, inside)
    BY DEF Surjection, InWindowPoints
  <2> HIDE DEF place, F, inside
  <2> QED
    BY <1>2, <2>1, FS_Surjection
<1>4. IsFiniteSet(past)
  <2>1. ASSUME NEW a, NEW b PROVE IsFiniteSet({a, b})
    <3>1. IsFiniteSet({a})
      BY FS_Singleton
    <3>2. IsFiniteSet({a} \cup {b}) /\ {a} \cup {b} = {a, b}
      BY <3>1, FS_AddElement
    <3> QED
      BY <3>2, Zenon
  <2> QED
    BY <2>1 DEF PointsPastWindow
<1>5. \A p \in inside : p.at \in Int /\ p.label \in 1 .. Len(Fractions)
  BY PositionIsInt DEF InWindowPoints
<1>6. \A p, q \in inside : p.label = q.label => p = q
  BY DEF InWindowPoints
<1>7. \A p \in past : p.at \in Int /\ p.label \in {100, 101}
  BY <1>1 DEF PointsPastWindow, GraceOffset, PruneTolerance, PostMargin
<1>8. \A p, q \in past : p.label = q.label => p = q
  BY DEF PointsPastWindow
<1>9. IsFiniteSet(inside \cup past)
  BY <1>3, <1>4, FS_Union
<1> HIDE DEF inside, past
<1>10. \A p \in inside, q \in past : p.label # q.label
  BY <1>1, <1>5, <1>7
<1>11. \A p \in inside \cup past : p.at \in Int /\ p.label \in Int
  BY <1>1, <1>5, <1>7
<1>12. \A p, q \in inside \cup past : p.label = q.label => p = q
  BY <1>6, <1>8, <1>10
<1> QED
  BY <1>9, <1>11, <1>12 DEF ArePoints, inside, past

(* The schedule goes forward, through points. *)
LEMMA ScheduleIs ==
  ASSUME NEW w \in Windows
  PROVE  /\ IsSchedule(ScheduleOf[w])
         /\ \A i \in 1 .. Len(ScheduleOf[w]) : ScheduleOf[w][i] \in InWindowPoints(w, Fractions) \cup PointsPastWindow(w)
<1> DEFINE points == InWindowPoints(w, Fractions) \cup PointsPastWindow(w)
           all == ScheduleFor(w, Fractions)
           inside == {i \in DOMAIN all : all[i].phase = "in_window"}
           m == Cardinality(inside)
<1>1. ArePoints(points)
  BY PointsAreTold
<1>2. all \in Seq(points) /\ IsSchedule(all)
  <2>1. InOrder(points) \in Seq(points) /\ \A p \in points : p.at \in Int
    BY <1>1, InOrderIs DEF ArePoints
  <2> HIDE DEF points
  <2>2. Spaced(InOrder(points)) \in Seq(points) /\ IsSchedule(Spaced(InOrder(points)))
    BY <2>1, SpacedIs
  <2> QED
    BY <2>2 DEF ScheduleFor, points
<1> HIDE DEF points, all
<1>3. Len(all) \in Nat /\ DOMAIN all = 1 .. Len(all)
  BY <1>2
<1>4. m \in 0 .. Len(all)
  <2>1. IsFiniteSet(1 .. Len(all)) /\ Cardinality(1 .. Len(all)) = Len(all)
    <3>1. 1 \in Int /\ Len(all) \in Int
      BY <1>3
    <3>2. IsFiniteSet(1 .. Len(all)) /\ Cardinality(1 .. Len(all)) = IF 1 > Len(all) THEN 0 ELSE Len(all) - 1 + 1
      BY <3>1, FS_Interval
    <3> QED
      BY <1>3, <3>2
  <2>2. inside \subseteq 1 .. Len(all)
    BY <1>3
  <2> HIDE DEF inside
  <2>3. IsFiniteSet(inside) /\ Cardinality(inside) <= Len(all)
    BY <2>1, <2>2, FS_Subset
  <2>4. Cardinality(inside) \in Nat
    BY <2>3, FS_CardinalityType
  <2> QED
    BY <1>3, <2>3, <2>4
<1>5. ScheduleOf[w] = SubSeq(all, 1, m)
  BY DEF ScheduleOf, all
<1> HIDE DEF m
<1>6. \A i \in 1 .. m : all[i] \in points
  BY <1>2, <1>4
<1>7. Len(SubSeq(all, 1, m)) = m /\ \A i \in 1 .. m : SubSeq(all, 1, m)[i] = all[i]
  <2>1. 1 \in Int /\ m \in Int
    BY <1>4
  <2>2. /\ Len(SubSeq(all, 1, m)) = IF 1 <= m THEN m - 1 + 1 ELSE 0
        /\ \A i \in 1 .. m - 1 + 1 : SubSeq(all, 1, m)[i] = all[1 + i - 1]
    BY <1>6, <2>1, SubSeqProperties
  <2>3. m - 1 + 1 = m /\ \A i \in 1 .. m : 1 + i - 1 = i
    BY <1>4
  <2> QED
    BY <1>4, <2>2, <2>3
<1>8. \A i \in 1 .. m : i \in 1 .. Len(all)
  BY <1>3, <1>4
<1>9. IsSchedule(ScheduleOf[w])
  BY <1>2, <1>4, <1>5, <1>7, <1>8 DEF IsSchedule
<1> QED
  BY <1>5, <1>6, <1>7, <1>9 DEF points

(* A validator is read at a time once, and later each time. *)
LEMMA ScheduleGoesOn ==
  ASSUME NEW w \in Windows
  PROVE  IsSchedule(ScheduleOf[w])
<1> QED
  BY ScheduleIs

-----------------------------------------------------------------------------
(* The rows of a promise (Obligation): those of a validator are the first  *)
(* readings of the schedule, one row each, and are withheld together.      *)

ReadingRow ==
  [validator : Validators, at : Int, started : Int, phase : Phases, assigned : {TRUE}, attested : {TRUE},
   outcome : Outcomes, tls : BOOLEAN, held : BOOLEAN, class : Classes]

ObligationType ==
  /\ pub \in Windows /\ withheld \in BOOLEAN
  /\ readings \subseteq ReadingRow /\ IsFiniteSet(readings)

WithheldTogether == \A r \in readings : r.held = withheld

ReadInOrder ==
  /\ \A v \in Validators : RowsRead(v) <= Len(ScheduleOf[pub])
  /\ \A r \in readings : \E i \in 1 .. RowsRead(r.validator) : r.at = ScheduleOf[pub][i].at
  /\ \A r, q \in readings : r.validator = q.validator /\ r.at = q.at => r = q

ObligationInv == ObligationType /\ WithheldTogether /\ ReadInOrder

LEMMA RowsReadIsNat ==
  ASSUME IsFiniteSet(readings), NEW v
  PROVE  RowsRead(v) \in Nat
<1>1. IsFiniteSet({r \in readings : r.validator = v})
  BY FS_Subset
<1> QED
  BY <1>1, FS_CardinalityType DEF RowsRead

LEMMA InitObligation == ObligationInit => ObligationInv
<1> SUFFICES ASSUME ObligationInit PROVE ObligationInv
  OBVIOUS
<1>1. pub \in Windows /\ readings = {} /\ withheld = FALSE
  BY DEF ObligationInit
<1>2. IsFiniteSet({}) /\ Cardinality({}) = 0
  BY FS_EmptySet
<1>3. \A v : RowsRead(v) = 0
  BY <1>1, <1>2 DEF RowsRead
<1>4. Len(ScheduleOf[pub]) \in Nat
  BY <1>1, ScheduleGoesOn DEF IsSchedule
<1>5. ObligationType
  BY <1>1, <1>2 DEF ObligationType
<1>6. WithheldTogether
  BY <1>1 DEF WithheldTogether
<1>7. ReadInOrder
  BY <1>1, <1>3, <1>4 DEF ReadInOrder
<1> QED
  BY <1>5, <1>6, <1>7 DEF ObligationInv

LEMMA RowOfIsAReading ==
  ASSUME ObligationInv, NEW v \in Validators, NEW point, point.at \in Int,
         NEW outcome \in {"SERVED_OK", "NOT_FOUND", "TCP_TIMEOUT", "SERVER_ERROR", "MISSED"}, NEW tls \in BOOLEAN
  PROVE  LET row == RowOf(v, point, [outcome |-> outcome, tls |-> tls])
         IN  row \in ReadingRow /\ row.validator = v /\ row.at = point.at /\ row.held = withheld
<1> DEFINE phase == PhaseAtWindow(point.at + Lateness, pub.mustServeUntil, PruneTolerance)
           e == [assigned |-> TRUE, attested |-> TRUE, unknown |-> FALSE, phase |-> phase,
                 outcome |-> outcome, verified |-> FALSE, shadowed |-> FALSE, uncertain |-> FALSE,
                 stale |-> FALSE, pinStale |-> FALSE]
<1>1. phase \in Phases /\ point.at + Lateness \in Int
  BY ObligationAssumption DEF PhaseAtWindow, Phases
<1>2. Classify(e) \in Classes
  <2>1. /\ e.outcome = outcome /\ e.assigned = TRUE /\ e.attested = TRUE /\ e.pinStale = FALSE
        /\ e.verified = FALSE /\ e.stale = FALSE
    OBVIOUS
  <2> HIDE DEF e
  <2>2. ObserverSide(e) \in Classes \cup {NoClass}
    BY DEF ObserverSide, Classes
  <2>3. OfEndpoint(e) \in Classes \cup {NoClass}
    BY DEF OfEndpoint, Classes
  <2>4. OfObligation(e) \in Classes \cup {NoClass}
    BY <2>1 DEF OfObligation, Unassigned, Classes
  <2>5. OfPhase(e) \in Classes
    BY DEF OfPhase, InWindow, InGrace, AfterWindow, BeforePrune, Classes
  <2> QED
    BY <2>2, <2>3, <2>4, <2>5 DEF Classify
<1>3. outcome \in Outcomes /\ withheld \in BOOLEAN
  BY DEF Outcomes, ObligationInv, ObligationType
<1>4. RowOf(v, point, [outcome |-> outcome, tls |-> tls]) =
        [validator |-> v, at |-> point.at, started |-> point.at + Lateness, phase |-> phase, assigned |-> TRUE,
         attested |-> TRUE, outcome |-> outcome, tls |-> tls, held |-> withheld, class |-> Classify(e)]
  BY DEF RowOf
<1> DEFINE class == Classify(e)
           started == point.at + Lateness
<1> HIDE DEF phase, e, class, started
<1>5. ASSUME NEW h \in BOOLEAN, NEW row,
             row = [validator |-> v, at |-> point.at, started |-> started, phase |-> phase, assigned |-> TRUE,
                    attested |-> TRUE, outcome |-> outcome, tls |-> tls, held |-> h, class |-> class]
      PROVE  row \in ReadingRow /\ row.validator = v /\ row.at = point.at /\ row.held = h
  <2>1. started \in Int /\ class \in Classes
    BY <1>1, <1>2 DEF started, class
  <2> QED
    BY <1>1, <1>3, <1>5, <2>1 DEF ReadingRow
<1> QED
  BY <1>3, <1>4, <1>5 DEF class, started

(* What a reading comes back with, however it goes. *)
LEMMA ReadAdds ==
  ASSUME ObligationInv, NEW v \in Validators, Read(v)
  PROVE  /\ RowsRead(v) + 1 \in 1 .. Len(ScheduleOf[pub])
         /\ \E row \in ReadingRow : /\ readings' = readings \cup {row}
                                    /\ row.validator = v /\ row.held = withheld
                                    /\ row.at = ScheduleOf[pub][RowsRead(v) + 1].at
<1> DEFINE n == RowsRead(v) + 1
           point == ScheduleOf[pub][n]
<1>1. RowsRead(v) \in Nat /\ pub \in Windows
  BY RowsReadIsNat DEF ObligationInv, ObligationType
<1>2. IsSchedule(ScheduleOf[pub])
  BY <1>1, ScheduleGoesOn
<1>3. n \in 1 .. Len(ScheduleOf[pub])
  BY <1>1, <1>2 DEF Read, IsSchedule
<1>4. point.at \in Int
  BY <1>2, <1>3 DEF IsSchedule
<1>5. \/ readings' = readings \cup {RowOf(v, point, Reply(v, point))}
      \/ \E seen \in Silences : readings' = readings \cup {RowOf(v, point, seen)}
  BY DEF Read
<1> HIDE DEF n, point
<1>6. ASSUME NEW seen, seen \in Silences \/ seen = Reply(v, point)
      PROVE  \E outcome \in {"SERVED_OK", "NOT_FOUND", "TCP_TIMEOUT", "SERVER_ERROR", "MISSED"}, tls \in BOOLEAN :
               seen = [outcome |-> outcome, tls |-> tls]
  BY <1>6 DEF Silences, Reply
<1>7. ASSUME NEW seen, seen \in Silences \/ seen = Reply(v, point)
      PROVE  /\ RowOf(v, point, seen) \in ReadingRow /\ RowOf(v, point, seen).validator = v
             /\ RowOf(v, point, seen).held = withheld /\ RowOf(v, point, seen).at = point.at
  BY <1>4, <1>6, <1>7, RowOfIsAReading
<1>8. \E seen : (seen \in Silences \/ seen = Reply(v, point)) /\ readings' = readings \cup {RowOf(v, point, seen)}
  BY <1>5
<1> QED
  BY <1>3, <1>7, <1>8 DEF n, point

LEMMA ReadInv == ASSUME NEW v \in Validators PROVE ObligationInv /\ Read(v) => ObligationInv'
<1> SUFFICES ASSUME ObligationInv, Read(v) PROVE ObligationInv'
  OBVIOUS
<1> DEFINE S == ScheduleOf[pub]
           n == RowsRead(v) + 1
<1>1. n \in 1 .. Len(S)
  BY ReadAdds
<1>2. PICK row \in ReadingRow : /\ readings' = readings \cup {row}
                                /\ row.validator = v /\ row.held = withheld /\ row.at = S[n].at
  BY ReadAdds
<1>3. /\ pub' = pub /\ withheld' = withheld /\ pub \in Windows /\ withheld \in BOOLEAN
      /\ readings \subseteq ReadingRow /\ IsFiniteSet(readings)
  BY DEF Read, ObligationInv, ObligationType
<1>4. IsSchedule(S)
  BY <1>3, ScheduleGoesOn
<1>5. ScheduleOf[pub'] = S
  BY <1>3
<1> HIDE DEF S
<1>6. \A u \in Validators : RowsRead(u) \in Nat /\ RowsRead(u) <= Len(S)
  BY <1>3, RowsReadIsNat DEF ObligationInv, ReadInOrder, S
<1>7. \A r \in readings : \E i \in 1 .. RowsRead(r.validator) : r.at = S[i].at
  BY DEF ObligationInv, ReadInOrder, S
<1>8. \A r, q \in readings : r.validator = q.validator /\ r.at = q.at => r = q
  BY DEF ObligationInv, ReadInOrder
<1>9. \A r \in readings : r.validator \in Validators
  BY <1>3 DEF ReadingRow
<1>10. \A r \in readings : r.validator = v => r.at # row.at
  <2> SUFFICES ASSUME NEW r \in readings, r.validator = v PROVE r.at # row.at
    OBVIOUS
  <2>1. PICK i \in 1 .. RowsRead(v) : r.at = S[i].at
    BY <1>7
  <2>2. i \in 1 .. Len(S) /\ i < n
    BY <1>1, <1>6
  <2>3. S[i].at < S[n].at /\ S[i].at \in Int /\ S[n].at \in Int
    BY <1>1, <1>4, <2>2 DEF IsSchedule
  <2> QED
    BY <1>2, <2>1, <2>3
<1>11. row \notin readings
  BY <1>2, <1>10
<1>12. RowsRead(v)' = n
  <2> DEFINE mine == {r \in readings : r.validator = v}
  <2>1. IsFiniteSet(mine) /\ row \notin mine
    BY <1>3, <1>11, FS_Subset
  <2>2. {r \in readings' : r.validator = v} = mine \cup {row}
    BY <1>2
  <2>3. Cardinality(mine \cup {row}) = Cardinality(mine) + 1
    <3> HIDE DEF mine
    <3> QED
      BY <2>1, FS_AddElement
  <2> QED
    BY <2>2, <2>3 DEF RowsRead
<1>13. \A u \in Validators : u # v => RowsRead(u)' = RowsRead(u)
  <2> SUFFICES ASSUME NEW u \in Validators, u # v PROVE RowsRead(u)' = RowsRead(u)
    OBVIOUS
  <2>1. {r \in readings' : r.validator = u} = {r \in readings : r.validator = u}
    BY <1>2
  <2> QED
    BY <2>1 DEF RowsRead
<1>14. ObligationType'
  <2>1. IsFiniteSet(readings')
    BY <1>2, <1>3, FS_AddElement
  <2> QED
    BY <1>2, <1>3, <2>1 DEF ObligationType
<1>15. WithheldTogether'
  <2>1. \A r \in readings : r.held = withheld
    BY DEF ObligationInv, WithheldTogether
  <2> QED
    BY <1>2, <1>3, <2>1 DEF WithheldTogether
<1>16. ReadInOrder'
  <2>1. \A u \in Validators : RowsRead(u)' <= Len(S)
    BY <1>1, <1>6, <1>12, <1>13
  <2>2. ASSUME NEW r \in readings' PROVE \E i \in 1 .. RowsRead(r.validator)' : r.at = S[i].at
    <3>1. CASE r = row
      <4>1. r.validator = v /\ r.at = S[n].at /\ n \in 1 .. n
        BY <1>1, <1>2, <3>1
      <4> QED
        BY <1>12, <4>1
    <3>2. CASE r \in readings
      <4>1. PICK i \in 1 .. RowsRead(r.validator) : r.at = S[i].at
        BY <1>7, <3>2
      <4>2. r.validator \in Validators
        BY <1>9, <3>2
      <4>3. i \in 1 .. RowsRead(r.validator)'
        <5>1. CASE r.validator = v
          BY <1>6, <1>12, <4>2, <5>1
        <5>2. CASE r.validator # v
          BY <1>13, <4>2, <5>2
        <5> QED
          BY <5>1, <5>2
      <4> QED
        BY <4>1, <4>3
    <3> QED
      BY <1>2, <3>1, <3>2
  <2>3. \A r, q \in readings' : r.validator = q.validator /\ r.at = q.at => r = q
    BY <1>2, <1>8, <1>10
  <2> QED
    BY <1>5, <2>1, <2>2, <2>3 DEF ReadInOrder
<1> QED
  BY <1>14, <1>15, <1>16 DEF ObligationInv

LEMMA HoldOrLiftInv == ObligationInv /\ HoldOrLift => ObligationInv'
<1> SUFFICES ASSUME ObligationInv, HoldOrLift PROVE ObligationInv'
  OBVIOUS
<1> DEFINE turned == [r \in readings |-> [r EXCEPT !.held = ~withheld]]
<1>1. /\ pub' = pub /\ pub \in Windows /\ withheld \in BOOLEAN /\ withheld' \in BOOLEAN /\ withheld' = ~withheld
      /\ readings \subseteq ReadingRow /\ IsFiniteSet(readings)
  BY DEF HoldOrLift, ObligationInv, ObligationType
<1>2. ASSUME NEW r \in readings
      PROVE  /\ turned[r] \in ReadingRow /\ turned[r].validator = r.validator /\ turned[r].at = r.at
             /\ turned[r].held = withheld'
  <2>1. r \in ReadingRow
    BY <1>1
  <2>2. ASSUME NEW h \in BOOLEAN
        PROVE  LET q == [r EXCEPT !.held = h]
               IN  q \in ReadingRow /\ q.validator = r.validator /\ q.at = r.at /\ q.held = h
    BY <2>1 DEF ReadingRow
  <2>3. turned[r] = [r EXCEPT !.held = withheld']
    BY <1>1
  <2> HIDE DEF turned
  <2> QED
    BY <1>1, <2>2, <2>3
<1>3. readings' = {turned[r] : r \in readings}
  BY DEF HoldOrLift
<1> HIDE DEF turned
<1>4. \A r, q \in readings : r.validator = q.validator /\ r.at = q.at => r = q
  BY DEF ObligationInv, ReadInOrder
<1>5. \A r, q \in readings : turned[r] = turned[q] => r = q
  BY <1>2, <1>4
<1>6. ASSUME NEW v PROVE RowsRead(v)' = RowsRead(v) /\ IsFiniteSet(readings')
  <2>1. ASSUME NEW rs \in SUBSET readings
        PROVE  LET image == {turned[r] : r \in rs} IN IsFiniteSet(image) /\ Cardinality(image) = Cardinality(rs)
    <3> DEFINE image == {turned[r] : r \in rs}
               f == [r \in rs |-> turned[r]]
    <3>1. IsFiniteSet(rs)
      BY <1>1, FS_Subset
    <3>2. f \in [rs -> image] /\ (\A y \in image : \E r \in rs : f[r] = y) /\ \A r, q \in rs : f[r] = f[q] => r = q
      BY <1>5
    <3>3. f \in Bijection(rs, image)
      <4> HIDE DEF f, image
      <4>1. DOMAIN f = rs
        BY <3>2
      <4> QED
        BY <3>2, <4>1 DEF Bijection, Injection, Surjection, IsInjective
    <3> HIDE DEF f, image
    <3>4. ExistsBijection(rs, image)
      BY <3>3 DEF ExistsBijection
    <3>5. IsFiniteSet(image) /\ Cardinality(image) = Cardinality(rs)
      BY <3>1, <3>4, FS_Bijection
    <3> QED
      BY <3>5 DEF image
  <2> DEFINE mine == {r \in readings : r.validator = v}
  <2>2. {r \in readings' : r.validator = v} = {turned[r] : r \in mine}
    BY <1>2, <1>3
  <2>3. mine \in SUBSET readings /\ readings \in SUBSET readings
    OBVIOUS
  <2> HIDE DEF mine
  <2>4. Cardinality({turned[r] : r \in mine}) = Cardinality(mine) /\ IsFiniteSet({turned[r] : r \in readings})
    BY <2>1, <2>3, Zenon
  <2> QED
    BY <1>3, <2>2, <2>4 DEF RowsRead, mine
<1>7. ObligationType'
  BY <1>1, <1>2, <1>3, <1>6 DEF ObligationType
<1>8. WithheldTogether'
  BY <1>2, <1>3 DEF WithheldTogether
<1>9. ReadInOrder'
  <2>1. \A v \in Validators : RowsRead(v)' <= Len(ScheduleOf[pub'])
    BY <1>1, <1>6 DEF ObligationInv, ReadInOrder
  <2>2. ASSUME NEW r \in readings' PROVE \E i \in 1 .. RowsRead(r.validator)' : r.at = ScheduleOf[pub'][i].at
    <3>1. PICK q \in readings : r = turned[q]
      BY <1>3
    <3>2. r.validator = q.validator /\ r.at = q.at
      BY <1>2, <3>1
    <3>3. \E i \in 1 .. RowsRead(q.validator) : q.at = ScheduleOf[pub][i].at
      BY DEF ObligationInv, ReadInOrder
    <3> QED
      BY <1>1, <1>6, <3>2, <3>3
  <2>3. \A r, q \in readings' : r.validator = q.validator /\ r.at = q.at => r = q
    BY <1>2, <1>3, <1>4
  <2> QED
    BY <2>1, <2>2, <2>3 DEF ReadInOrder
<1> QED
  BY <1>7, <1>8, <1>9 DEF ObligationInv

LEMMA NextObligation == ObligationInv /\ [ObligationNext]_obligationVars => ObligationInv'
<1> SUFFICES ASSUME ObligationInv, [ObligationNext]_obligationVars PROVE ObligationInv'
  OBVIOUS
<1>1. CASE HoldOrLift
  BY <1>1, HoldOrLiftInv
<1>2. CASE \E v \in Validators : Read(v)
  BY <1>2, ReadInv
<1>3. CASE UNCHANGED obligationVars
  BY <1>3 DEF obligationVars, ObligationInv, ObligationType, WithheldTogether, ReadInOrder, RowsRead
<1> QED
  BY <1>1, <1>2, <1>3 DEF ObligationNext

(* The rows of a promise stay those of the schedule, in its order, one of  *)
(* a validator at a time, and withheld together or not at all.             *)
THEOREM ObligationInvariant == ObligationSpec => []ObligationInv
<1> QED
  BY InitObligation, NextObligation, PTL DEF ObligationSpec

(* The recomputation in Go and the columns of the SQL put every obligation *)
(* of every promise in one bucket, and in the same one, however many       *)
(* validators signed, whatever the schedule, and whichever readings failed *)
(* (rollup.go, ObligationSums; verdict.go, Build).                         *)
THEOREM TwinsAgreeAlways == ObligationSpec => []TwinsAgree
<1>1. ObligationInv => TwinsAgree
  <2> SUFFICES ASSUME ObligationInv, NEW v \in Validators, NEW end \in {pub.mustServeUntil - 1, pub.mustServeUntil}
               PROVE  LET before == {r \in Of(InFigures(readings), v) : r.started <= end}
                      IN  before # {} => Columns(Sums(before, pub, end)) = {Bucket(before, pub, end)}
    BY DEF TwinsAgree
  <2> DEFINE before == {r \in Of(InFigures(readings), v) : r.started <= end}
  <2>1. /\ readings \subseteq ReadingRow /\ IsFiniteSet(readings)
        /\ \A r, q \in readings : r.validator = q.validator /\ r.at = q.at => r = q
    BY DEF ObligationInv, ObligationType, ReadInOrder
  <2>2. before \subseteq readings /\ \A r \in before : r.validator = v
    BY DEF Of, InFigures, Counted, Judged
  <2>3. IsFiniteSet(before)
    BY <2>1, <2>2, FS_Subset
  <2> HIDE DEF before
  <2>4. \A r \in before : r.at \in Int /\ r.started \in Int
    BY <2>1, <2>2 DEF ReadingRow
  <2>5. Readings(before)
    BY <2>1, <2>2, <2>3, <2>4 DEF Readings
  <2>6. before # {} => Columns(Sums(before, pub, end)) = {Bucket(before, pub, end)}
    BY <2>5, TwinsAgreeOn, Zenon
  <2> QED
    BY <2>6, Zenon DEF before
<1> QED
  BY <1>1, ObligationInvariant, PTL

-----------------------------------------------------------------------------
(* What a row that was served says of the shard, and when it was read.     *)

(* A row was read at a point, is in the phase of its start, and is HEALTHY *)
(* only if the shard was still there.                                      *)
SeenAtPoint(r) ==
  /\ \E p \in InWindowPoints(pub, Fractions) \cup PointsPastWindow(pub) : r.at = p.at
  /\ r.phase = PhaseAtWindow(r.at + Lateness, pub.mustServeUntil, PruneTolerance)
  /\ r.class = "HEALTHY" => r.at + Lateness < gone[r.validator]

SeenInv ==
  /\ gone \in [Validators -> Int]
  /\ \A r \in readings : SeenAtPoint(r)

LEMMA InitSeen == ObligationInit => SeenInv
<1> SUFFICES ASSUME ObligationInit PROVE SeenInv
  OBVIOUS
<1>1. pub \in Windows /\ readings = {} /\ pub.mustServeUntil \in Int /\ Lateness \in Int
  BY ObligationAssumption DEF ObligationInit
<1>2. \A p \in InWindowPoints(pub, Fractions) : p.at \in Int
  BY <1>1, PositionIsInt DEF InWindowPoints
<1>3. {p.at + Lateness + 1 : p \in InWindowPoints(pub, Fractions)} \cup {pub.mustServeUntil} \subseteq Int
  BY <1>1, <1>2
<1> QED
  BY <1>1, <1>3 DEF ObligationInit, SeenInv

(* Only rows that came back and verified are called HEALTHY. *)
LEMMA HealthyMeans ==
  ASSUME NEW e, Classify(e) = "HEALTHY"
  PROVE  e.outcome = "SERVED_OK"
<1>1. ObserverSide(e) # "HEALTHY" /\ OfEndpoint(e) # "HEALTHY"
  BY DEF ObserverSide, OfEndpoint, NoClass
<1>2. OfObligation(e) # "HEALTHY"
  BY DEF OfObligation, Unassigned, NoClass
<1>3. OfPhase(e) = "HEALTHY"
  BY <1>1, <1>2 DEF Classify
<1> QED
  BY <1>3 DEF OfPhase, InWindow, InGrace, AfterWindow, BeforePrune

LEMMA RowOfIsSeen ==
  ASSUME NEW v \in Validators, NEW point \in InWindowPoints(pub, Fractions) \cup PointsPastWindow(pub),
         NEW seen, seen \in Silences \/ seen = Reply(v, point)
  PROVE  SeenAtPoint(RowOf(v, point, seen))
<1> DEFINE row == RowOf(v, point, seen)
<1>1. /\ row.at = point.at /\ row.validator = v
      /\ row.phase = PhaseAtWindow(point.at + Lateness, pub.mustServeUntil, PruneTolerance)
  BY DEF RowOf
<1>2. row.class = "HEALTHY" => seen.outcome = "SERVED_OK"
  <2> DEFINE e == [assigned |-> TRUE, attested |-> TRUE, unknown |-> FALSE, phase |-> row.phase,
                   outcome |-> seen.outcome, verified |-> FALSE, shadowed |-> FALSE, uncertain |-> FALSE,
                   stale |-> FALSE, pinStale |-> FALSE]
  <2>1. row.class = Classify(e)
    BY DEF RowOf
  <2>2. e.outcome = seen.outcome
    OBVIOUS
  <2> HIDE DEF e, row
  <2> QED
    BY <2>1, <2>2, HealthyMeans
<1>3. seen.outcome = "SERVED_OK" => point.at + Lateness < gone[v]
  BY DEF Silences, Reply
<1> HIDE DEF row
<1> QED
  BY <1>1, <1>2, <1>3 DEF SeenAtPoint, row

LEMMA NextSeen == ObligationInv /\ SeenInv /\ [ObligationNext]_obligationVars => SeenInv'
<1> SUFFICES ASSUME ObligationInv, SeenInv, [ObligationNext]_obligationVars PROVE SeenInv'
  OBVIOUS
<1>1. pub' = pub /\ gone' = gone /\ gone \in [Validators -> Int] /\ \A r \in readings : SeenAtPoint(r)
  BY DEF SeenInv, ObligationNext, HoldOrLift, Read, obligationVars
<1>2. ASSUME NEW r, SeenAtPoint(r) PROVE SeenAtPoint(r)'
  BY <1>1, <1>2 DEF SeenAtPoint
<1>3. CASE HoldOrLift
  <2>1. readings \subseteq ReadingRow
    BY DEF ObligationInv, ObligationType
  <2>2. readings' = {[r EXCEPT !.held = ~withheld] : r \in readings}
    BY <1>3 DEF HoldOrLift
  <2>3. ASSUME NEW r \in readings
        PROVE  SeenAtPoint([r EXCEPT !.held = ~withheld])
    <3>1. SeenAtPoint(r) /\ r \in ReadingRow
      BY <1>1, <2>1
    <3>2. LET q == [r EXCEPT !.held = ~withheld]
          IN  q.at = r.at /\ q.phase = r.phase /\ q.class = r.class /\ q.validator = r.validator
      BY <3>1 DEF ReadingRow
    <3> QED
      BY <3>1, <3>2 DEF SeenAtPoint
  <2>4. \A q \in readings' : SeenAtPoint(q)
    BY <2>2, <2>3
  <2>5. \A q \in readings' : SeenAtPoint(q)'
    BY <1>2, <2>4
  <2> QED
    BY <1>1, <2>5 DEF SeenInv
<1>4. ASSUME NEW v \in Validators, Read(v) PROVE SeenInv'
  <2> DEFINE point == ScheduleOf[pub][RowsRead(v) + 1]
  <2>1. pub \in Windows /\ RowsRead(v) + 1 \in 1 .. Len(ScheduleOf[pub])
    BY <1>4, ReadAdds DEF ObligationInv, ObligationType
  <2>2. point \in InWindowPoints(pub, Fractions) \cup PointsPastWindow(pub)
    BY <2>1, ScheduleIs
  <2>3. \/ readings' = readings \cup {RowOf(v, point, Reply(v, point))}
        \/ \E seen \in Silences : readings' = readings \cup {RowOf(v, point, seen)}
    BY <1>4 DEF Read
  <2> HIDE DEF point
  <2>4. \A q \in readings' : SeenAtPoint(q)
    BY <1>1, <2>2, <2>3, RowOfIsSeen
  <2>5. \A q \in readings' : SeenAtPoint(q)'
    BY <1>2, <2>4
  <2> QED
    BY <1>1, <2>5 DEF SeenInv
<1>5. CASE UNCHANGED obligationVars
  <2>1. readings' = readings
    BY <1>5 DEF obligationVars
  <2> QED
    BY <1>1, <1>2, <2>1 DEF SeenInv
<1> QED
  BY <1>3, <1>4, <1>5 DEF ObligationNext

(* Every reading but the last comes before the end segment.                *)
OnlyTheLastIsLate ==
  \A i \in InWindowFractions(Fractions) : Fractions[i] < 75 \/ IsLastFraction(Fractions, i)

(* A reading in the window and its end segment is the last, at its margin. *)
LEMMA LateIsLast ==
  ASSUME OnlyTheLastIsLate, NEW w \in Windows, NEW p \in InWindowPoints(w, Fractions) \cup PointsPastWindow(w),
         PhaseAtWindow(p.at + Lateness, w.mustServeUntil, PruneTolerance) = "in_window",
         InEndSegment(p.at, w)
  PROVE  p.at >= w.mustServeUntil - LastPointMargin
<1> DEFINE D == w.mustServeUntil
           S == w.settled
<1>1. D \in Int /\ S \in Int /\ Lateness \in Nat
  BY ObligationAssumption
<1>2. p.at \in Int
  BY <1>1, PositionIsInt DEF InWindowPoints, PointsPastWindow, GraceOffset, PruneTolerance, PostMargin
<1>3. p.at + Lateness < D /\ p.at < D
  BY <1>1, <1>2 DEF PhaseAtWindow
<1>4. 4 * (D - p.at) <= D - S
  BY DEF InEndSegment, EndSegmentDivisor
<1>5. S < D
  BY <1>1, <1>2, <1>3, <1>4
<1>6. p \notin PointsPastWindow(w)
  BY <1>1, <1>3 DEF PointsPastWindow, GraceOffset, PruneTolerance, PostMargin
<1>7. PICK i \in InWindowFractions(Fractions) : p.at = Position(w, Fractions, i)
  BY <1>6 DEF InWindowPoints
<1>8. CASE IsLastFraction(Fractions, i)
  <2> DEFINE plain == Start(w) + ((D - Start(w)) * Fractions[i]) \div 100
  <2>1. p.at = IF plain < D - LastPointMargin THEN D - LastPointMargin ELSE plain
    BY <1>7, <1>8 DEF Position
  <2>2. plain \in Int
    <3>1. Fractions[i] \in Int
      BY ObligationAssumption DEF InWindowFractions
    <3>2. Start(w) = S
      BY <1>5 DEF Start
    <3>3. \A a, b \in Int : a * b \in Int /\ a \div 100 \in Int
      OBVIOUS
    <3>4. (D - S) * Fractions[i] \in Int
      BY <1>1, <3>1, <3>3
    <3> QED
      BY <1>1, <3>2, <3>3, <3>4
  <2> HIDE DEF plain
  <2> QED
    BY <1>1, <2>1, <2>2 DEF LastPointMargin
<1>9. CASE ~IsLastFraction(Fractions, i)
  <2>1. Fractions[i] \in Int /\ Fractions[i] < 75
    BY <1>9, ObligationAssumption DEF OnlyTheLastIsLate, InWindowFractions
  <2>2. p.at = S + ((D - S) * Fractions[i]) \div 100
    BY <1>5, <1>7, <1>9 DEF Position, Start
  <2>3. ASSUME NEW W \in Int, W > 0, NEW f \in Int, f < 75
        PROVE  4 * ((W * f) \div 100) < 3 * W
    <3>1. W * f \in Int /\ W * f <= W * 74
      BY <2>3
    <3>2. \A a \in Int : 100 * (a \div 100) <= a /\ a \div 100 \in Int
      OBVIOUS
    <3> HIDE DEF D, S
    <3>3. ASSUME NEW a \in Int, a <= W * 74 PROVE 4 * (a \div 100) < 3 * W
      BY <2>3, <3>2, <3>3
    <3> QED
      BY <3>1, <3>3
  <2>4. D - S \in Int /\ D - S > 0
    BY <1>1, <1>5
  <2>5. 4 * (((D - S) * Fractions[i]) \div 100) < 3 * (D - S)
    BY <2>1, <2>3, <2>4
  <2>6. 4 * (p.at - S) < 3 * (D - S)
    <3> DEFINE at == ((D - S) * Fractions[i]) \div 100
    <3>1. p.at = S + at /\ 4 * at < 3 * (D - S)
      BY <2>2, <2>5
    <3>2. at \in Int
      <4>1. \A a, b \in Int : a * b \in Int /\ a \div 100 \in Int
        OBVIOUS
      <4> QED
        BY <2>1, <2>4, <4>1
    <3> HIDE DEF at
    <3> QED
      BY <1>1, <3>1, <3>2
  <2> QED
    BY <1>1, <1>2, <1>4, <2>6
<1> QED
  BY <1>8, <1>9

(* A shard that left the disk before the last minutes of its window is     *)
(* never counted as served, for any promise, whatever the observer missed, *)
(* if no reading but the last is in the end segment (verdict.go,           *)
(* EndSegmentDivisor), as with the fractions of schedule.go:74.            *)
THEOREM ServedIsWatchedAlways ==
  ASSUME OnlyTheLastIsLate
  PROVE  ObligationSpec => []ServedIsWatchedToTheEnd
<1>1. ObligationInv /\ SeenInv => ServedIsWatchedToTheEnd
  <2> SUFFICES ASSUME ObligationInv, SeenInv, NEW v \in InBucket(readings, "served")
               PROVE  gone[v] > pub.mustServeUntil - LastPointMargin
    BY DEF ServedIsWatchedToTheEnd
  <2>1. v \in Validators /\ Bucket(Of(InFigures(readings), v), pub, pub.mustServeUntil) = "served"
    BY DEF InBucket
  <2>2. PICK r \in Of(InFigures(readings), v) : ClassOf(r) = "HEALTHY" /\ InEndSegment(r.at, pub)
    BY <2>1 DEF Bucket
  <2>3. r \in readings /\ r.phase = "in_window" /\ r.validator = v
    BY <2>2 DEF Of, InFigures, Counted, Judged
  <2>4. r.class = "HEALTHY"
    BY <2>2 DEF ClassOf, EffectiveClass
  <2>5. SeenAtPoint(r) /\ pub \in Windows /\ gone[v] \in Int
    BY <2>1, <2>3 DEF SeenInv, ObligationInv, ObligationType
  <2>6. PICK p \in InWindowPoints(pub, Fractions) \cup PointsPastWindow(pub) : r.at = p.at
    BY <2>5 DEF SeenAtPoint
  <2>7. PhaseAtWindow(p.at + Lateness, pub.mustServeUntil, PruneTolerance) = "in_window" /\ p.at + Lateness < gone[v]
    BY <2>3, <2>4, <2>5, <2>6 DEF SeenAtPoint
  <2>8. p.at >= pub.mustServeUntil - LastPointMargin
    BY <2>2, <2>5, <2>6, <2>7, OnlyTheLastIsLate, LateIsLast
  <2>9. p.at \in Int /\ pub.mustServeUntil \in Int /\ Lateness \in Nat
    BY <2>5, ObligationAssumption, PositionIsInt DEF InWindowPoints, PointsPastWindow, GraceOffset, PruneTolerance, PostMargin
  <2> QED
    BY <2>5, <2>7, <2>8, <2>9 DEF LastPointMargin
<1>2. ObligationSpec => []SeenInv
  BY InitSeen, NextSeen, ObligationInvariant, PTL DEF ObligationSpec
<1> QED
  BY <1>1, <1>2, ObligationInvariant, PTL
=============================================================================
