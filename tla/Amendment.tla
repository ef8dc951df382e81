----------------------------- MODULE Amendment -----------------------------
(***************************************************************************)
(* The verdicts drawn after a probe: a FAULT that another vantage clears   *)
(* (internal/probe/confirm.go, observer/verdict/confirm.go), and genuine   *)
(* rows nobody's promise assigned when they were read, judged once every   *)
(* promise that could own them is on record (Store.LateShadowVerdicts).    *)
(* Both move a stored row through amendments.jsonl, and sentinel-recompute *)
(* draws both again from the record.                                       *)
(*                                                                         *)
(* One row of one slot.  The scanner, the prober, the copies between the   *)
(* machines, every other vantage and the collector's pass take their steps *)
(* in any order; the collector may die or lose its database between two,   *)
(* a vantage may be restarted, a copy of the requests replaced.            *)
(***************************************************************************)
EXTENDS Integers, FiniteSetsExt, SequencesExt

CONSTANTS
  Vantages,        \* the vantages that confirm faults
  Rank,            \* the order of their names
  ConfirmWindow,
  MustServeUntil, Tolerance,
  Worlds,          \* external: the row there will be, and the promise that owns what it read
  LastProbe,       \* the probe runs by then
  MaxTime,
  MaxTrouble       \* restarts of a vantage, copies replaced, crashes, rebuilds and failed writes

(* The empty string. *)
None == "none"

ASSUME AmendmentAssumption ==
  /\ IsFiniteSet(Vantages) /\ None \notin Vantages
  /\ Rank \in [Vantages -> Nat] /\ \A v, w \in Vantages : Rank[v] = Rank[w] => v = w
  /\ ConfirmWindow \in Nat /\ MustServeUntil \in Nat /\ Tolerance \in Nat /\ MaxTime \in Nat
  /\ Worlds \subseteq [kind : {"FAULT", "genuine"}, settles : Nat \ {0}, unread : BOOLEAN,
                       assigned : BOOLEAN, timeout : Nat]

VARIABLES
  now,
  world,      \* external, one of Worlds
  scanned,    \* block time the scanner has read up to
  published,  \* publications.jsonl holds the owning promise
  state,      \* state.json: last_scanned_time, and whether it lists the gap
  row,        \* the row in measurements.jsonl
  asked,      \* None, "owed", "asked" or "never": the line in vantage-requests.jsonl
  inbox,      \* vantage -> lines its copy of the requests has
  confirmer,  \* vantage -> its memory, and how often it went to the validator
  answers,    \* vantage -> the row in its measurements.jsonl
  copied,     \* vantages whose answer has been copied back
  amendments, \* amendments.jsonl
  db,         \* the collector's database
  pc,         \* where its pass is
  todo,       \* verdicts drawn and not yet dealt with
  trouble

collectorVars == <<amendments, db, pc, todo>>
vantageVars == <<inbox, confirmer, answers, copied>>
recordVars == <<scanned, published, state, row, asked>>
amendmentVars == <<now, world, recordVars, vantageVars, collectorVars, trouble>>

Never == MaxTime + 9
NoRow == [started |-> Never, class |-> None, gap |-> None]

----------------------------------------------------------------------------
(* The scanner: a block's lines are appended before state.json names it.   *)

(* Blocks matter to rows that wait for an owner. *)
ScanBlock ==
  /\ scanned < now /\ world.kind = "genuine"
  /\ scanned' = scanned + 1
  /\ published' = (published \/ (world.settles = scanned + 1 /\ ~world.unread))
  /\ UNCHANGED <<now, world, state, row, asked, vantageVars, collectorVars, trouble>>

Checkpoint ==
  /\ state.frontier # scanned
  /\ state' = [frontier |-> scanned, gap |-> world.unread /\ world.settles <= scanned]
  /\ UNCHANGED <<now, world, scanned, published, row, asked, vantageVars, collectorVars, trouble>>

ClockTicks ==
  /\ now < MaxTime
  /\ now' = now + 1
  /\ UNCHANGED <<world, recordVars, vantageVars, collectorVars, trouble>>

----------------------------------------------------------------------------
(* The prober. *)

(* Why the rows cannot be judged at the probe: a block the scanner could   *)
(* not read is named first, for nothing fills it later.                    *)
ShadowBlindness == IF state.gap THEN "scan_gap" ELSE "shadow_pending"

(* The feed may lag behind the file; with the promise in it the rows are   *)
(* recognised at once.                                                     *)
Probe ==
  /\ row = NoRow /\ now <= LastProbe
  /\ \/ /\ world.kind = "FAULT"
        /\ row' = [started |-> now, class |-> "FAULT", gap |-> None]
        /\ asked' = "owed"
     \/ /\ world.kind = "genuine"
        /\ \E fed \in {published, FALSE} :
             row' = [started |-> now,
                     class |-> IF fed THEN "SHADOWED_SHARD" ELSE "PROBE_ERROR",
                     gap |-> IF fed THEN None ELSE ShadowBlindness]
        /\ asked' = asked
  /\ UNCHANGED <<now, world, scanned, published, state, vantageVars, collectorVars, trouble>>

AskUntil ==
  IF MustServeUntil + Tolerance < row.started + ConfirmWindow
  THEN MustServeUntil + Tolerance ELSE row.started + ConfirmWindow

(* After the row is on disk; a prober that dies in between asks nobody. *)
RequestConfirmation ==
  /\ asked = "owed"
  /\ asked' \in IF now < AskUntil THEN {"asked", "never"} ELSE {"never"}
  /\ UNCHANGED <<now, world, scanned, published, state, row, vantageVars, collectorVars, trouble>>

----------------------------------------------------------------------------
(* The copies between the machines. *)

Push(v) ==
  /\ asked = "asked" /\ inbox[v] = 0
  /\ inbox' = [inbox EXCEPT ![v] = 1]
  /\ UNCHANGED <<now, world, recordVars, confirmer, answers, copied, collectorVars, trouble>>

(* A whole put replaces the copy, which is empty until it is done. *)
Replace(v) ==
  /\ inbox[v] = 1 /\ trouble < MaxTrouble
  /\ inbox' = [inbox EXCEPT ![v] = 0]
  /\ trouble' = trouble + 1
  /\ UNCHANGED <<now, world, recordVars, confirmer, answers, copied, collectorVars>>

Pull(v) ==
  /\ answers[v] # NoRow /\ v \notin copied
  /\ copied' = copied \cup {v}
  /\ UNCHANGED <<now, world, recordVars, inbox, confirmer, answers, collectorVars, trouble>>

----------------------------------------------------------------------------
(* Another vantage. *)

Fresh(went, restarts) ==
  [offset |-> 0, pending |-> FALSE, doing |-> None, started |-> Never, went |-> went, restarts |-> restarts]

Has(v) == answers[v] # NoRow

(* Requests already answered are taken up again. *)
ReadRequestsAgain(v, c) ==
  LET from == IF inbox[v] < c.offset THEN 0 ELSE c.offset
  IN  IF inbox[v] = from THEN [c EXCEPT !.offset = from]
      ELSE [c EXCEPT !.offset = inbox[v], !.pending = @ \/ now < AskUntil]


(* readRequests: a file shorter than the offset is read again from the     *)
(* start, and a request answered or lapsed is passed over.                 *)
ReadRequests(v, c) ==
  LET from == IF inbox[v] < c.offset THEN 0 ELSE c.offset
  IN  IF inbox[v] = from THEN [c EXCEPT !.offset = from]
      ELSE [c EXCEPT !.offset = inbox[v], !.pending = @ \/ (~Has(v) /\ now < AskUntil)]

(* A pass, up to the reads of the chain: a request past its deadline is    *)
(* dropped.                                                                *)
BeginPass(v) ==
  LET c == ReadRequests(v, confirmer[v])
      due == c.pending /\ now < AskUntil
  IN  /\ confirmer[v].doing = None
      /\ confirmer' = [confirmer EXCEPT ![v] = [c EXCEPT !.pending = due, !.doing = IF due THEN "input" ELSE None]]
      /\ confirmer' # confirmer
      /\ UNCHANGED <<now, world, recordVars, inbox, answers, copied, collectorVars, trouble>>

(* The chain did not answer, or the probes of the last hour used up the    *)
(* cap: left for the next pass.                                            *)
LeftForLater(v) ==
  /\ confirmer[v].doing = "input"
  /\ confirmer' = [confirmer EXCEPT ![v].doing = None]
  /\ UNCHANGED <<now, world, recordVars, inbox, answers, copied, collectorVars, trouble>>

Answer(v, started, class) ==
  /\ answers' = [answers EXCEPT ![v] =
                   IF Has(v) THEN @ ELSE [started |-> started, class |-> class, gap |-> None]]
  /\ confirmer' = [confirmer EXCEPT ![v].pending = FALSE, ![v].doing = None, ![v].started = Never]

(* The chain does not bear the request out. *)
Refuse(v) ==
  /\ confirmer[v].doing = "input"
  /\ Answer(v, now, "PROBE_ERROR")
  /\ UNCHANGED <<now, world, recordVars, inbox, copied, collectorVars, trouble>>

(* The deadline was looked at before the chain was read, not since. *)
Ask(v) ==
  /\ confirmer[v].doing = "input"
  /\ confirmer' = [confirmer EXCEPT ![v].doing = "run", ![v].started = now, ![v].went = @ + 1]
  /\ UNCHANGED <<now, world, recordVars, inbox, answers, copied, collectorVars, trouble>>

(* The shard verifies, it does not, or the vantage had trouble of its own; *)
(* past the window what is served is no longer HEALTHY.                    *)
AnswerClasses(started) ==
  {"FAULT", "PROBE_ERROR"} \cup (IF started < MustServeUntil THEN {"HEALTHY"} ELSE {})

RunEnds(v) ==
  /\ confirmer[v].doing = "run"
  /\ \E class \in AnswerClasses(confirmer[v].started) : Answer(v, confirmer[v].started, class)
  /\ UNCHANGED <<now, world, recordVars, inbox, copied, collectorVars, trouble>>

RestartVantage(v) ==
  /\ trouble < MaxTrouble
  /\ confirmer' = [confirmer EXCEPT ![v] = Fresh(@.went, @.restarts + 1)]
  /\ trouble' = trouble + 1
  /\ UNCHANGED <<now, world, recordVars, inbox, answers, copied, collectorVars>>

----------------------------------------------------------------------------
(* The rules. *)

(* verdict.ConfirmFault *)
ConfirmFault(faultStarted, c) ==
  IF c.started < faultStarted \/ c.started > faultStarted + ConfirmWindow THEN "none"
  ELSE IF c.class = "HEALTHY" THEN "cleared"
  ELSE IF c.class \in {"PROBE_ERROR", "NOT_PROBED"} THEN "none"
  ELSE "confirmed"

(* The first of them by name. *)
FirstOf(vs) == IF vs = {} THEN None ELSE CHOOSE v \in vs : \A w \in vs : Rank[v] <= Rank[w]

(* verdict.LateShadow and its twin in SQL: what becomes of genuine rows    *)
(* read at `started`, with the promise that owns them among the candidates *)
(* or not.                                                                 *)
NoVerdict == [to |-> None, by |-> None]
OwnerCounts(started, known) == known /\ world.settles <= started + world.timeout
LateShadow(started, frontier, known) ==
  IF world.timeout = 0 \/ frontier < started + world.timeout THEN NoVerdict
  ELSE IF ~OwnerCounts(started, known) THEN [to |-> "UNMATCHED_GENUINE", by |-> None]
  ELSE IF world.assigned THEN [to |-> "SHADOWED_SHARD", by |-> "owner"]
  ELSE [to |-> "PROBE_ERROR", by |-> None]

----------------------------------------------------------------------------
(* The collector's pass. *)

Empty == [frontier |-> 0, known |-> FALSE, row |-> NoRow, amended |-> NoVerdict, confirmedBy |-> None,
          confirmations |-> [v \in Vantages |-> None], replayed |-> 0]

Collecting == UNCHANGED <<now, world, recordVars, vantageVars, trouble>>
PassOver == pc = "done" /\ todo = <<>>

ReadState ==
  /\ PassOver
  /\ pc' = "publications"
  /\ db' = [db EXCEPT !.frontier = state.frontier]
  /\ UNCHANGED <<amendments, todo>>
  /\ Collecting

ReadPublications ==
  /\ pc = "publications"
  /\ pc' = "rows"
  /\ db' = [db EXCEPT !.known = published]
  /\ UNCHANGED <<amendments, todo>>
  /\ Collecting

Amended == db.amended # NoVerdict

(* ApplyAmendment: a row already amended is left alone. *)
ApplyAmendment(d, line) == IF d.amended # NoVerdict THEN d ELSE [d EXCEPT !.amended = line]

(* A line whose row is not in the store is read again in the next pass; of *)
(* the others the first moves the row, and the rest find it moved.         *)
Replayed(d) ==
  IF d.row = NoRow \/ d.replayed = Len(amendments) THEN d
  ELSE [ApplyAmendment(d, amendments[d.replayed + 1]) EXCEPT !.replayed = Len(amendments)]

(* The rows, the other vantages' answers, and what was amended before. *)
ReadRows ==
  /\ pc = "rows"
  /\ pc' = "late"
  /\ db' = Replayed([db EXCEPT !.row = row,
                               !.confirmations = [v \in Vantages |-> IF v \in copied /\ @[v] = None THEN "open" ELSE @[v]]])
  /\ UNCHANGED <<amendments, todo>>
  /\ Collecting

(* The frontier as it is when the verdict is drawn, not as it was before   *)
(* the publications were read.                                             *)
LateVerdictNow ==
  IF db.row.gap = "scan_gap" \/ world.timeout = 0 THEN [to |-> "PROBE_ERROR", by |-> None]
  ELSE LateShadow(db.row.started, state.frontier, db.known)

(* LateShadowVerdicts. *)
LateVerdict ==
  IF db.row.gap = "scan_gap" \/ world.timeout = 0 THEN [to |-> "PROBE_ERROR", by |-> None]
  ELSE LateShadow(db.row.started, db.frontier, db.known)

Verdict(v, result, line) ==
  [of |-> v, result |-> result, line |-> line, step |-> IF line = NoVerdict THEN "settle" ELSE "log"]

JudgeLate ==
  /\ pc = "late"
  /\ pc' = "confirmations"
  /\ todo' = IF db.frontier > 0 /\ db.row.gap # None /\ ~Amended /\ LateVerdict # NoVerdict
             THEN <<Verdict(None, None, LateVerdict)>> ELSE <<>>
  /\ UNCHANGED <<amendments, db>>
  /\ Collecting

(* JudgeConfirmations: every answer not judged yet, in the order of the    *)
(* names; all are drawn before the first is applied.                       *)
Open == {v \in Vantages : db.row # NoRow /\ db.confirmations[v] = "open"}

Decision(v) ==
  LET result == IF db.row.class = "FAULT" /\ ~Amended THEN ConfirmFault(db.row.started, answers[v]) ELSE "none"
  IN  Verdict(v, result, IF result = "cleared" THEN [to |-> "PROBE_ERROR", by |-> v] ELSE NoVerdict)

JudgeConfirmations ==
  /\ pc = "confirmations" /\ todo = <<>>
  /\ pc' = "done"
  /\ \E order \in [1..Cardinality(Open) -> Open] :
       /\ \A i, j \in DOMAIN order : i < j => Rank[order[i]] < Rank[order[j]]
       /\ todo' = [i \in DOMAIN order |-> Decision(order[i])]
  /\ UNCHANGED <<amendments, db>>
  /\ Collecting

(* The line is on disk before the row moves; a failed write leaves the     *)
(* verdict to be drawn again.                                              *)
Log ==
  /\ todo # <<>> /\ Head(todo).step = "log"
  /\ amendments' = Append(amendments, Head(todo).line)
  /\ todo' = [todo EXCEPT ![1].step = "apply"]
  /\ UNCHANGED <<pc, db>>
  /\ Collecting

(* The row moves before the line is on disk. *)
ApplyUnlogged ==
  /\ todo # <<>> /\ Head(todo).step \in {"log", "apply"}
  /\ db' = ApplyAmendment(db, Head(todo).line)
  /\ todo' = IF Head(todo).of = None THEN Tail(todo) ELSE [todo EXCEPT ![1].step = "settle"]
  /\ UNCHANGED <<pc, amendments>>
  /\ Collecting

Apply ==
  /\ todo # <<>> /\ Head(todo).step = "apply"
  /\ db' = ApplyAmendment(db, Head(todo).line)
  /\ todo' = IF Head(todo).of = None THEN Tail(todo) ELSE [todo EXCEPT ![1].step = "settle"]
  /\ UNCHANGED <<pc, amendments>>
  /\ Collecting

(* SettleConfirmation. *)
Settle ==
  /\ todo # <<>> /\ Head(todo).step = "settle"
  /\ db' = [db EXCEPT !.confirmations[Head(todo).of] = "judged",
                      !.confirmedBy = IF Head(todo).result = "confirmed" /\ @ = None THEN Head(todo).of ELSE @]
  /\ todo' = Tail(todo)
  /\ UNCHANGED <<pc, amendments>>
  /\ Collecting

(* The append, the amendment or the settling failed: on to the next one. *)
StepFails ==
  /\ todo # <<>> /\ trouble < MaxTrouble
  /\ todo' = Tail(todo)
  /\ trouble' = trouble + 1
  /\ UNCHANGED <<now, world, recordVars, vantageVars, pc, amendments, db>>

(* The collector dies; its database survives, or is built again. *)
CollectorRestarts(d) ==
  /\ trouble < MaxTrouble
  /\ pc' = "done" /\ todo' = <<>> /\ db' = d
  /\ trouble' = trouble + 1
  /\ UNCHANGED <<now, world, recordVars, vantageVars, amendments>>

Crash == ~PassOver /\ CollectorRestarts(db)
Rebuild == db # Empty /\ CollectorRestarts(Empty)

----------------------------------------------------------------------------
AmendmentInit ==
  /\ now = 0 /\ world \in Worlds
  /\ scanned = 0 /\ published = FALSE /\ state = [frontier |-> 0, gap |-> FALSE]
  /\ row = NoRow /\ asked = None
  /\ inbox = [v \in Vantages |-> 0]
  /\ confirmer = [v \in Vantages |-> Fresh(0, 0)]
  /\ answers = [v \in Vantages |-> NoRow]
  /\ copied = {}
  /\ amendments = <<>> /\ db = Empty /\ pc = "done" /\ todo = <<>>
  /\ trouble = 0

AmendmentNext ==
  \/ ClockTicks \/ ScanBlock \/ Checkpoint
  \/ Probe \/ RequestConfirmation
  \/ \E v \in Vantages :
       \/ Push(v) \/ Replace(v) \/ Pull(v)
       \/ BeginPass(v) \/ LeftForLater(v) \/ Refuse(v) \/ Ask(v) \/ RunEnds(v) \/ RestartVantage(v)
  \/ ReadState \/ ReadPublications \/ ReadRows
  \/ JudgeLate \/ JudgeConfirmations \/ Log \/ Apply \/ Settle \/ StepFails
  \/ Crash \/ Rebuild

AmendmentSpec == AmendmentInit /\ [][AmendmentNext]_amendmentVars

----------------------------------------------------------------------------
(* sentinel-recompute, over the record as it stands. *)

LoadFrontier == IF published /\ world.settles > state.frontier THEN world.settles ELSE state.frontier

(* loadAmendments: the last line of a row is its amendment. *)
Recorded == IF amendments = <<>> THEN NoVerdict ELSE Last(amendments)

(* A deferred row, drawn again. *)
LateAgain ==
  IF row.gap = "shadow_pending" THEN LateShadow(row.started, LoadFrontier, published) ELSE NoVerdict

(* ConfirmFaultBy over the rows copied back. *)
ClearedBy == FirstOf({v \in copied : ConfirmFault(row.started, answers[v]) = "cleared"})

----------------------------------------------------------------------------
(* Properties *)

(* A row that moved has a line on record that says so, and every line      *)
(* about it says the same of its class: neither a crash or a failed write  *)
(* between the line and the row, nor a second verdict drawn beside the     *)
(* first, nor a rebuild leaves a verdict the export would not reproduce    *)
(* (main.go: "appended and fsynced BEFORE the amendment is applied").      *)
AmendmentsOnRecord ==
  Amended => /\ Contains(amendments, db.amended)
             /\ \A i \in DOMAIN amendments : amendments[i].to = db.amended.to

(* sentinel-recompute finds no difference: a late verdict is the one the   *)
(* whole record gives, whatever was scanned after it was drawn, and once   *)
(* every answer is judged a fault is withdrawn on record exactly when the  *)
(* answers withdraw it.                                                    *)
RecomputeAgrees ==
  /\ LateAgain # NoVerdict /\ Recorded # NoVerdict => Recorded = LateAgain
  /\ row.class = "FAULT" /\ PassOver /\ (\A v \in copied : db.confirmations[v] = "judged")
       => ((ClearedBy # None) = (Recorded # NoVerdict))

(* A vantage goes to a validator once for a fault, and once more for a     *)
(* restart at most, however often the file of requests is replaced         *)
(* (verdicts.md: "fetches exactly those rows from that validator once").   *)
AskedOnce == \A v \in Vantages : confirmer[v].went <= 1 + confirmer[v].restarts

=============================================================================
