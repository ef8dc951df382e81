----------------------------- MODULE ProbeSweep -----------------------------
(***************************************************************************)
(* The prober's cycle (internal/probe/prober.go): plan the schedule points *)
(* of every publication on the feed, record the missed and the sampled     *)
(* out, and run what is due on a pool of workers with a byte budget, a lock *)
(* per validator and a queue of retries; over measurements.jsonl and        *)
(* sampling_decisions.jsonl, whose oldest rows an archive run may move out *)
(* of reach of the restart index.                                          *)
(*                                                                         *)
(* A slot is a publication, a point of its schedule and a validator. The   *)
(* policy's budget is external here (see ProbeBudget): it admits or denies, *)
(* after any wait. Points and deadlines are instants of one clock.         *)
(***************************************************************************)
EXTENDS Integers, FiniteSetsExt, SequencesExt

CONSTANTS
  Pubs, Points, Owing,
  Settled, Deadline,   \* publication -> settlement_time, must_serve_until
  ScheduledAt,         \* publication -> point -> when it is scheduled
  PruneTolerance, MaxLateness, RetryDelay, ArchiveSkew,
  Concurrency,
  Weight, InFlightBytes, \* validator -> receive bound of its shard; the byte budget
  LastSweep, MaxCrashes, MaxArchives \* bounds

ASSUME SweepAssumption ==
  /\ Concurrency \in Nat \ {0} /\ InFlightBytes \in Nat /\ Weight \in [Owing -> Nat \ {0}]
  /\ MaxLateness \in Nat /\ RetryDelay \in Nat /\ ArchiveSkew \in Nat /\ PruneTolerance \in Nat
  /\ Settled \in [Pubs -> Nat] /\ Deadline \in [Pubs -> Nat] /\ ScheduledAt \in [Pubs -> [Points -> Nat]]

Slots == Pubs \X Points \X Owing
PointOf(s) == <<s[1], s[2]>>
NoRow == [kind |-> "none"]
NoDecision == [in |-> FALSE, p |-> "none"]
Nothing == [due |-> {}, missed |-> {}, dropped |-> {}, finished |-> {}]

VARIABLES
  time,
  published,   \* external: publications.jsonl
  rows,        \* measurements.jsonl and its archive: slot -> its row
  copies,      \* slot -> how many rows it has
  archived,    \* slots whose row has moved to the archive
  liveSince,   \* record.LiveSince: from when the live file is whole
  decisions,   \* sampling_decisions.jsonl
  stage,       \* "down", "idle", "recording" or "sweep"
  forgotten, seen, complete, decided, \* memory: feed, restart index, p.complete, the policy's draws
  todo,        \* the plan: what is due, missed, dropped, finished
  step,        \* slot -> how far the sweep is with it
  started, first, \* slot -> when its probe went out; when its first attempt did
  retries,     \* the retry queue: [slot, at]
  canceled,    \* the process was told to stop
  drawn,       \* history: publication -> the p it was last drawn at
  bounds       \* what is left of the bounds

record == <<rows, copies, archived, decisions>>
memory == <<forgotten, seen, complete, decided>>
sweep == <<step, started, first, retries>>
sweepVars == <<time, published, record, liveSince, stage, memory, todo, sweep, canceled, drawn, bounds>>

---------------------------------------------------------------------------
(* The schedule. *)

PhaseAt(t, pub) ==
  IF t < Deadline[pub] THEN "in_window" ELSE IF t <= Deadline[pub] + PruneTolerance THEN "grace" ELSE "post"

PointPhase(pub, pt) == PhaseAt(ScheduledAt[pub][pt], pub)

(* An in-window slot is not allowed to run past must_serve_until. *)
Lateness(pub, pt) ==
  LET room == Deadline[pub] - ScheduledAt[pub][pt]
  IN  IF PointPhase(pub, pt) = "in_window" /\ room < MaxLateness THEN room ELSE MaxLateness

StartBy(s) == ScheduledAt[s[1]][s[2]] + Lateness(s[1], s[2])
TooLate(s) == time > StartBy(s)

Earliest(pub) == Min({Settled[pub]} \cup {ScheduledAt[pub][pt] : pt \in Points})

(* Mutant: archived only when all of its schedule is. *)
ArchivedWhole(pub) == liveSince # 0 /\ \A pt \in Points : ScheduledAt[pub][pt] < liveSince

ArchivedFrom(pub) == liveSince # 0 /\ Earliest(pub) - ArchiveSkew < liveSince

---------------------------------------------------------------------------
(* The record. *)

GapRow(s) == [kind |-> "gap", p |-> decided[s[1]].p]
ProbeRow(s) == [kind |-> "probed", p |-> decided[s[1]].p, at |-> started[s], first |-> first[s]]

(* MeasurementStore.append: a slot already seen is not written. *)
Append1(s, row) ==
  IF s \in seen
    THEN UNCHANGED <<rows, copies, seen>>
    ELSE /\ rows' = [rows EXCEPT ![s] = row]
         /\ copies' = [copies EXCEPT ![s] = @ + 1]
         /\ seen' = seen \cup {s}

(* An archive run moves a part of what is dated before its cutoff: how much *)
(* of it depends on the order of the file.                                 *)
Archive ==
  /\ bounds.archives > 0
  /\ bounds' = [bounds EXCEPT !.archives = @ - 1]
  /\ \E cutoff \in 1..time :
       /\ cutoff > liveSince
       /\ \E moved \in SUBSET {s \in Slots \ archived : copies[s] > 0 /\ ScheduledAt[s[1]][s[2]] < cutoff} :
            moved # {} /\ archived' = archived \cup moved
       /\ liveSince' = cutoff
  /\ UNCHANGED <<time, published, rows, copies, decisions, stage, memory, todo, sweep, canceled, drawn>>

---------------------------------------------------------------------------
SweepInit ==
  /\ time = 0
  /\ published = {}
  /\ rows = [s \in Slots |-> NoRow] /\ copies = [s \in Slots |-> 0] /\ archived = {} /\ liveSince = 0
  /\ decisions = {}
  /\ stage = "down"
  /\ forgotten = {} /\ seen = {} /\ complete = {} /\ decided = [pub \in Pubs |-> NoDecision]
  /\ todo = Nothing
  /\ step = [s \in Slots |-> "none"] /\ started = [s \in Slots |-> 0] /\ first = [s \in Slots |-> 0]
  /\ retries = <<>>
  /\ canceled = FALSE
  /\ drawn = [pub \in Pubs |-> "none"]
  /\ bounds = [restarts |-> MaxCrashes, archives |-> MaxArchives]

TimePasses ==
  /\ time < LastSweep
  /\ time' = time + 1
  /\ UNCHANGED <<published, record, liveSince, stage, memory, todo, sweep, canceled, drawn, bounds>>

(* The scanner appends a publication, when it settles or later. *)
Publish(pub) ==
  /\ pub \notin published /\ Settled[pub] <= time
  /\ published' = published \cup {pub}
  /\ UNCHANGED <<time, record, liveSince, stage, memory, todo, sweep, canceled, drawn, bounds>>

(* The restart index is read from the live file alone. *)
Open ==
  /\ stage = "down"
  /\ seen' = {s \in Slots : copies[s] > 0 /\ s \notin archived}
  /\ forgotten' = {} /\ complete' = {} /\ decided' = [pub \in Pubs |-> NoDecision]
  /\ stage' = "idle"
  /\ canceled' = FALSE
  /\ UNCHANGED <<time, published, record, liveSince, todo, sweep, drawn, bounds>>

---------------------------------------------------------------------------
(* The plan. *)

Pending(pub) == {pt \in Points : <<pub, pt>> \notin complete}

(* Mutant: a schedule has begun once a point of it is complete. *)
StartedWhenComplete(pub) == \E pt \in Points : <<pub, pt>> \in complete

AlreadyStarted(pub) ==
  \E pt \in Points : <<pub, pt>> \in complete \/ \E v \in Owing : <<pub, pt, v>> \in seen

Finished(pub) == pub \in decisions \/ ArchivedFrom(pub) \/ Pending(pub) = {}

(* What Admit may answer: a schedule that was begun is carried to its end; *)
(* a decision stands; else a draw at the load of the moment.               *)
Admissions(pub) ==
  IF AlreadyStarted(pub) THEN {[in |-> TRUE, p |-> "one"]}
  ELSE IF decided[pub] # NoDecision THEN {decided[pub]}
  ELSE {[in |-> TRUE, p |-> "one"], [in |-> TRUE, p |-> "less"], [in |-> FALSE, p |-> "less"]}

Elapsed(x) == time > ScheduledAt[x[1]][x[2]] + MaxLateness

Drawing(pub) == ~AlreadyStarted(pub) /\ decided[pub] = NoDecision

Plan ==
  /\ stage = "idle" /\ ~canceled
  /\ LET feed == published \ forgotten
         asked == {pub \in feed : ~Finished(pub)}
     IN  \E answer \in [asked -> UNION {Admissions(pub) : pub \in asked}] :
           /\ \A pub \in asked : answer[pub] \in Admissions(pub)
           /\ decided' = [pub \in Pubs |-> IF pub \in asked THEN answer[pub] ELSE decided[pub]]
           /\ drawn' = [pub \in Pubs |-> IF pub \in asked /\ Drawing(pub) THEN answer[pub].p ELSE drawn[pub]]
           /\ LET open == {x \in asked \X Points : answer[x[1]].in /\ x[2] \in Pending(x[1])}
              IN  todo' = [finished |-> feed \ asked,
                           dropped |-> {pub \in asked : ~answer[pub].in},
                           due |-> {x \in open : ScheduledAt[x[1]][x[2]] <= time /\ ~Elapsed(x)},
                           missed |-> {x \in open : Elapsed(x)} \X Owing]
  /\ stage' = "recording"
  /\ UNCHANGED <<time, published, record, liveSince, forgotten, seen, complete, sweep, canceled, bounds>>

(* One row of a missed point, which is complete with its last one. *)
RecordMissed ==
  /\ stage = "recording"
  /\ \E x \in todo.missed :
       LET s == <<x[1][1], x[1][2], x[2]>>
           rest == todo.missed \ {x}
       IN  /\ Append1(s, GapRow(s))
           /\ todo' = [todo EXCEPT !.missed = rest]
           /\ complete' = IF \E y \in rest : y[1] = x[1] THEN complete ELSE complete \cup {x[1]}
  /\ UNCHANGED <<time, published, archived, liveSince, decisions, stage, forgotten, decided, sweep, canceled,
                 drawn, bounds>>

(* One decision stands for every row of a publication that was drawn out. *)
RecordSampledOut ==
  /\ stage = "recording" /\ todo.missed = {}
  /\ \E pub \in todo.dropped :
       /\ decisions' = decisions \cup {pub}
       /\ complete' = complete \cup {<<pub, pt>> : pt \in Pending(pub)}
       /\ todo' = [todo EXCEPT !.dropped = @ \ {pub}]
  /\ UNCHANGED <<time, published, rows, copies, archived, liveSince, stage, forgotten, seen, decided, sweep,
                 canceled, drawn, bounds>>

(* Mutant: so is a point whose targets were not resolved. *)
NoItem(due, items) == {x \in todo.due : \A s \in items : PointOf(s) # x}

(* A point every target of which had its row already is complete. *)
NothingLeft(due, items) == {x \in due : \A s \in items : PointOf(s) # x}

ForgetPoints == {x \in complete : x[1] \notin todo.finished}

(* The finished are forgotten; the items of the sweep are the targets of    *)
(* the due points that have no row, of the publications whose targets can  *)
(* be resolved.                                                            *)
BeginSweep ==
  /\ stage = "recording" /\ todo.missed = {} /\ todo.dropped = {}
  /\ \E resolved \in SUBSET {x[1] : x \in todo.due} :
       LET due == {x \in todo.due : x[1] \in resolved}
           items == {s \in Slots : PointOf(s) \in due /\ s \notin seen}
       IN  /\ step' = [s \in Slots |-> IF s \in items THEN "queued" ELSE "none"]
           /\ complete' = ForgetPoints \cup NothingLeft(due, items)
           /\ stage' = IF items = {} THEN "idle" ELSE "sweep"
  /\ forgotten' = forgotten \cup todo.finished
  /\ seen' = {s \in seen : s[1] \notin todo.finished}
  /\ decided' = [pub \in Pubs |-> IF pub \in todo.finished THEN NoDecision ELSE decided[pub]]
  /\ todo' = Nothing
  /\ UNCHANGED <<time, published, record, liveSince, started, first, retries, canceled, drawn, bounds>>

---------------------------------------------------------------------------
(* The pool. *)

InSteps(steps) == {s \in Slots : step[s] \in steps}
Working == {"working", "asking", "probing", "reworking", "reasking", "reprobing"}
FreeSlot == Cardinality(InSteps(Working \cup {"slot", "retryslot"})) < Concurrency
BytesHeld == MapThenSumSet(LAMBDA s : Weight[s[3]], InSteps(Working))

FreeBytes(s) == BytesHeld = 0 \/ BytesHeld + Weight[s[3]] <= InFlightBytes
LockFree(s) == \A q \in InSteps({"asking", "probing", "reasking", "reprobing"}) : q[3] # s[3]

SweepOnly == UNCHANGED <<time, published, liveSince, stage, todo, canceled, drawn, bounds>>
Move(s, to) == step' = [step EXCEPT ![s] = to]
NothingRecorded == UNCHANGED <<record, memory>>
Record(s, row) ==
  /\ Append1(s, row)
  /\ UNCHANGED <<archived, decisions, forgotten, complete, decided>>

(* The item whose deadline is next. *)
NextItem(s) == \A q \in InSteps({"queued"}) : StartBy(s) <= StartBy(q)

(* The dispatcher takes a slot of the pool for it, then the bytes. *)
TakeSlot(s) ==
  /\ step[s] = "queued" /\ ~canceled
  /\ InSteps({"slot"}) = {} /\ FreeSlot
  /\ NextItem(s)
  /\ Move(s, "slot")
  /\ NothingRecorded /\ UNCHANGED <<started, first, retries>> /\ SweepOnly

TakeBytes(s) ==
  /\ step[s] = "slot" /\ FreeBytes(s)
  /\ Move(s, "working")
  /\ NothingRecorded /\ UNCHANGED <<started, first, retries>> /\ SweepOnly

(* runOne, before the lock: the slot elapsed while the cycle ran. *)
ElapsedMeanwhile(s) ==
  /\ step[s] = "working" /\ TooLate(s)
  /\ Move(s, "done")
  /\ Record(s, GapRow(s))
  /\ UNCHANGED <<started, first, retries>> /\ SweepOnly

TakeLock(s) ==
  /\ step[s] = "working" /\ ~TooLate(s) /\ LockFree(s)
  /\ Move(s, "asking")
  /\ NothingRecorded /\ UNCHANGED <<started, first, retries>> /\ SweepOnly

(* BeforeProbe says no, or it took too long. *)
Denied(s) ==
  /\ step[s] = "asking"
  /\ Move(s, "done")
  /\ Record(s, GapRow(s))
  /\ UNCHANGED <<started, first, retries>> /\ SweepOnly

Probe(s) ==
  /\ step[s] = "asking" /\ ~TooLate(s)
  /\ Move(s, "probing")
  /\ started' = [started EXCEPT ![s] = time]
  /\ first' = [first EXCEPT ![s] = time]
  /\ NothingRecorded /\ UNCHANGED retries /\ SweepOnly

Answered(s) ==
  /\ step[s] = "probing"
  /\ Move(s, "done")
  /\ Record(s, ProbeRow(s))
  /\ UNCHANGED <<started, first, retries>> /\ SweepOnly

(* A timeout may still be put right in the phase it came in. *)
ShouldRetry(s) == PhaseAt(time + RetryDelay, s[1]) = PhaseAt(started[s], s[1])

(* The worker, the bytes and the lock are given back while a retry waits. *)
TimedOut(s) ==
  /\ step[s] = "probing"
  /\ time + RetryDelay <= LastSweep
  /\ ShouldRetry(s)
  /\ Move(s, "retryqueued")
  /\ retries' = Append(retries, [slot |-> s, at |-> time + RetryDelay])
  /\ NothingRecorded /\ UNCHANGED <<started, first>> /\ SweepOnly

(* The retry dispatcher: one at a time, in order, when its time has come. *)
TakeRetrySlot ==
  /\ retries # <<>> /\ InSteps({"retryslot"}) = {} /\ FreeSlot
  /\ canceled \/ Head(retries).at <= time
  /\ Move(Head(retries).slot, "retryslot")
  /\ retries' = Tail(retries)
  /\ NothingRecorded /\ UNCHANGED <<started, first>> /\ SweepOnly

TakeRetryBytes(s) ==
  /\ step[s] = "retryslot" /\ FreeBytes(s)
  /\ Move(s, "reworking")
  /\ NothingRecorded /\ UNCHANGED <<started, first, retries>> /\ SweepOnly

TakeRetryLock(s) ==
  /\ step[s] = "reworking" /\ LockFree(s)
  /\ Move(s, "reasking")
  /\ NothingRecorded /\ UNCHANGED <<started, first, retries>> /\ SweepOnly

(* runRetry: the first attempt is recorded as it stands, when the policy    *)
(* refuses, the phase has moved on or the process stops.                   *)
RetryNotRun(s) ==
  /\ step[s] = "reasking"
  /\ Move(s, "done")
  /\ Record(s, ProbeRow(s))
  /\ UNCHANGED <<started, first, retries>> /\ SweepOnly

Retry(s) ==
  /\ step[s] = "reasking" /\ ~canceled
  /\ PhaseAt(time, s[1]) = PhaseAt(started[s], s[1])
  /\ Move(s, "reprobing")
  /\ started' = [started EXCEPT ![s] = time]
  /\ NothingRecorded /\ UNCHANGED <<first, retries>> /\ SweepOnly

RetryAnswered(s) ==
  /\ step[s] = "reprobing"
  /\ Move(s, "done")
  /\ Record(s, ProbeRow(s))
  /\ UNCHANGED <<started, first, retries>> /\ SweepOnly

SweepOver ==
  /\ step' = [s \in Slots |-> "none"]
  /\ started' = [s \in Slots |-> 0] /\ first' = [s \in Slots |-> 0]
  /\ stage' = "idle"
  /\ UNCHANGED <<time, published, record, liveSince, forgotten, seen, decided, todo, retries, canceled, drawn, bounds>>

(* Mutant: every point of a sweep is complete at its end, stopped or not. *)
EndSweepAll ==
  /\ stage = "sweep"
  /\ \A s \in Slots : step[s] \in {"none", "done"} \/ (step[s] = "queued" /\ canceled)
  /\ complete' = complete \cup {PointOf(s) : s \in InSteps({"done", "queued"})}
  /\ SweepOver

(* Every worker is done; a point every item of which has its row is complete, *)
(* unless the sweep was stopped.                                            *)
EndSweep ==
  /\ stage = "sweep"
  /\ \A s \in Slots : step[s] \in {"none", "done"} \/ (step[s] = "queued" /\ canceled)
  /\ complete' = IF canceled THEN complete ELSE complete \cup {PointOf(s) : s \in InSteps({"done"})}
  /\ SweepOver

---------------------------------------------------------------------------
(* A signal: the sweep ends in good order, and the process with it. *)
Signal ==
  /\ stage = "sweep" /\ ~canceled
  /\ bounds.restarts > 0
  /\ bounds' = [bounds EXCEPT !.restarts = @ - 1]
  /\ canceled' = TRUE
  /\ UNCHANGED <<time, published, record, liveSince, stage, memory, todo, sweep, drawn>>

Down ==
  /\ stage' = "down"
  /\ forgotten' = {} /\ seen' = {} /\ complete' = {} /\ decided' = [pub \in Pubs |-> NoDecision]
  /\ todo' = Nothing
  /\ step' = [s \in Slots |-> "none"] /\ started' = [s \in Slots |-> 0] /\ first' = [s \in Slots |-> 0]
  /\ retries' = <<>> /\ canceled' = FALSE

Exit ==
  /\ stage = "idle" /\ canceled
  /\ Down
  /\ UNCHANGED <<time, published, record, liveSince, drawn, bounds>>

Crash ==
  /\ stage # "down"
  /\ bounds.restarts > 0
  /\ bounds' = [bounds EXCEPT !.restarts = @ - 1]
  /\ Down
  /\ UNCHANGED <<time, published, record, liveSince, drawn>>

Cycle == Plan \/ RecordMissed \/ RecordSampledOut \/ BeginSweep \/ EndSweep \/ Exit \/ Open

Work(s) ==
  \/ TakeSlot(s) \/ TakeBytes(s) \/ ElapsedMeanwhile(s) \/ TakeLock(s) \/ Denied(s) \/ Probe(s) \/ Answered(s) \/ TimedOut(s)
  \/ TakeRetryBytes(s) \/ TakeRetryLock(s) \/ RetryNotRun(s) \/ Retry(s) \/ RetryAnswered(s)

SweepNext ==
  \/ TimePasses \/ Archive \/ Signal \/ Crash
  \/ \E pub \in Pubs : Publish(pub)
  \/ Cycle \/ TakeRetrySlot
  \/ \E s \in Slots : Work(s)

SweepSpec == SweepInit /\ [][SweepNext]_sweepVars

(* Time passes, the scanner publishes, the loop turns, and a worker that   *)
(* can go on does: a probe and a wait for the policy are bounded by        *)
(* timeouts.  A lock is asked for by finitely many slots of a sweep, so    *)
(* nothing is asked of the order in which it is handed over.               *)
FairSweep ==
  /\ SweepSpec
  /\ WF_sweepVars(TimePasses) /\ WF_sweepVars(Cycle) /\ WF_sweepVars(TakeRetrySlot)
  /\ \A pub \in Pubs : WF_sweepVars(Publish(pub))
  /\ \A s \in Slots : WF_sweepVars(Work(s))

---------------------------------------------------------------------------
(* A slot has one row in the whole record, live and archived, however the  *)
(* process is restarted and whatever was archived meanwhile                *)
(* (measurement.go:315-316, prober.go:796-801).                            *)
OneRowPerSlot == \A s \in Slots : copies[s] <= 1

(* The whole schedule or none of it: a publication recorded as drawn out   *)
(* has no row, whatever was drawn for it before or after a restart         *)
(* (policy.go:694-703, sampledout.go:140-144).                             *)
SampledOutWhole == \A pub \in decisions : \A s \in Slots : s[1] = pub => copies[s] = 0

(* A point the plan will not look at again has a row for every target      *)
(* (prober.go:218-220, 949).                                               *)
CompleteMeansRecorded ==
  \A x \in complete : x[1] \in decisions \/ \A v \in Owing : copies[<<x[1], x[2], v>>] > 0

(* A slot of a publication that was not drawn out gets its row, probed or  *)
(* not: an obligation without a row would be missing from the total        *)
(* (prober.go:98-107), unless the archive has overtaken its schedule.      *)
EverySlotRecorded ==
  \A s \in Slots : <>(copies[s] > 0 \/ s[1] \in decisions \/ ArchivedFrom(s[1]))

(* SYSTEM.md:267 "Every row carries the p it was decided at".              *)
RowsCarryTheDraw ==
  \A s \in Slots : copies[s] > 0 => rows[s].p = drawn[s[1]]
=============================================================================
