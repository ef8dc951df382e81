---------------------------- MODULE ProbeBudget ----------------------------
(***************************************************************************)
(* The load policy's budget: observer/policy/policy.go (BeforeProbe,       *)
(* AfterProbe, Release) and observer/policy/budgetstate.go (the state that *)
(* survives a restart), driven as internal/probe/prober.go drives them:    *)
(* one ask, probe and account at a time for a validator, whose lock is     *)
(* held throughout; any number of validators at once.                      *)
(*                                                                         *)
(* Time is a clock whose unit is a fraction of the spacing; a probe goes   *)
(* out at the instant it is admitted at. Accounted probes are kept as what *)
(* they are summed by: how many and how many bytes at each instant.        *)
(***************************************************************************)
EXTENDS Integers, FiniteSetsExt, SequencesExt

CONSTANTS
  Validators,
  ShardSizes,        \* external: bytes a probe may be estimated at (ShardBytes)
  Caps,              \* [scope : {"validator", "global"}, what : {"n", "bytes"}, window, cap]
  Spacing,           \* min_request_spacing
  UnknownCooldown,
  SaveEvery,
  Minute,            \* width of a bucket of the file
  StartAt, MaxClock, \* bounds: first and last instant
  MaxRestarts, MaxSaveFailures, MaxAsks \* bounds

ASSUME BudgetAssumption ==
  /\ Spacing \in Nat /\ UnknownCooldown \in Nat /\ StartAt \in Nat /\ MaxClock \in Nat
  /\ SaveEvery \in Nat \ {0} /\ Minute \in Nat \ {0}
  /\ ShardSizes \subseteq Nat /\ IsFiniteSet(Validators)
  /\ Caps \subseteq [scope : {"validator", "global"}, what : {"n", "bytes"}, window : Nat, cap : Nat]
  /\ StartAt > Spacing /\ StartAt <= MaxClock

Times == 1..MaxClock
Never == 0  \* the zero time
NoFile == [savedAt |-> Never]
NotSaving == [savedAt |-> Never]

VARIABLES
  clock,
  events,        \* validator -> instant -> [n, bytes]: accounted probes
  pending,       \* reservations [addr, at, bytes]
  lastRequest, restoredAt, cooldownUntil,
  saveFailing, dirty,
  saveTimer,     \* when the save is due, or Never
  saving,        \* the snapshot being written, or NotSaving
  file,          \* the state file, or NoFile
  call,          \* validator -> what the holder of its lock is doing: [step, bytes, id]
  made,          \* history: every request admitted, [addr, at, bytes, sent, lost]
  budget         \* what is left of the bounds: [restarts, failures, asks]

policyVars == <<events, pending, lastRequest, restoredAt, cooldownUntil, saveFailing, dirty, saveTimer>>
vars == <<clock, policyVars, saving, file, call, made, budget>>

---------------------------------------------------------------------------
(* Sums over sliding windows. *)

NoEvents == [t \in Times |-> [n |-> 0, bytes |-> 0]]

AddEvent(evs, at, n, bytes) == [evs EXCEPT ![at] = [n |-> @.n + n, bytes |-> @.bytes + bytes]]

(* What is accounted to a validator since an instant. *)
Accounted(v, what, since) == SumFunction([t \in {u \in Times : u >= since} |-> events[v][t][what]])

(* Mutant: only what is finished counts. *)
SumAccounted(vals, what, since) ==
  SumFunction([v \in vals |-> Accounted(v, what, since)])

(* sumWithPending: what vals were asked for since an instant, counting what *)
(* is admitted and not finished.                                           *)
SumWithPending(vals, what, since) ==
  LET reserved == {r \in pending : r.addr \in vals /\ r.at >= since}
  IN  SumFunction([v \in vals |-> Accounted(v, what, since)])
        + SumFunction([r \in reserved |-> IF what = "n" THEN 1 ELSE r.bytes])

Scope(c, v) == IF c.scope = "global" THEN Validators ELSE {v}
Cost(c, bytes) == IF c.what = "n" THEN 1 ELSE bytes

WithinCaps(v, bytes) ==
  \A c \in Caps : SumWithPending(Scope(c, v), c.what, clock - c.window) + Cost(c, bytes) <= c.cap

(* Mutant: after a restore the spacing counts from the save alone. *)
SpacingFromSave(v) ==
  LET last == IF restoredAt # Never THEN restoredAt ELSE lastRequest[v]
  IN  IF last = Never \/ Spacing <= clock - last THEN 0 ELSE Spacing - (clock - last)

SpacingWait(v) ==
  LET last == Max({lastRequest[v], restoredAt})
  IN  IF last = Never \/ Spacing <= clock - last THEN 0 ELSE Spacing - (clock - last)

(* A lock-holder's oldest reservation, the one being settled. *)
TakePending(v) ==
  LET own == {r \in pending : r.addr = v}
  IN  IF own = {} THEN pending ELSE pending \ {CHOOSE r \in own : \A q \in own : r.at <= q.at}

---------------------------------------------------------------------------
(* The file. *)

(* bucketByMinute: every probe of a minute at the newest instant of it. *)
BucketByMinute(evs) ==
  LET busy(t) == {u \in Times : u \div Minute = t \div Minute /\ evs[u].n > 0}
  IN  [t \in Times |->
        IF busy(t) # {} /\ t = Max(busy(t))
          THEN [n |-> SumFunction([u \in busy(t) |-> evs[u].n]), bytes |-> SumFunction([u \in busy(t) |-> evs[u].bytes])]
          ELSE [n |-> 0, bytes |-> 0]]

WithPending(v) ==
  LET reserved(t) == {r \in pending : r.addr = v /\ r.at = t}
  IN  [t \in Times |-> [n |-> events[v][t].n + Cardinality(reserved(t)),
                        bytes |-> events[v][t].bytes + SumFunction([r \in reserved(t) |-> r.bytes])]]

(* "covers" is history: the requests this process knows of. *)
Snapshot ==
  [savedAt |-> clock,
   lastRequest |-> lastRequest,
   minutes |-> [v \in Validators |-> BucketByMinute(WithPending(v))],
   covers |-> {i \in DOMAIN made : made[i].lost = "no"}]

(* A file whose probes are all long past. *)
OldFile ==
  [savedAt |-> StartAt - Spacing,
   lastRequest |-> [v \in Validators |-> Never],
   minutes |-> [v \in Validators |-> NoEvents],
   covers |-> {}]

(* Mutant: every change puts the save off. *)
MarkDirtyLater == dirty' = TRUE /\ saveTimer' = clock + SaveEvery

MarkDirty ==
  /\ dirty' = TRUE
  /\ saveTimer' = IF saveTimer = Never THEN clock + SaveEvery ELSE saveTimer

---------------------------------------------------------------------------
Idle == [step |-> "none", bytes |-> 0, id |-> 0]

(* restore: the state a process starts with. *)
Restore(f, readable) ==
  /\ events' = [v \in Validators |-> IF readable THEN f.minutes[v] ELSE NoEvents]
  /\ lastRequest' = [v \in Validators |-> IF readable THEN f.lastRequest[v] ELSE Never]
  /\ restoredAt' = IF readable THEN f.savedAt ELSE Never
  /\ cooldownUntil' = IF readable THEN Never ELSE clock + UnknownCooldown

Init ==
  /\ clock = StartAt
  /\ file \in {NoFile, OldFile}
  /\ events = [v \in Validators |-> NoEvents]
  /\ pending = {}
  /\ lastRequest = [v \in Validators |-> Never]
  /\ restoredAt = file.savedAt
  /\ cooldownUntil = IF file = NoFile THEN StartAt + UnknownCooldown ELSE Never
  /\ saveFailing = FALSE /\ dirty = FALSE /\ saveTimer = Never /\ saving = NotSaving
  /\ call = [v \in Validators |-> Idle]
  /\ made = <<>>
  /\ budget = [restarts |-> MaxRestarts, failures |-> MaxSaveFailures, asks |-> MaxAsks]

(* Timers are prompt: a due save is made before time moves on. *)
Tick ==
  /\ clock < MaxClock
  /\ saving = NotSaving
  /\ saveTimer = Never \/ saveTimer > clock
  /\ \A v \in Validators : call[v].step # "admitted"
  /\ clock' = clock + 1
  /\ UNCHANGED <<policyVars, saving, file, call, made, budget>>

(* BeforeProbe up to the wait: stateGuard. *)
Ask(v) ==
  /\ call[v].step = "none"
  /\ budget.asks > 0
  /\ budget' = [budget EXCEPT !.asks = @ - 1]
  /\ clock >= cooldownUntil
  /\ \/ /\ saveFailing
        /\ MarkDirty
        /\ UNCHANGED call
     \/ /\ ~saveFailing
        /\ \E bytes \in ShardSizes : call' = [call EXCEPT ![v] = [step |-> "waiting", bytes |-> bytes, id |-> 0]]
        /\ UNCHANGED <<dirty, saveTimer>>
  /\ UNCHANGED <<clock, events, pending, lastRequest, restoredAt, cooldownUntil, saveFailing, saving, file, made>>

(* The rest of BeforeProbe, once a look under the lock finds no wait left. *)
Reserve(v) ==
  /\ call[v].step = "waiting"
  /\ SpacingWait(v) = 0
  /\ WithinCaps(v, call[v].bytes)
  /\ pending' = pending \cup {[addr |-> v, at |-> clock, bytes |-> call[v].bytes]}
  /\ lastRequest' = [lastRequest EXCEPT ![v] = clock]
  /\ MarkDirty
  /\ call' = [call EXCEPT ![v] = [step |-> "admitted", bytes |-> @.bytes, id |-> Len(made) + 1]]
  /\ made' = Append(made, [addr |-> v, at |-> clock, bytes |-> call[v].bytes, sent |-> FALSE, lost |-> "no"])
  /\ UNCHANGED <<clock, events, restoredAt, cooldownUntil, saveFailing, saving, file, budget>>

Deny(v) ==
  /\ call[v].step = "waiting"
  /\ SpacingWait(v) = 0
  /\ ~WithinCaps(v, call[v].bytes)
  /\ call' = [call EXCEPT ![v] = Idle]
  /\ UNCHANGED <<clock, policyVars, saving, file, made, budget>>

(* The request goes out. *)
Start(v) ==
  /\ call[v].step = "admitted"
  /\ made' = [made EXCEPT ![call[v].id].sent = TRUE]
  /\ call' = [call EXCEPT ![v].step = "running"]
  /\ UNCHANGED <<clock, policyVars, saving, file, budget>>

(* The probe is over; a shard it did not ask for costs nothing. *)
AfterProbe(v) ==
  /\ call[v].step = "running"
  /\ pending' = TakePending(v)
  /\ \E bytes \in {0, call[v].bytes} :
       /\ events' = [events EXCEPT ![v] = AddEvent(@, made[call[v].id].at, 1, bytes)]
       /\ made' = [made EXCEPT ![call[v].id].bytes = bytes]
  /\ lastRequest' = [lastRequest EXCEPT ![v] = Max({@, made[call[v].id].at})]
  /\ MarkDirty
  /\ call' = [call EXCEPT ![v] = Idle]
  /\ UNCHANGED <<clock, restoredAt, cooldownUntil, saveFailing, saving, file, budget>>

(* The slot went stale while it waited. *)
Release(v) ==
  /\ call[v].step = "admitted"
  /\ pending' = TakePending(v)
  /\ MarkDirty
  /\ call' = [call EXCEPT ![v] = Idle]
  /\ UNCHANGED <<clock, events, lastRequest, restoredAt, cooldownUntil, saveFailing, saving, file, made, budget>>

(* Flush, when the timer fires. *)
FlushBegin ==
  /\ saving = NotSaving
  /\ saveTimer # Never /\ saveTimer <= clock
  /\ saveTimer' = Never
  /\ dirty' = FALSE
  /\ saving' = IF dirty THEN Snapshot ELSE NotSaving
  /\ UNCHANGED <<clock, events, pending, lastRequest, restoredAt, cooldownUntil, saveFailing, file, call, made, budget>>

FlushSaved ==
  /\ saving # NotSaving
  /\ file' = saving
  /\ saving' = NotSaving
  /\ saveFailing' = FALSE
  /\ UNCHANGED <<clock, events, pending, lastRequest, restoredAt, cooldownUntil, dirty, saveTimer, call, made, budget>>

FlushFailed ==
  /\ saving # NotSaving
  /\ budget.failures > 0
  /\ budget' = [budget EXCEPT !.failures = @ - 1]
  /\ saving' = NotSaving
  /\ saveFailing' = TRUE
  /\ dirty' = TRUE
  /\ UNCHANGED <<clock, events, pending, lastRequest, restoredAt, cooldownUntil, saveTimer, file, call, made>>

(* What is known of a request by a process that starts on f. *)
Remembered(f, readable) ==
  [i \in DOMAIN made |->
     [made[i] EXCEPT !.lost = IF readable /\ i \in f.covers THEN "no"
                              ELSE IF readable \/ @ = "unsaved" THEN "unsaved" ELSE "unread"]]

(* The file a process may leave behind: a save under way is made or not,   *)
(* and one that ends in good order flushes what has changed.               *)
FilesLeft ==
  {file} \cup (IF saving = NotSaving THEN {} ELSE {saving}) \cup (IF dirty THEN {Snapshot} ELSE {})

(* The process ends and another starts, which may find the file unreadable, *)
(* for good or for this once.                                              *)
Restart ==
  /\ budget.restarts > 0
  /\ budget' = [budget EXCEPT !.restarts = @ - 1]
  /\ \E f \in FilesLeft, lostFile \in BOOLEAN :
       LET readable == f # NoFile /\ ~lostFile
       IN  /\ Restore(f, readable)
           /\ made' = Remembered(f, readable)
           /\ file' \in IF readable THEN {f} ELSE {f, NoFile}
  /\ pending' = {}
  /\ saveFailing' = FALSE /\ dirty' = FALSE /\ saveTimer' = Never /\ saving' = NotSaving
  /\ call' = [v \in Validators |-> Idle]
  /\ UNCHANGED clock

Next ==
  \/ Tick
  \/ \E v \in Validators : Ask(v) \/ Reserve(v) \/ Deny(v) \/ Start(v) \/ AfterProbe(v) \/ Release(v)
  \/ FlushBegin \/ FlushSaved \/ FlushFailed
  \/ Restart

Spec == Init /\ [][Next]_vars

---------------------------------------------------------------------------
Sent == {i \in DOMAIN made : made[i].sent}

(* The requests the policy answers for over a window: what it remembers,   *)
(* and what a lost file made it forget, as long as the cool-down is longer. *)
Answerable(i, window) == made[i].lost = "no" \/ (made[i].lost = "unread" /\ window < UnknownCooldown)

(* The requests that went out in any window, counting those in flight for  *)
(* the whole shard, stay within every cap, for one validator and for all,  *)
(* across restarts (policy.go:776-793, budgetstate.go:16-51).              *)
CapsKept ==
  \A c \in Caps : \A v \in Validators :
    LET counted == {i \in Sent : /\ made[i].addr \in Scope(c, v)
                                 /\ made[i].at >= clock - c.window
                                 /\ Answerable(i, c.window)}
    IN  SumFunction([i \in counted |-> Cost(c, made[i].bytes)]) <= c.cap

(* Two requests to one validator are at least the spacing apart, unless the *)
(* first was made after the last save before a crash (policy.go:938-952).  *)
SpacingKept ==
  \A i, j \in Sent :
    i < j /\ made[i].addr = made[j].addr /\ Answerable(i, Spacing) => made[j].at - made[i].at >= Spacing

(* A crash now would forget at most one request of a validator: the one    *)
(* "the spacing let through" since the last save (budgetstate.go:41-45).   *)
CrashForgetsAtMostOne ==
  ~saveFailing =>
    \A v \in Validators :
      Cardinality({i \in Sent : /\ made[i].addr = v /\ made[i].lost = "no"
                                /\ (file = NoFile \/ i \notin file.covers)}) <= 1

=============================================================================
