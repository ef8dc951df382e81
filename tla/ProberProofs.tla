---------------------------- MODULE ProberProofs ----------------------------
(***************************************************************************)
(* What holds of the prober's two halves.  Of the budget (ProbeBudget),    *)
(* for any number of validators, caps, spacing, saves and restarts: the    *)
(* spacing of requests to one validator, what a crash may forget of them,  *)
(* and the caps.  Of the sweep (ProbeSweep), for every feed, schedule,     *)
(* size of the pool and of the byte budget, and every number of restarts   *)
(* and archive runs: a slot has one row, a publication that was drawn out  *)
(* has none, and a point that counts as complete has a row of every target. *)
(***************************************************************************)
EXTENDS ProbeBudget, ProbeSweep, SequenceTheorems, FiniteSetTheorems, WellFoundedInduction, TLAPS

-----------------------------------------------------------------------------
(* The budget. *)

(* The cool-down after a file that cannot be read is no shorter than the   *)
(* spacing: 10 min and 2 s unless they are set.                            *)
CooldownCoversSpacing == Spacing <= UnknownCooldown

(* A change is saved before the spacing lets the next request through: 1 s *)
(* and 2 s.                                                                *)
SavedWithinSpacing == SaveEvery < Spacing

Request == [addr : Validators, at : Nat \ {0}, bytes : Nat, sent : BOOLEAN, lost : {"no", "unsaved", "unread"}]

BudgetTypeInv ==
  /\ clock \in Nat \ {0}
  /\ lastRequest \in [Validators -> Nat]
  /\ restoredAt \in Nat /\ cooldownUntil \in Nat /\ saveTimer \in Nat
  /\ saveFailing \in BOOLEAN /\ dirty \in BOOLEAN
  /\ made \in Seq(Request)
  /\ call \in [Validators -> [step : {"none", "waiting", "admitted", "running"}, bytes : Nat, id : Nat]]

(* What a process knows of a request is in its spacing; what it cannot     *)
(* know of is further back than the cool-down it waits out.                *)
RequestsInv ==
  /\ \A i \in DOMAIN made : made[i].at <= clock
  /\ \A i \in DOMAIN made : made[i].lost = "no" => made[i].at <= lastRequest[made[i].addr]
  /\ \A i \in DOMAIN made :
       made[i].lost = "unread" /\ CooldownCoversSpacing => made[i].at + Spacing <= cooldownUntil
  /\ \A v \in Validators : call[v].step # "none" => cooldownUntil <= clock
  /\ \A v \in Validators : call[v].step \in {"admitted", "running"} => call[v].id \in DOMAIN made

(* A file's spacing is that of the requests it knows of, and a request     *)
(* that a file knows of was never forgotten for good.                      *)
KnowsItsRequests(f) ==
  f # NoFile =>
    /\ f.savedAt \in Nat \ {0}
    /\ f.lastRequest \in [Validators -> Nat]
    /\ f.covers \subseteq DOMAIN made
    /\ \A i \in f.covers : made[i].at <= f.lastRequest[made[i].addr] /\ made[i].lost # "unsaved"

FilesInv == KnowsItsRequests(file) /\ KnowsItsRequests(saving)

(* A crash now would forget it. *)
Forgettable(i) == made[i].lost = "no" /\ (file = NoFile \/ i \notin file.covers)

(* It is to be saved in time. *)
SaveIsDue(i) == dirty /\ saveTimer # Never /\ saveTimer <= made[i].at + SaveEvery

SavesInv ==
  /\ saveTimer # Never => clock <= saveTimer /\ saveTimer <= clock + SaveEvery
  /\ saving # NotSaving =>
       \A i \in DOMAIN made :
         made[i].lost = "no" /\ i \notin saving.covers => made[i].at = clock /\ Forgettable(i) /\ SaveIsDue(i)
  /\ saving = NotSaving /\ ~saveFailing => \A i \in DOMAIN made : Forgettable(i) => SaveIsDue(i)
  /\ saving # NotSaving /\ ~saveFailing =>
       \A i \in DOMAIN made : Forgettable(i) => clock <= made[i].at + SaveEvery

(* What a crash would forget, and what a file that cannot be read hides    *)
(* for the length of the cool-down, is followed at the spacing.            *)
SpacedFrom(i) ==
  \A j \in DOMAIN made : i < j /\ made[i].addr = made[j].addr => made[j].at - made[i].at >= Spacing

SpacingInv ==
  \A i \in DOMAIN made :
    Forgettable(i) \/ (CooldownCoversSpacing /\ made[i].lost # "unsaved") => SpacedFrom(i)

BudgetInv == BudgetTypeInv /\ RequestsInv /\ FilesInv /\ SavesInv /\ SpacingInv

-----------------------------------------------------------------------------
(* Facts the steps share. *)

LEMMA MaxOfTwo ==
  ASSUME NEW a \in Nat, NEW b \in Nat
  PROVE  Max({a, b}) \in Nat /\ Max({a, b}) >= a /\ Max({a, b}) >= b
<1>1. PICK m \in {a, b} : \A k \in {a, b} : m >= k
  OBVIOUS
<1> QED
  BY <1>1 DEF Max

LEMMA RequestTypes ==
  ASSUME BudgetTypeInv
  PROVE  /\ Len(made) \in Nat /\ DOMAIN made = 1 .. Len(made)
         /\ \A i \in DOMAIN made : /\ made[i] \in Request
                                   /\ made[i].addr \in Validators /\ made[i].at \in Nat \ {0}
<1>1. made \in Seq(Request)
  BY DEF BudgetTypeInv
<1>2. Len(made) \in Nat /\ DOMAIN made = 1 .. Len(made) /\ \A i \in DOMAIN made : made[i] \in Request
  BY <1>1, LenProperties, ElementOfSeq
<1> QED
  BY <1>2 DEF Request

LEMMA BudgetConstants ==
  Spacing \in Nat /\ UnknownCooldown \in Nat /\ SaveEvery \in Nat \ {0} /\ StartAt \in Nat /\ StartAt > Spacing
  /\ ShardSizes \subseteq Nat
BY BudgetAssumption

(* A save that was due still is, and one asked for is due in time. *)
LEMMA DueStaysDue ==
  ASSUME BudgetTypeInv, SavesInv, MarkDirty \/ UNCHANGED <<dirty, saveTimer>>, UNCHANGED clock
  PROVE  /\ dirty' \in BOOLEAN /\ saveTimer' \in Nat
         /\ saveTimer' # Never => clock <= saveTimer' /\ saveTimer' <= clock + SaveEvery
         /\ MarkDirty => dirty' /\ saveTimer' # Never
         /\ dirty /\ saveTimer # Never => dirty' /\ saveTimer' = saveTimer
<1>1. clock \in Nat /\ clock # 0 /\ saveTimer \in Nat /\ dirty \in BOOLEAN /\ SaveEvery \in Nat
  BY BudgetConstants DEF BudgetTypeInv
<1>2. saveTimer # Never => clock <= saveTimer /\ saveTimer <= clock + SaveEvery
  BY DEF SavesInv
<1>3. CASE MarkDirty
  <2>1. dirty' /\ saveTimer' = IF saveTimer = Never THEN clock + SaveEvery ELSE saveTimer
    BY <1>3 DEF MarkDirty
  <2>2. clock + SaveEvery \in Nat /\ clock + SaveEvery # 0 /\ clock <= clock + SaveEvery
    BY <1>1
  <2> QED
    BY <1>1, <1>2, <2>1, <2>2 DEF Never
<1>4. CASE ~MarkDirty /\ UNCHANGED <<dirty, saveTimer>>
  BY <1>1, <1>2, <1>4
<1> QED
  BY <1>3, <1>4

(* Of every request, what the invariant is about stays. *)
SameRequests ==
  /\ DOMAIN made' = DOMAIN made
  /\ \A i \in DOMAIN made :
       made'[i].addr = made[i].addr /\ made'[i].at = made[i].at /\ made'[i].lost = made[i].lost

(* A step of one call, between saves. *)
LEMMA CallStepInv ==
  ASSUME BudgetInv, BudgetTypeInv', SameRequests,
         UNCHANGED <<clock, cooldownUntil, saveFailing, saving, file>>,
         MarkDirty \/ UNCHANGED <<dirty, saveTimer>>,
         \A v \in Validators : lastRequest[v] <= lastRequest'[v],
         \A v \in Validators : call'[v].step # "none" => cooldownUntil <= clock,
         \A v \in Validators : call'[v].step \in {"admitted", "running"} => call'[v].id \in DOMAIN made
  PROVE  BudgetInv'
<1>1. \A i \in DOMAIN made : made[i].addr \in Validators /\ made[i].at \in Nat \ {0}
  BY RequestTypes DEF BudgetInv
<1>2. \A v \in Validators : lastRequest[v] \in Nat /\ lastRequest'[v] \in Nat
  BY DEF BudgetInv, BudgetTypeInv
<1>3. RequestsInv'
  <2>1. \A i \in DOMAIN made : made[i].lost = "no" => made[i].at <= lastRequest'[made[i].addr]
    BY <1>1, <1>2 DEF BudgetInv, RequestsInv
  <2> QED
    BY <2>1 DEF SameRequests, BudgetInv, RequestsInv
<1>4. FilesInv'
  BY DEF SameRequests, BudgetInv, FilesInv, KnowsItsRequests
<1>5. /\ saveTimer' # Never => clock <= saveTimer' /\ saveTimer' <= clock + SaveEvery
      /\ \A i \in DOMAIN made : (SaveIsDue(i) => SaveIsDue(i)') /\ (Forgettable(i)' <=> Forgettable(i))
  BY DueStaysDue DEF SameRequests, BudgetInv, SaveIsDue, Forgettable
<1>6. SavesInv'
  BY <1>5 DEF SameRequests, BudgetInv, SavesInv
<1>7. SpacingInv'
  <2>1. \A i \in DOMAIN made : SpacedFrom(i)' <=> SpacedFrom(i)
    BY DEF SameRequests, SpacedFrom
  <2> QED
    BY <1>5, <2>1 DEF SameRequests, BudgetInv, SpacingInv
<1> QED
  BY <1>3, <1>4, <1>6, <1>7 DEF BudgetInv

LEMMA RequestChanged ==
  ASSUME BudgetTypeInv, NEW i \in DOMAIN made, NEW e \in Request,
         e.addr = made[i].addr, e.at = made[i].at, e.lost = made[i].lost,
         made' = [made EXCEPT ![i] = e]
  PROVE  made' \in Seq(Request) /\ SameRequests
<1>1. made \in Seq(Request) /\ i \in 1 .. Len(made) /\ DOMAIN made = 1 .. Len(made)
  BY RequestTypes DEF BudgetTypeInv
<1>2. made' \in Seq(Request) /\ Len(made') = Len(made)
  BY <1>1, ExceptSeq
<1>3. DOMAIN made' = DOMAIN made
  OBVIOUS
<1> QED
  BY <1>2, <1>3 DEF SameRequests

-----------------------------------------------------------------------------
(* One call, step by step. *)

LEMMA AskInv ==
  ASSUME BudgetInv, NEW v \in Validators, Ask(v)
  PROVE  BudgetInv'
<1>1. /\ UNCHANGED <<clock, events, pending, lastRequest, restoredAt, cooldownUntil, saveFailing, saving, file, made>>
      /\ cooldownUntil <= clock
      /\ MarkDirty \/ UNCHANGED <<dirty, saveTimer>>
  BY DEF Ask, BudgetInv, BudgetTypeInv
<1>2. UNCHANGED call \/ \E bytes \in ShardSizes : call' = [call EXCEPT ![v] = [step |-> "waiting", bytes |-> bytes, id |-> 0]]
  BY DEF Ask
<1>3. call' \in [Validators -> [step : {"none", "waiting", "admitted", "running"}, bytes : Nat, id : Nat]]
  BY <1>2, BudgetConstants DEF BudgetInv, BudgetTypeInv
<1>4. \A w \in Validators : call'[w] = call[w] \/ call'[w].step = "waiting"
  BY <1>2 DEF BudgetInv, BudgetTypeInv
<1>5. BudgetTypeInv'
  BY <1>1, <1>3, DueStaysDue DEF BudgetInv, BudgetTypeInv
<1>6. SameRequests
  BY <1>1 DEF SameRequests
<1>7. \A w \in Validators : lastRequest[w] <= lastRequest'[w]
  BY <1>1 DEF BudgetInv, BudgetTypeInv
<1>8. /\ \A w \in Validators : call'[w].step # "none" => cooldownUntil <= clock
      /\ \A w \in Validators : call'[w].step \in {"admitted", "running"} => call'[w].id \in DOMAIN made
  BY <1>1, <1>4 DEF BudgetInv, RequestsInv
<1> QED
  BY <1>1, <1>5, <1>6, <1>7, <1>8, CallStepInv

LEMMA CallEndsInv ==
  ASSUME BudgetInv, NEW v \in Validators, Deny(v) \/ Release(v)
  PROVE  BudgetInv'
<1>1. /\ UNCHANGED <<clock, lastRequest, restoredAt, cooldownUntil, saveFailing, saving, file, made>>
      /\ call' = [call EXCEPT ![v] = Idle]
      /\ MarkDirty \/ UNCHANGED <<dirty, saveTimer>>
  BY DEF Deny, Release, policyVars
<1>2. /\ call' \in [Validators -> [step : {"none", "waiting", "admitted", "running"}, bytes : Nat, id : Nat]]
      /\ \A w \in Validators : call'[w] = call[w] \/ call'[w].step = "none"
  BY <1>1 DEF BudgetInv, BudgetTypeInv, Idle
<1>3. BudgetTypeInv'
  BY <1>1, <1>2, DueStaysDue DEF BudgetInv, BudgetTypeInv
<1>4. SameRequests
  BY <1>1 DEF SameRequests
<1>5. \A w \in Validators : lastRequest[w] <= lastRequest'[w]
  BY <1>1 DEF BudgetInv, BudgetTypeInv
<1>6. /\ \A w \in Validators : call'[w].step # "none" => cooldownUntil <= clock
      /\ \A w \in Validators : call'[w].step \in {"admitted", "running"} => call'[w].id \in DOMAIN made
  BY <1>2 DEF BudgetInv, RequestsInv
<1> QED
  BY <1>1, <1>3, <1>4, <1>5, <1>6, CallStepInv

LEMMA StartInv ==
  ASSUME BudgetInv, NEW v \in Validators, Start(v)
  PROVE  BudgetInv'
<1> DEFINE id == call[v].id
           e == [made[id] EXCEPT !.sent = TRUE]
<1>1. /\ UNCHANGED <<clock, lastRequest, restoredAt, cooldownUntil, saveFailing, dirty, saveTimer, saving, file>>
      /\ call[v].step = "admitted" /\ call' = [call EXCEPT ![v].step = "running"]
      /\ made' = [made EXCEPT ![id] = e]
  BY DEF Start, policyVars
<1>2. id \in DOMAIN made /\ made[id] \in Request
  BY <1>1, RequestTypes DEF BudgetInv, RequestsInv
<1>3. e \in Request /\ e.addr = made[id].addr /\ e.at = made[id].at /\ e.lost = made[id].lost
  BY <1>2 DEF Request
<1>4. made' \in Seq(Request) /\ SameRequests
  BY <1>1, <1>2, <1>3, RequestChanged DEF BudgetInv
<1>5. /\ call' \in [Validators -> [step : {"none", "waiting", "admitted", "running"}, bytes : Nat, id : Nat]]
      /\ \A w \in Validators : call'[w] = call[w] \/ (call[w].step = "admitted" /\ call'[w].id = call[w].id)
  BY <1>1 DEF BudgetInv, BudgetTypeInv
<1>6. BudgetTypeInv'
  BY <1>1, <1>4, <1>5 DEF BudgetInv, BudgetTypeInv
<1>7. \A w \in Validators : lastRequest[w] <= lastRequest'[w]
  BY <1>1 DEF BudgetInv, BudgetTypeInv
<1>8. /\ \A w \in Validators : call'[w].step # "none" => cooldownUntil <= clock
      /\ \A w \in Validators : call'[w].step \in {"admitted", "running"} => call'[w].id \in DOMAIN made
  BY <1>5 DEF BudgetInv, RequestsInv
<1> QED
  BY <1>1, <1>4, <1>6, <1>7, <1>8, CallStepInv

LEMMA AfterProbeInv ==
  ASSUME BudgetInv, NEW v \in Validators, AfterProbe(v)
  PROVE  BudgetInv'
<1> DEFINE id == call[v].id
<1>1. /\ UNCHANGED <<clock, restoredAt, cooldownUntil, saveFailing, saving, file>>
      /\ call[v].step = "running" /\ call' = [call EXCEPT ![v] = Idle]
      /\ lastRequest' = [lastRequest EXCEPT ![v] = Max({@, made[id].at})]
      /\ MarkDirty
  BY DEF AfterProbe
<1>2. PICK bytes \in {0, call[v].bytes} : made' = [made EXCEPT ![id].bytes = bytes]
  BY DEF AfterProbe
<1> DEFINE e == [made[id] EXCEPT !.bytes = bytes]
<1>3. id \in DOMAIN made /\ made[id] \in Request /\ made[id].at \in Nat /\ bytes \in Nat
  BY <1>1, RequestTypes DEF BudgetInv, RequestsInv, BudgetTypeInv
<1>4. e \in Request /\ e.addr = made[id].addr /\ e.at = made[id].at /\ e.lost = made[id].lost
  BY <1>3 DEF Request
<1>5. made' = [made EXCEPT ![id] = e]
  BY <1>2
<1>6. made' \in Seq(Request) /\ SameRequests
  BY <1>3, <1>4, <1>5, RequestChanged DEF BudgetInv
<1>7. /\ call' \in [Validators -> [step : {"none", "waiting", "admitted", "running"}, bytes : Nat, id : Nat]]
      /\ \A w \in Validators : call'[w] = call[w] \/ call'[w].step = "none"
  BY <1>1 DEF BudgetInv, BudgetTypeInv, Idle
<1>8. lastRequest' \in [Validators -> Nat] /\ \A w \in Validators : lastRequest[w] <= lastRequest'[w]
  <2> DEFINE last == Max({lastRequest[v], made[id].at})
  <2>1. lastRequest \in [Validators -> Nat]
    BY DEF BudgetInv, BudgetTypeInv
  <2>2. last \in Nat /\ lastRequest[v] <= last
    BY <1>3, <2>1, MaxOfTwo
  <2>3. lastRequest' = [lastRequest EXCEPT ![v] = last]
    BY <1>1
  <2> QED
    BY <2>1, <2>2, <2>3
<1>9. BudgetTypeInv'
  BY <1>1, <1>6, <1>7, <1>8, DueStaysDue DEF BudgetInv, BudgetTypeInv
<1>10. /\ \A w \in Validators : call'[w].step # "none" => cooldownUntil <= clock
       /\ \A w \in Validators : call'[w].step \in {"admitted", "running"} => call'[w].id \in DOMAIN made
  BY <1>7 DEF BudgetInv, RequestsInv
<1> QED
  BY <1>1, <1>6, <1>8, <1>9, <1>10, CallStepInv

(* A request that is admitted is as far from those before it as what the   *)
(* process knows, or has waited out, makes it.                             *)
LEMMA AdmittedIsSpaced ==
  ASSUME BudgetInv, NEW v \in Validators, Reserve(v), NEW i \in DOMAIN made, made[i].addr = v,
         Forgettable(i) \/ (CooldownCoversSpacing /\ made[i].lost # "unsaved")
  PROVE  clock - made[i].at >= Spacing
<1>1. made[i] \in Request /\ made[i].at \in Nat \ {0} /\ Spacing \in Nat /\ clock \in Nat /\ cooldownUntil \in Nat
  BY RequestTypes, BudgetConstants DEF BudgetInv, BudgetTypeInv
<1>2. CASE made[i].lost = "no"
  <2> DEFINE last == Max({lastRequest[v], restoredAt})
  <2>1. lastRequest[v] \in Nat /\ restoredAt \in Nat /\ made[i].at <= lastRequest[v]
    BY <1>2 DEF BudgetInv, RequestsInv, BudgetTypeInv
  <2>2. last \in Nat /\ lastRequest[v] <= last
    BY <2>1, MaxOfTwo
  <2>3. last = Never \/ Spacing <= clock - last
    <3>1. SpacingWait(v) = 0
      BY DEF Reserve
    <3> HIDE DEF last
    <3>2. (IF last = Never \/ Spacing <= clock - last THEN 0 ELSE Spacing - (clock - last)) = 0
      BY <3>1 DEF SpacingWait, last
    <3> QED
      BY <1>1, <2>2, <3>2
  <2> HIDE DEF last
  <2> QED
    BY <1>1, <2>1, <2>2, <2>3 DEF Never
<1>3. CASE made[i].lost = "unread" /\ CooldownCoversSpacing
  <2>1. made[i].at + Spacing <= cooldownUntil
    BY <1>3 DEF BudgetInv, RequestsInv
  <2>2. cooldownUntil <= clock
    BY DEF Reserve, BudgetInv, RequestsInv
  <2> QED
    BY <1>1, <2>1, <2>2
<1> QED
  BY <1>1, <1>2, <1>3 DEF Request, Forgettable

LEMMA ReserveInv ==
  ASSUME BudgetInv, NEW v \in Validators, Reserve(v)
  PROVE  BudgetInv'
<1>0. PICK new : new = Len(made) + 1
  OBVIOUS
<1> DEFINE r == [addr |-> v, at |-> clock, bytes |-> call[v].bytes, sent |-> FALSE, lost |-> "no"]
<1>1. /\ UNCHANGED <<clock, restoredAt, cooldownUntil, saveFailing, saving, file>>
      /\ call[v].step = "waiting"
      /\ call' = [call EXCEPT ![v] = [step |-> "admitted", bytes |-> @.bytes, id |-> new]]
      /\ lastRequest' = [lastRequest EXCEPT ![v] = clock]
      /\ made' = Append(made, r)
      /\ MarkDirty
  BY <1>0 DEF Reserve
<1>2. /\ Len(made) \in Nat /\ DOMAIN made = 1 .. Len(made)
      /\ \A i \in DOMAIN made : made[i] \in Request /\ made[i].addr \in Validators /\ made[i].at \in Nat \ {0}
  BY RequestTypes DEF BudgetInv
<1>3. r \in Request
  BY DEF Request, BudgetInv, BudgetTypeInv
<1>4. /\ made' \in Seq(Request) /\ DOMAIN made' = DOMAIN made \cup {new} /\ new \notin DOMAIN made
      /\ made'[new] = r /\ \A i \in DOMAIN made : made'[i] = made[i]
  <2>1. /\ made' \in Seq(Request) /\ Len(made') = Len(made) + 1
        /\ made'[new] = r /\ \A i \in 1 .. Len(made) : made'[i] = made[i]
    <3>1. made \in Seq(Request)
      BY DEF BudgetInv, BudgetTypeInv
    <3> QED
      BY <1>0, <1>1, <1>3, <3>1, AppendProperties
  <2>2. DOMAIN made' = 1 .. Len(made) + 1
    BY <2>1, LenProperties
  <2>3. 1 .. Len(made) + 1 = (1 .. Len(made)) \cup {new} /\ new \notin 1 .. Len(made)
    BY <1>0, <1>2
  <2> QED
    BY <1>2, <2>1, <2>2, <2>3
<1>5. new \in Nat /\ \A i \in DOMAIN made : i < new
  BY <1>0, <1>2
<1>6. BudgetTypeInv'
  <2>1. call' \in [Validators -> [step : {"none", "waiting", "admitted", "running"}, bytes : Nat, id : Nat]]
    BY <1>1, <1>5 DEF BudgetInv, BudgetTypeInv
  <2>2. lastRequest' \in [Validators -> Nat]
    BY <1>1 DEF BudgetInv, BudgetTypeInv
  <2> QED
    BY <1>1, <1>4, <2>1, <2>2, DueStaysDue DEF BudgetInv, BudgetTypeInv
<1>7. \A w \in Validators : lastRequest[w] \in Nat /\ lastRequest'[w] = IF w = v THEN clock ELSE lastRequest[w]
  BY <1>1 DEF BudgetInv, BudgetTypeInv
<1>8. RequestsInv'
  <2>1. \A i \in DOMAIN made' : made'[i].at <= clock'
    BY <1>1, <1>4 DEF BudgetInv, RequestsInv, BudgetTypeInv
  <2>2. \A i \in DOMAIN made' : made'[i].lost = "no" => made'[i].at <= lastRequest'[made'[i].addr]
    <3>1. made'[new].at = clock /\ lastRequest'[made'[new].addr] = clock /\ clock \in Nat
      BY <1>4, <1>7 DEF BudgetInv, BudgetTypeInv
    <3>2. ASSUME NEW i \in DOMAIN made, made[i].lost = "no"
          PROVE  made[i].at <= lastRequest'[made[i].addr]
      <4>1. made[i].addr \in Validators /\ made[i].at \in Nat /\ clock \in Nat
        BY <1>2, <3>1
      <4>2. made[i].at <= lastRequest[made[i].addr] /\ made[i].at <= clock
        BY <3>2 DEF BudgetInv, RequestsInv
      <4> QED
        BY <1>7, <4>1, <4>2
    <3> QED
      BY <1>4, <3>1, <3>2
  <2>3. \A i \in DOMAIN made' : made'[i].lost = "unread" /\ CooldownCoversSpacing => made'[i].at + Spacing <= cooldownUntil'
    BY <1>1, <1>4 DEF BudgetInv, RequestsInv
  <2>4. \A w \in Validators : call'[w] = IF w = v THEN [step |-> "admitted", bytes |-> call[v].bytes, id |-> new] ELSE call[w]
    BY <1>1 DEF BudgetInv, BudgetTypeInv
  <2>5. \A w \in Validators : call'[w].step # "none" => cooldownUntil' <= clock'
    BY <1>1, <2>4 DEF BudgetInv, RequestsInv
  <2>6. \A w \in Validators : call'[w].step \in {"admitted", "running"} => call'[w].id \in DOMAIN made'
    BY <1>4, <2>4 DEF BudgetInv, RequestsInv
  <2> QED
    BY <2>1, <2>2, <2>3, <2>5, <2>6 DEF RequestsInv
<1>9. FilesInv'
  BY <1>1, <1>4 DEF BudgetInv, FilesInv, KnowsItsRequests
<1>10. /\ saveTimer' # Never => clock <= saveTimer' /\ saveTimer' <= clock + SaveEvery
       /\ \A i \in DOMAIN made : (SaveIsDue(i) => SaveIsDue(i)') /\ (Forgettable(i)' <=> Forgettable(i))
       /\ SaveIsDue(new)' /\ made'[new].at = clock
  <2>1. /\ saveTimer' # Never => clock <= saveTimer' /\ saveTimer' <= clock + SaveEvery
        /\ dirty' /\ saveTimer' # Never
        /\ dirty /\ saveTimer # Never => dirty' /\ saveTimer' = saveTimer
    BY <1>1, DueStaysDue DEF BudgetInv
  <2>2. made'[new].at = clock
    BY <1>4
  <2>3. saveTimer' <= made'[new].at + SaveEvery
    BY <2>1, <2>2
  <2>4. SaveIsDue(new)'
    BY <2>1, <2>3 DEF SaveIsDue
  <2>5. \A i \in DOMAIN made : (SaveIsDue(i) => SaveIsDue(i)') /\ (Forgettable(i)' <=> Forgettable(i))
    BY <1>1, <1>4, <2>1 DEF SaveIsDue, Forgettable
  <2> QED
    BY <2>1, <2>2, <2>4, <2>5
<1>11. (Forgettable(new))'
  BY <1>1, <1>4 DEF Forgettable, BudgetInv, FilesInv, KnowsItsRequests
<1>12. SavesInv'
  <2>1. clock <= made'[new].at + SaveEvery
    BY <1>10, BudgetConstants DEF BudgetInv, BudgetTypeInv
  <2> QED
    <3>1. saving # NotSaving => new \notin saving.covers
      BY <1>4 DEF BudgetInv, FilesInv, KnowsItsRequests, NoFile, NotSaving
    <3>2. saving' # NotSaving =>
            \A i \in DOMAIN made' :
              made'[i].lost = "no" /\ i \notin saving'.covers => (made[i].at = clock /\ Forgettable(i) /\ SaveIsDue(i))'
      BY <1>1, <1>4, <1>10, <1>11 DEF BudgetInv, SavesInv
    <3>3. saving' = NotSaving /\ ~saveFailing' => \A i \in DOMAIN made' : Forgettable(i)' => SaveIsDue(i)'
      BY <1>1, <1>4, <1>10 DEF BudgetInv, SavesInv
    <3>4. saving' # NotSaving /\ ~saveFailing' =>
            \A i \in DOMAIN made' : Forgettable(i)' => clock' <= made'[i].at + SaveEvery
      BY <1>1, <1>4, <1>10, <2>1 DEF BudgetInv, SavesInv
    <3> QED
      BY <1>1, <1>10, <3>2, <3>3, <3>4 DEF SavesInv
<1>13. SpacingInv'
  <2> SUFFICES ASSUME NEW i \in DOMAIN made', (Forgettable(i) \/ (CooldownCoversSpacing /\ made[i].lost # "unsaved"))',
                      NEW j \in DOMAIN made', i < j, made'[i].addr = made'[j].addr
               PROVE  made'[j].at - made'[i].at >= Spacing
    BY DEF SpacingInv, SpacedFrom
  <2>1. i \in DOMAIN made
    BY <1>2, <1>4, <1>5
  <2>2. Forgettable(i) \/ (CooldownCoversSpacing /\ made[i].lost # "unsaved")
    BY <1>4, <1>10, <2>1 DEF CooldownCoversSpacing
  <2>3. CASE j = new
    BY <1>4, <2>1, <2>2, <2>3, AdmittedIsSpaced
  <2>4. CASE j # new
    BY <1>4, <2>1, <2>2, <2>4 DEF BudgetInv, SpacingInv, SpacedFrom
  <2> QED
    BY <2>3, <2>4
<1> QED
  BY <1>6, <1>8, <1>9, <1>12, <1>13 DEF BudgetInv

-----------------------------------------------------------------------------
(* Time, saves and restarts. *)

LEMMA TickInv ==
  ASSUME BudgetInv, Tick
  PROVE  BudgetInv'
<1>1. /\ UNCHANGED <<lastRequest, restoredAt, cooldownUntil, saveFailing, dirty, saveTimer, saving, file, call, made>>
      /\ clock' = clock + 1 /\ saving = NotSaving /\ (saveTimer = Never \/ saveTimer > clock)
  BY DEF Tick, policyVars
<1>2. clock \in Nat /\ clock # 0 /\ saveTimer \in Nat /\ cooldownUntil \in Nat /\ SaveEvery \in Nat
  BY BudgetConstants DEF BudgetInv, BudgetTypeInv
<1>3. \A i \in DOMAIN made : made[i].at \in Nat
  BY RequestTypes DEF BudgetInv
<1>4. BudgetTypeInv'
  BY <1>1, <1>2 DEF BudgetInv, BudgetTypeInv
<1>5. RequestsInv'
  <2>1. \A i \in DOMAIN made : made[i].at <= clock + 1
    BY <1>2, <1>3 DEF BudgetInv, RequestsInv
  <2>2. \A v \in Validators : call[v].step # "none" => cooldownUntil <= clock + 1
    BY <1>2 DEF BudgetInv, RequestsInv
  <2> QED
    BY <1>1, <2>1, <2>2 DEF BudgetInv, RequestsInv
<1>6. FilesInv'
  BY <1>1 DEF BudgetInv, FilesInv, KnowsItsRequests
<1>7. SavesInv'
  <2>1. saveTimer # Never => clock + 1 <= saveTimer /\ saveTimer <= clock + 1 + SaveEvery
    BY <1>1, <1>2 DEF BudgetInv, SavesInv
  <2> QED
    BY <1>1, <2>1 DEF BudgetInv, SavesInv, SaveIsDue, Forgettable
<1>8. SpacingInv'
  BY <1>1 DEF BudgetInv, SpacingInv, SpacedFrom, Forgettable, CooldownCoversSpacing
<1> QED
  BY <1>4, <1>5, <1>6, <1>7, <1>8 DEF BudgetInv

LEMMA SnapshotKnows ==
  ASSUME BudgetInv
  PROVE  /\ Snapshot # NoFile /\ Snapshot # NotSaving
         /\ KnowsItsRequests(Snapshot)
         /\ Snapshot.covers = {i \in DOMAIN made : made[i].lost = "no"}
<1>1. /\ Snapshot.savedAt = clock /\ Snapshot.lastRequest = lastRequest
      /\ Snapshot.covers = {i \in DOMAIN made : made[i].lost = "no"}
  BY DEF Snapshot
<1>2. Snapshot # NoFile /\ Snapshot # NotSaving
  <2>1. NoFile.savedAt = 0 /\ NotSaving.savedAt = 0 /\ clock # 0
    BY DEF NoFile, NotSaving, Never, BudgetInv, BudgetTypeInv
  <2> QED
    BY <1>1, <2>1
<1>3. /\ clock \in Nat \ {0} /\ lastRequest \in [Validators -> Nat]
      /\ \A i \in DOMAIN made : made[i].lost = "no" => made[i].at <= lastRequest[made[i].addr]
  BY DEF BudgetInv, BudgetTypeInv, RequestsInv
<1> QED
  BY <1>1, <1>2, <1>3 DEF KnowsItsRequests

LEMMA FlushBeginInv ==
  ASSUME BudgetInv, FlushBegin
  PROVE  BudgetInv'
<1>1. /\ UNCHANGED <<clock, lastRequest, restoredAt, cooldownUntil, saveFailing, file, call, made>>
      /\ saving = NotSaving /\ saveTimer # Never /\ saveTimer' = Never /\ dirty' = FALSE
      /\ saving' = IF dirty THEN Snapshot ELSE NotSaving
  BY DEF FlushBegin
<1>2. BudgetTypeInv'
  BY <1>1 DEF BudgetInv, BudgetTypeInv, Never
<1>3. RequestsInv'
  BY <1>1 DEF BudgetInv, RequestsInv
<1>4. \A i \in DOMAIN made : Forgettable(i)' <=> Forgettable(i)
  BY <1>1 DEF Forgettable
<1>5. FilesInv'
  <2>1. KnowsItsRequests(Snapshot) /\ KnowsItsRequests(file)
    BY SnapshotKnows DEF BudgetInv, FilesInv
  <2>2. \A f : KnowsItsRequests(f) => KnowsItsRequests(saving)' \/ saving' # f
    BY <1>1 DEF KnowsItsRequests
  <2>3. KnowsItsRequests(file)'
    BY <1>1, <2>1 DEF KnowsItsRequests
  <2>4. KnowsItsRequests(saving)'
    <3>1. CASE dirty
      BY <1>1, <2>1, <2>2, <3>1
    <3>2. CASE ~dirty
      BY <1>1, <3>2 DEF KnowsItsRequests, NoFile, NotSaving
    <3> QED
      BY <3>1, <3>2
  <2> QED
    BY <2>3, <2>4 DEF FilesInv
<1>6. SavesInv'
  <2>1. CASE dirty
    <3>1. saving' = Snapshot /\ saving' # NotSaving /\ saving'.covers = {i \in DOMAIN made : made[i].lost = "no"}
      BY <1>1, <2>1, SnapshotKnows
    <3>2. ASSUME ~saveFailing, NEW i \in DOMAIN made, Forgettable(i)
          PROVE  clock <= made[i].at + SaveEvery
      <4>1. clock <= saveTimer /\ saveTimer <= made[i].at + SaveEvery
        BY <1>1, <3>2 DEF BudgetInv, SavesInv, SaveIsDue
      <4>2. made[i].at \in Nat /\ saveTimer \in Nat /\ clock \in Nat /\ SaveEvery \in Nat
        BY RequestTypes, BudgetConstants DEF BudgetInv, BudgetTypeInv
      <4> QED
        BY <4>1, <4>2
    <3> QED
      BY <1>1, <1>4, <3>1, <3>2 DEF SavesInv
  <2>2. CASE ~dirty
    BY <1>1, <1>4, <2>2 DEF BudgetInv, SavesInv, SaveIsDue
  <2> QED
    BY <2>1, <2>2
<1>7. SpacingInv'
  BY <1>1, <1>4 DEF BudgetInv, SpacingInv, SpacedFrom, CooldownCoversSpacing
<1> QED
  BY <1>2, <1>3, <1>5, <1>6, <1>7 DEF BudgetInv

(* Every request the file leaves out after a save was made during it. *)
LEMMA FlushSavedInv ==
  ASSUME BudgetInv, FlushSaved
  PROVE  BudgetInv'
<1>1. /\ UNCHANGED <<clock, lastRequest, restoredAt, cooldownUntil, dirty, saveTimer, call, made>>
      /\ saving # NotSaving /\ file' = saving /\ saving' = NotSaving /\ saveFailing' = FALSE
  BY DEF FlushSaved
<1>2. BudgetTypeInv'
  BY <1>1 DEF BudgetInv, BudgetTypeInv
<1>3. RequestsInv'
  BY <1>1 DEF BudgetInv, RequestsInv
<1>4. FilesInv'
  BY <1>1 DEF BudgetInv, FilesInv, KnowsItsRequests, NoFile, NotSaving
<1>5. \A i \in DOMAIN made : Forgettable(i)' => Forgettable(i) /\ SaveIsDue(i)
  BY <1>1 DEF BudgetInv, SavesInv, Forgettable, NoFile, NotSaving
<1>6. SavesInv'
  BY <1>1, <1>5 DEF BudgetInv, SavesInv, SaveIsDue
<1>7. SpacingInv'
  BY <1>1, <1>5 DEF BudgetInv, SpacingInv, SpacedFrom, CooldownCoversSpacing
<1> QED
  BY <1>2, <1>3, <1>4, <1>6, <1>7 DEF BudgetInv

LEMMA FlushFailedInv ==
  ASSUME BudgetInv, FlushFailed
  PROVE  BudgetInv'
<1>1. /\ UNCHANGED <<clock, lastRequest, restoredAt, cooldownUntil, saveTimer, file, call, made>>
      /\ saving' = NotSaving /\ saveFailing' = TRUE /\ dirty' = TRUE
  BY DEF FlushFailed
<1>2. BudgetTypeInv'
  BY <1>1 DEF BudgetInv, BudgetTypeInv
<1>3. RequestsInv'
  BY <1>1 DEF BudgetInv, RequestsInv
<1>4. FilesInv'
  BY <1>1 DEF BudgetInv, FilesInv, KnowsItsRequests, NoFile, NotSaving
<1>5. SavesInv'
  BY <1>1 DEF BudgetInv, SavesInv
<1>6. SpacingInv'
  BY <1>1 DEF BudgetInv, SpacingInv, SpacedFrom, Forgettable, CooldownCoversSpacing
<1> QED
  BY <1>2, <1>3, <1>4, <1>5, <1>6 DEF BudgetInv

(* Whichever file the next process finds, what it does not know of is      *)
(* forgotten for good, or hidden behind the cool-down.                     *)
LEMMA RestartInv ==
  ASSUME BudgetInv, Restart
  PROVE  BudgetInv'
<1>1. /\ clock' = clock /\ saveFailing' = FALSE /\ dirty' = FALSE /\ saveTimer' = Never /\ saving' = NotSaving
      /\ call' = [v \in Validators |-> Idle]
  BY DEF Restart
<1>2. PICK f \in FilesLeft, readable \in BOOLEAN :
        /\ readable => f # NoFile
        /\ Restore(f, readable) /\ made' = Remembered(f, readable)
        /\ file' \in IF readable THEN {f} ELSE {f, NoFile}
  BY DEF Restart
<1>3. KnowsItsRequests(f)
  BY <1>2, SnapshotKnows DEF FilesLeft, BudgetInv, FilesInv
<1>4. /\ lastRequest' = [v \in Validators |-> IF readable THEN f.lastRequest[v] ELSE Never]
      /\ restoredAt' = IF readable THEN f.savedAt ELSE Never
      /\ cooldownUntil' = IF readable THEN Never ELSE clock + UnknownCooldown
  BY <1>2 DEF Restore
<1>5. /\ clock \in Nat \ {0} /\ UnknownCooldown \in Nat /\ Spacing \in Nat
      /\ \A i \in DOMAIN made : made[i] \in Request /\ made[i].addr \in Validators /\ made[i].at \in Nat \ {0}
  BY RequestTypes, BudgetConstants DEF BudgetInv, BudgetTypeInv
<1>6. /\ made' \in Seq(Request) /\ DOMAIN made' = DOMAIN made
      /\ \A i \in DOMAIN made :
           /\ made'[i].addr = made[i].addr /\ made'[i].at = made[i].at
           /\ made'[i].lost = IF readable /\ i \in f.covers THEN "no"
                              ELSE IF readable \/ made[i].lost = "unsaved" THEN "unsaved" ELSE "unread"
  <2> DEFINE then(i) == IF readable /\ i \in f.covers THEN "no"
                        ELSE IF readable \/ made[i].lost = "unsaved" THEN "unsaved" ELSE "unread"
             e(i) == [made[i] EXCEPT !.lost = then(i)]
  <2>1. made' = [i \in DOMAIN made |-> e(i)]
    BY <1>2 DEF Remembered
  <2>2. \A i \in DOMAIN made : then(i) \in {"no", "unsaved", "unread"}
    OBVIOUS
  <2> HIDE DEF then
  <2>3. \A i \in DOMAIN made : e(i) \in Request /\ e(i).addr = made[i].addr /\ e(i).at = made[i].at /\ e(i).lost = then(i)
    BY <1>5, <2>2 DEF Request
  <2> HIDE DEF e
  <2>4. made' \in [1 .. Len(made) -> Request] /\ Len(made) \in Nat /\ DOMAIN made' = DOMAIN made
    BY <2>1, <2>3, RequestTypes DEF BudgetInv
  <2>5. made' \in Seq(Request)
    BY <2>4, SeqDef
  <2>6. \A i \in DOMAIN made : made'[i].addr = made[i].addr /\ made'[i].at = made[i].at /\ made'[i].lost = then(i)
    BY <2>1, <2>3
  <2> QED
    BY <2>4, <2>5, <2>6 DEF then
<1>7. BudgetTypeInv'
  <2>1. lastRequest' \in [Validators -> Nat] /\ restoredAt' \in Nat /\ cooldownUntil' \in Nat
    BY <1>2, <1>3, <1>4, <1>5 DEF KnowsItsRequests, Never
  <2>2. call' \in [Validators -> [step : {"none", "waiting", "admitted", "running"}, bytes : Nat, id : Nat]]
    BY <1>1 DEF Idle
  <2> QED
    BY <1>1, <1>5, <1>6, <2>1, <2>2 DEF BudgetTypeInv, Never
<1>8. RequestsInv'
  <2>1. \A i \in DOMAIN made : made[i].at <= clock
    BY DEF BudgetInv, RequestsInv
  <2>2. \A i \in DOMAIN made : made'[i].lost = "no" => made[i].at <= lastRequest'[made[i].addr]
    BY <1>2, <1>3, <1>4, <1>5, <1>6 DEF KnowsItsRequests
  <2>3. \A i \in DOMAIN made : made'[i].lost = "unread" /\ CooldownCoversSpacing => made[i].at + Spacing <= cooldownUntil'
    BY <1>4, <1>5, <1>6, <2>1 DEF CooldownCoversSpacing
  <2>4. \A v \in Validators : call'[v].step = "none"
    BY <1>1 DEF Idle
  <2> QED
    BY <1>1, <1>6, <2>1, <2>2, <2>3, <2>4 DEF RequestsInv, CooldownCoversSpacing
<1>9. FilesInv'
  <2>1. ASSUME f # NoFile
        PROVE  /\ f.savedAt \in Nat \ {0} /\ f.lastRequest \in [Validators -> Nat] /\ f.covers \subseteq DOMAIN made'
               /\ \A i \in f.covers : made'[i].at <= f.lastRequest[made'[i].addr] /\ made'[i].lost # "unsaved"
    BY <1>3, <1>6, <2>1 DEF KnowsItsRequests
  <2>2. file' = f \/ file' = NoFile
    BY <1>2
  <2> QED
    BY <1>1, <2>1, <2>2 DEF FilesInv, KnowsItsRequests, NoFile, NotSaving
<1>10. \A i \in DOMAIN made : ~Forgettable(i)'
  BY <1>2, <1>6 DEF Forgettable
<1>11. SavesInv'
  BY <1>1, <1>6, <1>10 DEF SavesInv
<1>12. SpacingInv'
  <2>1. \A i \in DOMAIN made : made'[i].lost # "unsaved" => made[i].lost # "unsaved"
    BY <1>2, <1>3, <1>6 DEF KnowsItsRequests
  <2>2. \A i \in DOMAIN made : SpacedFrom(i) => SpacedFrom(i)'
    BY <1>6 DEF SpacedFrom
  <2> QED
    BY <1>6, <1>10, <2>1, <2>2 DEF BudgetInv, SpacingInv, CooldownCoversSpacing
<1> QED
  BY <1>7, <1>8, <1>9, <1>11, <1>12 DEF BudgetInv

LEMMA InitBudget == Init => BudgetInv
<1> SUFFICES ASSUME Init PROVE BudgetInv
  OBVIOUS
<1>1. /\ made = <<>> /\ DOMAIN made = {} /\ made \in Seq(Request)
  <2>1. made = <<>>
    BY DEF Init
  <2>2. <<>> \in Seq(Request) /\ Len(<<>>) = 0
    BY EmptySeq
  <2> QED
    BY <2>1, <2>2, LenProperties
<1>2. file = NoFile \/ (file = OldFile /\ file # NoFile)
  <2>1. OldFile.savedAt # NoFile.savedAt
    BY BudgetConstants DEF OldFile, NoFile, Never
  <2> QED
    BY <2>1 DEF Init
<1>3. NoFile.savedAt = 0 /\ OldFile.savedAt \in Nat \ {0} /\ OldFile.covers = {} /\ OldFile.lastRequest \in [Validators -> Nat]
  BY BudgetConstants DEF NoFile, OldFile, Never
<1>4. BudgetTypeInv
  <2>1. restoredAt \in Nat
    BY <1>2, <1>3 DEF Init
  <2>2. clock \in Nat \ {0} /\ cooldownUntil \in Nat
    BY BudgetConstants DEF Init, Never
  <2>3. /\ lastRequest \in [Validators -> Nat]
        /\ call \in [Validators -> [step : {"none", "waiting", "admitted", "running"}, bytes : Nat, id : Nat]]
    BY DEF Init, Never, Idle
  <2> QED
    BY <1>1, <2>1, <2>2, <2>3 DEF BudgetTypeInv, Init, Never
<1>5. RequestsInv
  BY <1>1 DEF Init, Idle, RequestsInv
<1>6. FilesInv
  BY <1>1, <1>2, <1>3 DEF Init, FilesInv, KnowsItsRequests, NoFile, NotSaving
<1>7. SavesInv
  BY <1>1 DEF Init, SavesInv
<1>8. SpacingInv
  BY <1>1 DEF SpacingInv
<1> QED
  BY <1>4, <1>5, <1>6, <1>7, <1>8 DEF BudgetInv

LEMMA NextBudget == BudgetInv /\ [Next]_vars => BudgetInv'
<1> SUFFICES ASSUME BudgetInv, [Next]_vars PROVE BudgetInv'
  OBVIOUS
<1>1. CASE Tick
  BY <1>1, TickInv
<1>2. CASE \E v \in Validators : Ask(v) \/ Reserve(v) \/ Deny(v) \/ Start(v) \/ AfterProbe(v) \/ Release(v)
  BY <1>2, AskInv, ReserveInv, CallEndsInv, StartInv, AfterProbeInv
<1>3. CASE FlushBegin \/ FlushSaved \/ FlushFailed
  BY <1>3, FlushBeginInv, FlushSavedInv, FlushFailedInv
<1>4. CASE Restart
  BY <1>4, RestartInv
<1>5. CASE UNCHANGED vars
  <2>1. UNCHANGED <<clock, lastRequest, restoredAt, cooldownUntil, saveFailing, dirty, saveTimer, saving, file, call, made>>
    BY <1>5 DEF vars, policyVars
  <2>2. BudgetTypeInv' /\ RequestsInv'
    BY <2>1 DEF BudgetInv, BudgetTypeInv, RequestsInv
  <2>3. FilesInv'
    BY <2>1 DEF BudgetInv, FilesInv, KnowsItsRequests
  <2>4. SavesInv' /\ SpacingInv'
    BY <2>1 DEF BudgetInv, SavesInv, SpacingInv, SpacedFrom, SaveIsDue, Forgettable, CooldownCoversSpacing
  <2> QED
    BY <2>2, <2>3, <2>4 DEF BudgetInv
<1> QED
  BY <1>1, <1>2, <1>3, <1>4, <1>5 DEF Next

(* What the policy and its file know of every request, in every state that *)
(* asks, probes, saves that succeed or fail, and restarts can reach        *)
(* (policy.go, budgetstate.go).                                            *)
THEOREM BudgetInvariant == Spec => []BudgetInv
<1> QED
  BY InitBudget, NextBudget, PTL DEF Spec

-----------------------------------------------------------------------------
(* What follows. *)

LEMMA SpacingFromInv ==
  ASSUME BudgetInv, CooldownCoversSpacing
  PROVE  SpacingKept
<1> SUFFICES ASSUME NEW i \in Sent, NEW j \in Sent, i < j, made[i].addr = made[j].addr, Answerable(i, Spacing)
             PROVE  made[j].at - made[i].at >= Spacing
  BY DEF SpacingKept
<1>1. i \in DOMAIN made /\ j \in DOMAIN made
  BY DEF Sent
<1>2. made[i].lost # "unsaved"
  BY DEF Answerable
<1> QED
  BY <1>1, <1>2 DEF BudgetInv, SpacingInv, SpacedFrom

(* Where the cool-down is no shorter than the spacing, two requests to one *)
(* validator are never closer than the spacing, whatever was restarted,    *)
(* could not be read or was not saved in between, but for the requests a   *)
(* crash came too early to save (policy.go:938-952).                       *)
THEOREM SpacingAlwaysKept ==
  ASSUME CooldownCoversSpacing
  PROVE  Spec => []SpacingKept
<1>1. BudgetInv => SpacingKept
  BY SpacingFromInv
<1> QED
  BY <1>1, BudgetInvariant, PTL

LEMMA ForgetsAtMostOneFromInv ==
  ASSUME BudgetInv, SavedWithinSpacing
  PROVE  CrashForgetsAtMostOne
<1> SUFFICES ASSUME ~saveFailing, NEW v \in Validators
             PROVE  Cardinality({i \in Sent : /\ made[i].addr = v /\ made[i].lost = "no"
                                              /\ (file = NoFile \/ i \notin file.covers)}) <= 1
  BY DEF CrashForgetsAtMostOne
<1> DEFINE left == {i \in Sent : /\ made[i].addr = v /\ made[i].lost = "no"
                                 /\ (file = NoFile \/ i \notin file.covers)}
<1>1. \A i \in left : i \in DOMAIN made /\ made[i].addr = v /\ Forgettable(i)
  BY DEF Sent, Forgettable
<1> HIDE DEF left
<1>2. \A i \in DOMAIN made : made[i].at \in Nat /\ made[i].at <= clock
  BY RequestTypes DEF BudgetInv, RequestsInv
<1>3. clock \in Nat /\ saveTimer \in Nat /\ SaveEvery \in Nat /\ Spacing \in Nat /\ SaveEvery < Spacing
  BY BudgetConstants DEF BudgetInv, BudgetTypeInv, SavedWithinSpacing
<1>4. ASSUME NEW i \in left
      PROVE  clock <= made[i].at + SaveEvery
  <2>1. i \in DOMAIN made /\ Forgettable(i) /\ made[i].at \in Nat
    BY <1>1, <1>2
  <2>2. CASE saving = NotSaving
    <3>1. clock <= saveTimer /\ saveTimer <= made[i].at + SaveEvery
      BY <2>1, <2>2 DEF BudgetInv, SavesInv, SaveIsDue
    <3> QED
      BY <1>3, <2>1, <3>1
  <2>3. CASE saving # NotSaving
    BY <2>1, <2>3 DEF BudgetInv, SavesInv
  <2> QED
    BY <2>2, <2>3
<1>5. \A i, j \in left : ~(i < j)
  <2> SUFFICES ASSUME NEW i \in left, NEW j \in left, i < j PROVE FALSE
    OBVIOUS
  <2>1. made[j].at - made[i].at >= Spacing
    BY <1>1 DEF BudgetInv, SpacingInv, SpacedFrom
  <2>2. clock <= made[i].at + SaveEvery
    BY <1>4
  <2>3. made[i].at \in Nat /\ made[j].at \in Nat /\ made[j].at <= clock
    BY <1>1, <1>2
  <2> QED
    BY <1>3, <2>1, <2>2, <2>3
<1>6. \A i, j \in left : i = j
  <2>1. \A i \in left : i \in Nat
    BY <1>1, RequestTypes DEF BudgetInv
  <2> QED
    BY <1>5, <2>1
<1>7. Cardinality(left) <= 1
  <2>1. CASE left = {}
    BY <2>1, FS_EmptySet
  <2>2. CASE left # {}
    <3>1. PICK i : left = {i}
      BY <1>6, <2>2
    <3>2. Cardinality({i}) = 1
      BY FS_Singleton
    <3> QED
      BY <3>1, <3>2
  <2> QED
    BY <2>1, <2>2
<1> QED
  BY <1>7 DEF left

(* Where saves are closer together than the spacing, a crash at any moment *)
(* forgets at most one request of a validator, unless a save has just      *)
(* failed (budgetstate.go:41-45).                                          *)
THEOREM CrashAlwaysForgetsAtMostOne ==
  ASSUME SavedWithinSpacing
  PROVE  Spec => []CrashForgetsAtMostOne
<1>1. BudgetInv => CrashForgetsAtMostOne
  BY ForgetsAtMostOneFromInv
<1> QED
  BY <1>1, BudgetInvariant, PTL

-----------------------------------------------------------------------------
(* Sums over finite sets.                                                  *)

LEMMA LeastOf ==
  ASSUME NEW T \in SUBSET Nat, T # {}
  PROVE  \E x \in T : \A y \in T : x <= y
<1>1. PICK x \in T : \A y \in T : ~(<<y, x>> \in OpToRel(<, Nat))
  BY NatLessThanWellFounded, WFMin
<1>2. \A y \in T : ~(y < x)
  BY <1>1 DEF OpToRel
<1> QED
  BY <1>2

Pick(s) == CHOOSE x \in s : TRUE

(* The sums of f over the sets of D, one element taken out at a time. *)
AreSums(g, D, f) == \A s \in D : g[s] = IF s = {} THEN 0 ELSE f[Pick(s)] + g[s \ {Pick(s)}]

LEMMA SumsExist ==
  ASSUME NEW S, IsFiniteSet(S), NEW f
  PROVE  \E g : AreSums(g, SUBSET S, f) /\ SumFunctionOnSet(f, S) = g[S]
<1> DEFINE N == Cardinality(S)
           Upto(m) == {s \in SUBSET S : Cardinality(s) <= m}
           body(g, s) == IF s = {} THEN 0 ELSE f[Pick(s)] + g[s \ {Pick(s)}]
           T == {m \in 0 .. N : \A g : g # [s \in Upto(m) |-> body(g, s)]}
<1>1. N \in Nat /\ \A s \in SUBSET S : IsFiniteSet(s) /\ Cardinality(s) \in Nat /\ Cardinality(s) <= N
  BY FS_CardinalityType, FS_Subset
<1>2. \A s \in SUBSET S : s # {} => /\ Pick(s) \in s /\ s \ {Pick(s)} \in SUBSET S
                                    /\ Cardinality(s \ {Pick(s)}) = Cardinality(s) - 1
  <2> SUFFICES ASSUME NEW s \in SUBSET S, s # {}
               PROVE  Pick(s) \in s /\ s \ {Pick(s)} \in SUBSET S /\ Cardinality(s \ {Pick(s)}) = Cardinality(s) - 1
    OBVIOUS
  <2>1. Pick(s) \in s
    BY DEF Pick
  <2> QED
    BY <1>1, <2>1, FS_RemoveElement
<1>3. \A s \in SUBSET S : Cardinality(s) = 0 <=> s = {}
  BY <1>1, FS_EmptySet
<1>4. T = {}
  <2> SUFFICES ASSUME T # {} PROVE FALSE
    OBVIOUS
  <2>1. PICK m \in T : \A k \in T : m <= k
    <3>1. T \in SUBSET Nat
      BY <1>1
    <3> HIDE DEF T
    <3> QED
      BY <3>1, LeastOf
  <2>2. m \in 0 .. N /\ \A g : g # [s \in Upto(m) |-> body(g, s)]
    OBVIOUS
  <2>3. CASE m = 0
    <3> DEFINE g == [s \in Upto(0) |-> 0]
    <3>1. Upto(m) = Upto(0) /\ \A s \in Upto(0) : s = {}
      BY <1>1, <1>3, <2>3
    <3>2. g = [s \in Upto(m) |-> body(g, s)]
      BY <3>1
    <3> QED
      BY <2>2, <3>2
  <2>4. CASE m # 0
    <3>1. m - 1 \in 0 .. N /\ m - 1 \notin T
      <4> HIDE DEF T
      <4> QED
        BY <1>1, <2>1, <2>2, <2>4
    <3>2. PICK h : h = [s \in Upto(m - 1) |-> body(h, s)]
      <4> HIDE DEF body
      <4> QED
        BY <3>1
    <3> DEFINE g == [s \in Upto(m) |-> IF s = {} THEN 0 ELSE f[Pick(s)] + h[s \ {Pick(s)}]]
    <3>3. \A s \in Upto(m - 1) : s \in Upto(m) /\ h[s] = body(h, s)
      <4>1. \A s \in Upto(m - 1) : s \in Upto(m)
        BY <1>1, <2>2
      <4> HIDE DEF body, Upto
      <4>2. \A s \in Upto(m - 1) : h[s] = body(h, s)
        BY <3>2
      <4> QED
        BY <4>1, <4>2
    <3>4. \A s \in Upto(m) : s # {} => s \ {Pick(s)} \in Upto(m - 1)
      BY <1>1, <1>2, <2>2
    <3>5. \A s \in Upto(m - 1) : g[s] = h[s]
      <4>1. \A s \in Upto(m) : g[s] = body(h, s)
        OBVIOUS
      <4> HIDE DEF g
      <4> QED
        BY <3>3, <4>1
    <3>6. \A s \in Upto(m) : s # {} => g[s \ {Pick(s)}] = h[s \ {Pick(s)}]
      BY <3>4, <3>5
    <3>7. \A s \in Upto(m) : g[s] = body(g, s)
      <4>1. \A s \in Upto(m) : g[s] = IF s = {} THEN 0 ELSE f[Pick(s)] + h[s \ {Pick(s)}]
        OBVIOUS
      <4> HIDE DEF g
      <4> QED
        BY <3>6, <4>1
    <3>8. g = [s \in Upto(m) |-> body(g, s)]
      <4>1. g = [s \in Upto(m) |-> g[s]]
        OBVIOUS
      <4> HIDE DEF g
      <4> QED
        BY <3>7, <4>1
    <3> QED
      BY <2>2, <3>8
  <2> QED
    BY <2>3, <2>4
<1>5. Upto(N) = SUBSET S /\ N \in 0 .. N
  BY <1>1
<1> DEFINE iter == CHOOSE g : g = [s \in SUBSET S |-> body(g, s)]
<1>6. iter = [s \in SUBSET S |-> body(iter, s)]
  <2>1. N \notin T
    BY <1>4
  <2>2. \E g : g = [s \in SUBSET S |-> body(g, s)]
    BY <1>5, <2>1
  <2> QED
    BY <2>2
<1>7. SumFunctionOnSet(f, S) = iter[S]
  BY DEF SumFunctionOnSet, FoldFunctionOnSet, MapThenFoldSet, Pick
<1> HIDE DEF iter
<1>8. AreSums(iter, SUBSET S, f)
  <2>1. \A s \in SUBSET S : iter[s] = body(iter, s)
    BY <1>6
  <2> QED
    BY <2>1 DEF AreSums
<1> QED
  BY <1>7, <1>8

LEMMA SumsAgree ==
  ASSUME NEW S, IsFiniteSet(S), NEW f, NEW g, AreSums(g, SUBSET S, f),
         NEW T \in SUBSET S, NEW h, AreSums(h, SUBSET T, f)
  PROVE  \A s \in SUBSET T : g[s] = h[s]
<1> DEFINE bad == {s \in SUBSET T : g[s] # h[s]}
           K == {Cardinality(s) : s \in bad}
<1>1. \A s \in SUBSET T : IsFiniteSet(s) /\ Cardinality(s) \in Nat
  BY FS_CardinalityType, FS_Subset
<1>2. K = {}
  <2> SUFFICES ASSUME K # {} PROVE FALSE
    OBVIOUS
  <2>1. PICK n \in K : \A k \in K : n <= k
    <3>1. K \in SUBSET Nat
      BY <1>1
    <3> HIDE DEF K
    <3> QED
      BY <3>1, LeastOf
  <2>2. PICK s \in bad : n = Cardinality(s)
    OBVIOUS
  <2>3. s \in SUBSET T /\ s \in SUBSET S /\ g[s] # h[s]
    OBVIOUS
  <2>4. s # {}
    BY <2>3 DEF AreSums
  <2>5. Pick(s) \in s
    BY <2>4 DEF Pick
  <2>6. Cardinality(s \ {Pick(s)}) = n - 1 /\ n \in Nat
    BY <1>1, <2>2, <2>3, <2>5, FS_RemoveElement
  <2>7. s \ {Pick(s)} \notin bad
    BY <2>1, <2>6
  <2>8. g[s \ {Pick(s)}] = h[s \ {Pick(s)}]
    BY <2>3, <2>7
  <2> QED
    BY <2>3, <2>4, <2>8 DEF AreSums
<1> QED
  BY <1>2

LEMMA SumEmpty == ASSUME NEW f PROVE SumFunctionOnSet(f, {}) = 0
<1>1. PICK g : AreSums(g, SUBSET {}, f) /\ SumFunctionOnSet(f, {}) = g[{}]
  BY SumsExist, FS_EmptySet
<1> QED
  BY <1>1 DEF AreSums

LEMMA SumPick ==
  ASSUME NEW S, IsFiniteSet(S), S # {}, NEW f
  PROVE  /\ Pick(S) \in S
         /\ SumFunctionOnSet(f, S) = f[Pick(S)] + SumFunctionOnSet(f, S \ {Pick(S)})
<1>1. Pick(S) \in S
  BY DEF Pick
<1>2. PICK R : R = S \ {Pick(S)}
  OBVIOUS
<1>3. IsFiniteSet(R) /\ R \in SUBSET S
  BY <1>2, FS_Subset
<1>4. PICK g : AreSums(g, SUBSET S, f) /\ SumFunctionOnSet(f, S) = g[S]
  BY SumsExist
<1>5. PICK h : AreSums(h, SUBSET R, f) /\ SumFunctionOnSet(f, R) = h[R]
  BY <1>3, SumsExist
<1>6. \A s \in SUBSET R : g[s] = h[s]
  BY <1>3, <1>4, <1>5, SumsAgree, SMTT(60)
<1>7. g[S] = f[Pick(S)] + g[R]
  BY <1>2, <1>4 DEF AreSums
<1> QED
  BY <1>1, <1>2, <1>4, <1>5, <1>6, <1>7

(* A set of which something would be false has one with the fewest elements. *)
LEMMA Fewest ==
  ASSUME NEW D, \A s \in D : IsFiniteSet(s), D # {}
  PROVE  \E s \in D : \A t \in D : Cardinality(s) <= Cardinality(t)
<1> DEFINE K == {Cardinality(s) : s \in D}
<1>1. K \in SUBSET Nat /\ K # {}
  BY FS_CardinalityType
<1> HIDE DEF K
<1>2. PICK n \in K : \A k \in K : n <= k
  BY <1>1, LeastOf
<1> USE DEF K
<1>3. PICK s \in D : n = Cardinality(s)
  OBVIOUS
<1> QED
  BY <1>2, <1>3

LEMMA OneLess ==
  ASSUME NEW S, IsFiniteSet(S), NEW x \in S
  PROVE  /\ IsFiniteSet(S \ {x}) /\ Cardinality(S \ {x}) \in Nat /\ Cardinality(S) \in Nat
         /\ ~(Cardinality(S) <= Cardinality(S \ {x}))
<1>1. IsFiniteSet(S \ {x}) /\ Cardinality(S \ {x}) = Cardinality(S) - 1
  BY FS_RemoveElement
<1>2. Cardinality(S \ {x}) \in Nat /\ Cardinality(S) \in Nat
  BY <1>1, FS_CardinalityType
<1> QED
  BY <1>1, <1>2

LEMMA SumIsNat ==
  ASSUME NEW S, IsFiniteSet(S), NEW f, \A x \in S : f[x] \in Nat
  PROVE  SumFunctionOnSet(f, S) \in Nat
<1> DEFINE bad == {s \in SUBSET S : SumFunctionOnSet(f, s) \notin Nat}
<1>1. \A s \in SUBSET S : IsFiniteSet(s)
  BY FS_Subset
<1>2. ASSUME bad # {} PROVE FALSE
  <2>1. PICK s \in bad : \A t \in bad : Cardinality(s) <= Cardinality(t)
    <3>1. \A s \in bad : IsFiniteSet(s)
      BY <1>1
    <3> HIDE DEF bad
    <3> QED
      BY <1>2, <3>1, Fewest
  <2>2. s \in SUBSET S /\ IsFiniteSet(s) /\ SumFunctionOnSet(f, s) \notin Nat
    BY <1>1
  <2>3. s # {}
    BY <2>2, SumEmpty
  <2>4. Pick(s) \in s /\ SumFunctionOnSet(f, s) = f[Pick(s)] + SumFunctionOnSet(f, s \ {Pick(s)})
    BY <2>2, <2>3, SumPick
  <2>5. ~(Cardinality(s) <= Cardinality(s \ {Pick(s)}))
    BY <2>2, <2>4, OneLess
  <2>6. s \ {Pick(s)} \notin bad /\ s \ {Pick(s)} \in SUBSET S
    BY <2>1, <2>2, <2>5
  <2>7. SumFunctionOnSet(f, s \ {Pick(s)}) \in Nat
    BY <2>6
  <2> QED
    BY <2>2, <2>4, <2>7
<1> QED
  BY <1>2

(* Any element may be the one taken out. *)
LEMMA SumWithout ==
  ASSUME NEW S, IsFiniteSet(S), NEW f, \A x \in S : f[x] \in Nat, NEW x \in S
  PROVE  SumFunctionOnSet(f, S) = f[x] + SumFunctionOnSet(f, S \ {x})
<1> DEFINE bad == {s \in SUBSET S : \E y \in s : SumFunctionOnSet(f, s) # f[y] + SumFunctionOnSet(f, s \ {y})}
<1>1. \A s \in SUBSET S : IsFiniteSet(s) /\ SumFunctionOnSet(f, s) \in Nat
  BY FS_Subset, SumIsNat
<1>2. ASSUME bad # {} PROVE FALSE
  <2>1. PICK s \in bad : \A t \in bad : Cardinality(s) <= Cardinality(t)
    <3>1. \A s \in bad : IsFiniteSet(s)
      BY <1>1
    <3> HIDE DEF bad
    <3> QED
      BY <1>2, <3>1, Fewest
  <2>2. PICK y \in s : SumFunctionOnSet(f, s) # f[y] + SumFunctionOnSet(f, s \ {y})
    OBVIOUS
  <2>3. s \in SUBSET S /\ IsFiniteSet(s) /\ s # {} /\ f[y] \in Nat
    BY <1>1
  <2> DEFINE c == Pick(s)
  <2>4. c \in s /\ SumFunctionOnSet(f, s) = f[c] + SumFunctionOnSet(f, s \ {c}) /\ f[c] \in Nat
    BY <2>3, SumPick
  <2>5. c # y
    BY <2>2, <2>4
  <2>6. s \ {c} \notin bad /\ s \ {y} \notin bad
    BY <2>1, <2>3, <2>4, OneLess
  <2> HIDE DEF c
  <2>7. y \in s \ {c} /\ c \in s \ {y} /\ s \ {c} \in SUBSET S /\ s \ {y} \in SUBSET S
    BY <2>3, <2>4, <2>5
  <2>8. SumFunctionOnSet(f, s \ {c}) = f[y] + SumFunctionOnSet(f, (s \ {c}) \ {y})
    BY <2>6, <2>7
  <2>9. SumFunctionOnSet(f, s \ {y}) = f[c] + SumFunctionOnSet(f, (s \ {y}) \ {c})
    BY <2>6, <2>7
  <2>10. (s \ {c}) \ {y} = (s \ {y}) \ {c}
    OBVIOUS
  <2>11. SumFunctionOnSet(f, (s \ {y}) \ {c}) \in Nat
    BY <1>1, <2>3
  <2> HIDE DEF bad
  <2>12. SumFunctionOnSet(f, s \ {c}) = f[y] + SumFunctionOnSet(f, (s \ {y}) \ {c})
    BY <2>8, <2>10
  <2> DEFINE all == SumFunctionOnSet(f, s)
             noC == SumFunctionOnSet(f, s \ {c})
             noY == SumFunctionOnSet(f, s \ {y})
             rest == SumFunctionOnSet(f, (s \ {y}) \ {c})
  <2>13. all # f[y] + noY /\ all = f[c] + noC /\ noC = f[y] + rest /\ noY = f[c] + rest /\ rest \in Nat
    BY <2>2, <2>4, <2>9, <2>11, <2>12
  <2> HIDE DEF all, noC, noY, rest
  <2> QED
    BY <2>3, <2>4, <2>13
<1>3. S \notin bad
  BY <1>2
<1> QED
  BY <1>3

LEMMA SumWith ==
  ASSUME NEW S, IsFiniteSet(S), NEW x, x \notin S, NEW f, \A y \in S \cup {x} : f[y] \in Nat
  PROVE  SumFunctionOnSet(f, S \cup {x}) = f[x] + SumFunctionOnSet(f, S)
<1>1. IsFiniteSet(S \cup {x}) /\ (S \cup {x}) \ {x} = S /\ x \in S \cup {x}
  BY FS_AddElement
<1>2. SumFunctionOnSet(f, S \cup {x}) = f[x] + SumFunctionOnSet(f, (S \cup {x}) \ {x})
  BY <1>1, SumWithout
<1> QED
  BY <1>1, <1>2

(* Of more elements, and of larger ones, the sum is no smaller. *)
LEMMA SumGrows ==
  ASSUME NEW S, IsFiniteSet(S), NEW f, NEW g, \A x \in S : f[x] \in Nat,
         NEW T \in SUBSET S, \A x \in T : g[x] \in Nat /\ g[x] <= f[x]
  PROVE  SumFunctionOnSet(g, T) <= SumFunctionOnSet(f, S)
<1> DEFINE bad == {s \in SUBSET S : ~(SumFunctionOnSet(g, s \cap T) <= SumFunctionOnSet(f, s))}
<1>1. \A s \in SUBSET S : /\ IsFiniteSet(s) /\ SumFunctionOnSet(f, s) \in Nat
                          /\ IsFiniteSet(s \cap T) /\ SumFunctionOnSet(g, s \cap T) \in Nat
  BY FS_Subset, SumIsNat
<1>2. ASSUME bad # {} PROVE FALSE
  <2>1. PICK s \in bad : \A t \in bad : Cardinality(s) <= Cardinality(t)
    <3>1. \A s \in bad : IsFiniteSet(s)
      BY <1>1
    <3> HIDE DEF bad
    <3> QED
      BY <1>2, <3>1, Fewest
  <2>2. s \in SUBSET S /\ IsFiniteSet(s) /\ ~(SumFunctionOnSet(g, s \cap T) <= SumFunctionOnSet(f, s))
    BY <1>1
  <2>3. s # {}
    <3>1. SumFunctionOnSet(g, {}) = 0 /\ SumFunctionOnSet(f, {}) = 0
      BY SumEmpty
    <3>2. s = {} => s \cap T = {}
      OBVIOUS
    <3> QED
      BY <2>2, <3>1, <3>2
  <2>4. PICK c \in s : TRUE
    BY <2>3
  <2>5. c \in S /\ f[c] \in Nat
    BY <2>2
  <2>6. SumFunctionOnSet(f, s) = f[c] + SumFunctionOnSet(f, s \ {c})
    BY <2>2, SumWithout
  <2>7. s \ {c} \notin bad /\ s \ {c} \in SUBSET S
    BY <2>1, <2>2, OneLess
  <2>8. SumFunctionOnSet(g, (s \ {c}) \cap T) <= SumFunctionOnSet(f, s \ {c})
    BY <2>7
  <2>9. SumFunctionOnSet(g, (s \ {c}) \cap T) \in Nat /\ SumFunctionOnSet(f, s \ {c}) \in Nat
    BY <1>1, <2>7
  <2> HIDE DEF bad
  <2>10. CASE c \in T
    <3>1. (s \ {c}) \cap T = (s \cap T) \ {c} /\ c \in s \cap T /\ \A x \in s \cap T : g[x] \in Nat
      BY <2>10
    <3>2. SumFunctionOnSet(g, s \cap T) = g[c] + SumFunctionOnSet(g, (s \cap T) \ {c})
      BY <1>1, <2>2, <3>1, SumWithout
    <3>3. g[c] \in Nat /\ g[c] <= f[c]
      BY <2>10
    <3> DEFINE few == SumFunctionOnSet(g, (s \ {c}) \cap T)
               many == SumFunctionOnSet(f, s \ {c})
               fewC == SumFunctionOnSet(g, s \cap T)
               manyC == SumFunctionOnSet(f, s)
    <3>4. few <= many /\ few \in Nat /\ many \in Nat /\ fewC = g[c] + few /\ manyC = f[c] + many /\ ~(fewC <= manyC)
      BY <2>2, <2>6, <2>8, <2>9, <3>1, <3>2
    <3> HIDE DEF few, many, fewC, manyC
    <3> QED
      BY <2>5, <3>3, <3>4
  <2>11. CASE c \notin T
    <3>1. (s \ {c}) \cap T = s \cap T
      BY <2>11
    <3> DEFINE few == SumFunctionOnSet(g, s \cap T)
               many == SumFunctionOnSet(f, s \ {c})
               manyC == SumFunctionOnSet(f, s)
    <3>2. few <= many /\ few \in Nat /\ many \in Nat /\ manyC = f[c] + many /\ ~(few <= manyC)
      BY <2>2, <2>6, <2>8, <2>9, <3>1
    <3> HIDE DEF few, many, manyC
    <3> QED
      BY <2>5, <3>2
  <2> QED
    BY <2>10, <2>11
<1>3. S \notin bad /\ S \cap T = T
  BY <1>2
<1> QED
  BY <1>3

LEMMA SumSame ==
  ASSUME NEW S, IsFiniteSet(S), NEW f, NEW g, \A x \in S : f[x] \in Nat /\ g[x] = f[x]
  PROVE  SumFunctionOnSet(g, S) = SumFunctionOnSet(f, S)
<1>1. \A x \in S : g[x] \in Nat /\ f[x] \in Nat /\ g[x] <= f[x] /\ f[x] <= g[x]
  OBVIOUS
<1>2. SumFunctionOnSet(g, S) <= SumFunctionOnSet(f, S) /\ SumFunctionOnSet(f, S) <= SumFunctionOnSet(g, S)
  BY <1>1, SumGrows
<1>3. SumFunctionOnSet(g, S) \in Nat /\ SumFunctionOnSet(f, S) \in Nat
  BY <1>1, SumIsNat
<1> QED
  BY <1>2, <1>3

LEMMA SumOfOne ==
  ASSUME NEW x, NEW f, f[x] \in Nat, NEW S \in SUBSET {x}
  PROVE  SumFunctionOnSet(f, {x}) = f[x] /\ SumFunctionOnSet(f, S) <= f[x]
<1>1. IsFiniteSet({}) /\ {} \cup {x} = {x} /\ IsFiniteSet({x})
  BY FS_EmptySet, FS_Singleton
<1>2. SumFunctionOnSet(f, {x}) = f[x] + SumFunctionOnSet(f, {})
  BY <1>1, SumWith
<1>3. SumFunctionOnSet(f, {x}) = f[x]
  BY <1>2, SumEmpty
<1>4. \A y \in {x} : f[y] \in Nat /\ f[y] <= f[y]
  OBVIOUS
<1>5. SumFunctionOnSet(f, S) <= SumFunctionOnSet(f, {x})
  BY <1>1, <1>4, SumGrows
<1> QED
  BY <1>3, <1>5

(* What is added to one element is added to the sum. *)
LEMMA SumChange ==
  ASSUME NEW S, IsFiniteSet(S), NEW f, \A y \in S : f[y] \in Nat,
         NEW x \in S, NEW d \in Nat, NEW g, g[x] = f[x] + d, \A y \in S : y # x => g[y] = f[y]
  PROVE  SumFunctionOnSet(g, S) = SumFunctionOnSet(f, S) + d
<1>1. \A y \in S : g[y] \in Nat
  <2>1. f[x] \in Nat /\ f[x] + d \in Nat
    OBVIOUS
  <2> QED
    BY <2>1
<1>2. /\ SumFunctionOnSet(f, S) = f[x] + SumFunctionOnSet(f, S \ {x})
      /\ SumFunctionOnSet(g, S) = g[x] + SumFunctionOnSet(g, S \ {x})
  BY <1>1, SumWithout
<1>3. IsFiniteSet(S \ {x})
  BY FS_RemoveElement
<1>4. SumFunctionOnSet(g, S \ {x}) = SumFunctionOnSet(f, S \ {x}) /\ SumFunctionOnSet(f, S \ {x}) \in Nat
  <2>1. \A y \in S \ {x} : f[y] \in Nat /\ g[y] = f[y]
    OBVIOUS
  <2> QED
    BY <1>3, <2>1, SumSame, SumIsNat
<1> DEFINE sumF == SumFunctionOnSet(f, S)
           sumG == SumFunctionOnSet(g, S)
           rest == SumFunctionOnSet(f, S \ {x})
<1>5. sumF = f[x] + rest /\ sumG = (f[x] + d) + rest /\ rest \in Nat /\ f[x] \in Nat
  BY <1>2, <1>4
<1> HIDE DEF sumF, sumG, rest
<1>6. sumG = sumF + d
  BY <1>5
<1> QED
  BY <1>6 DEF sumF, sumG

(* A sum taken part by part, h naming the part of an element, is no more   *)
(* than that of what each part comes to at most.                           *)
LEMMA SumByParts ==
  ASSUME NEW S, IsFiniteSet(S), NEW T, IsFiniteSet(T), NEW h, \A x \in S : h[x] \in T,
         NEW f, \A x \in S : f[x] \in Nat, NEW g, \A y \in T : g[y] \in Nat,
         \A y \in T : SumFunctionOnSet(f, {x \in S : h[x] = y}) <= g[y]
  PROVE  SumFunctionOnSet(f, S) <= SumFunctionOnSet(g, T)
<1> DEFINE part(s, y) == {x \in s : h[x] = y}
           parts(s) == [y \in T |-> SumFunctionOnSet(f, part(s, y))]
           bad == {s \in SUBSET S : ~(SumFunctionOnSet(f, s) <= SumFunctionOnSet(parts(s), T))}
<1>1. \A s \in SUBSET S : /\ IsFiniteSet(s) /\ SumFunctionOnSet(f, s) \in Nat
                          /\ \A y \in T : IsFiniteSet(part(s, y)) /\ parts(s)[y] = SumFunctionOnSet(f, part(s, y)) /\ parts(s)[y] \in Nat
  <2>1. \A s \in SUBSET S : IsFiniteSet(s) /\ SumFunctionOnSet(f, s) \in Nat
    BY FS_Subset, SumIsNat
  <2>2. \A s \in SUBSET S : \A y : part(s, y) \in SUBSET S
    OBVIOUS
  <2> HIDE DEF part
  <2> QED
    BY <2>1, <2>2
<1>2. \A s \in SUBSET S : SumFunctionOnSet(parts(s), T) \in Nat
  <2> HIDE DEF parts
  <2> QED
    BY <1>1, SumIsNat
<1>3. ASSUME bad # {} PROVE FALSE
  <2>1. PICK s \in bad : \A t \in bad : Cardinality(s) <= Cardinality(t)
    <3>1. \A s \in bad : IsFiniteSet(s)
      BY <1>1
    <3> HIDE DEF bad
    <3> QED
      BY <1>3, <3>1, Fewest
  <2>2. s \in SUBSET S /\ IsFiniteSet(s) /\ ~(SumFunctionOnSet(f, s) <= SumFunctionOnSet(parts(s), T))
    BY <1>1
  <2>3. s # {}
    <3>1. s = {} => SumFunctionOnSet(f, s) = 0
      BY SumEmpty
    <3> HIDE DEF parts
    <3> QED
      BY <1>2, <2>2, <3>1
  <2>4. PICK c \in s : TRUE
    BY <2>3
  <2>5. c \in S /\ f[c] \in Nat /\ h[c] \in T
    BY <2>2
  <2>6. SumFunctionOnSet(f, s) = f[c] + SumFunctionOnSet(f, s \ {c})
    BY <2>2, SumWithout
  <2>7. s \ {c} \notin bad /\ s \ {c} \in SUBSET S
    BY <2>1, <2>2, OneLess
  <2>8. SumFunctionOnSet(f, s \ {c}) <= SumFunctionOnSet(parts(s \ {c}), T)
    BY <2>7
  <2>9. SumFunctionOnSet(parts(s), T) = SumFunctionOnSet(parts(s \ {c}), T) + f[c]
    <3>1. \A y \in T : y # h[c] => part(s, y) = part(s \ {c}, y)
      OBVIOUS
    <3>2. c \in part(s, h[c]) /\ part(s, h[c]) \ {c} = part(s \ {c}, h[c]) /\ part(s, h[c]) \in SUBSET S
      BY <2>2
    <3>3. SumFunctionOnSet(f, part(s, h[c])) = f[c] + SumFunctionOnSet(f, part(s \ {c}, h[c]))
      <4> DEFINE big == part(s, h[c])
                 small == part(s \ {c}, h[c])
      <4> HIDE DEF part
      <4>1. IsFiniteSet(big) /\ \A x \in big : f[x] \in Nat
        BY <1>1, <2>2, <2>5, <3>2
      <4>2. c \in big /\ big \ {c} = small
        BY <3>2
      <4> HIDE DEF big, small
      <4>3. SumFunctionOnSet(f, big) = f[c] + SumFunctionOnSet(f, big \ {c})
        BY <4>1, <4>2, SumWithout
      <4> QED
        BY <4>2, <4>3 DEF big, small
    <3> DEFINE now == parts(s)
               before == parts(s \ {c})
    <3>4. \A y \in T : before[y] \in Nat /\ (y # h[c] => now[y] = before[y])
      BY <1>1, <2>2, <2>7, <3>1
    <3>5. now[h[c]] = before[h[c]] + f[c]
      <4>1. now[h[c]] = SumFunctionOnSet(f, part(s, h[c])) /\ before[h[c]] = SumFunctionOnSet(f, part(s \ {c}, h[c])) /\ before[h[c]] \in Nat
        BY <1>1, <2>2, <2>5, <2>7
      <4> HIDE DEF now, before, part
      <4> QED
        BY <2>5, <3>3, <4>1
    <3> HIDE DEF now, before, parts, part
    <3>6. SumFunctionOnSet(now, T) = SumFunctionOnSet(before, T) + f[c]
      BY <2>5, <3>4, <3>5, SumChange
    <3> QED
      BY <3>6 DEF now, before
  <2> DEFINE few == SumFunctionOnSet(f, s \ {c})
             fewParts == SumFunctionOnSet(parts(s \ {c}), T)
             all == SumFunctionOnSet(f, s)
             allParts == SumFunctionOnSet(parts(s), T)
  <2>10. few \in Nat /\ fewParts \in Nat /\ few <= fewParts /\ all = f[c] + few /\ allParts = fewParts + f[c] /\ ~(all <= allParts)
    <3> HIDE DEF parts, bad
    <3> QED
      BY <1>1, <1>2, <2>2, <2>6, <2>7, <2>8, <2>9
  <2> HIDE DEF few, fewParts, all, allParts, bad
  <2> QED
    BY <2>5, <2>10
<1>4. SumFunctionOnSet(f, S) <= SumFunctionOnSet(parts(S), T)
  <2>1. S \notin bad /\ S \in SUBSET S
    BY <1>3
  <2> HIDE DEF parts, part
  <2> QED
    BY <2>1
<1> DEFINE whole == parts(S)
<1>5. \A y \in T : g[y] \in Nat /\ whole[y] \in Nat /\ whole[y] <= g[y]
  BY <1>1
<1> HIDE DEF whole, part, bad
<1>6. SumFunctionOnSet(whole, T) <= SumFunctionOnSet(g, T)
  BY <1>5, SumGrows
<1>7. SumFunctionOnSet(g, T) \in Nat /\ SumFunctionOnSet(whole, T) \in Nat /\ SumFunctionOnSet(f, S) \in Nat
  BY <1>5, <1>1, SumIsNat
<1>8. SumFunctionOnSet(f, S) <= SumFunctionOnSet(whole, T)
  BY <1>4 DEF whole
<1> QED
  BY <1>6, <1>7, <1>8

LEMMA SumSplit ==
  ASSUME NEW S, IsFiniteSet(S), NEW f, \A x \in S : f[x] \in Nat, NEW R \in SUBSET S
  PROVE  SumFunctionOnSet(f, S) <= SumFunctionOnSet(f, R) + SumFunctionOnSet(f, S \ R)
<1> DEFINE T == {1, 2}
           h == [x \in S |-> IF x \in R THEN 1 ELSE 2]
           g == [y \in T |-> IF y = 1 THEN SumFunctionOnSet(f, R) ELSE SumFunctionOnSet(f, S \ R)]
<1>1. IsFiniteSet(R) /\ IsFiniteSet(S \ R) /\ SumFunctionOnSet(f, R) \in Nat /\ SumFunctionOnSet(f, S \ R) \in Nat
  <2>1. R \in SUBSET S /\ S \ R \in SUBSET S
    OBVIOUS
  <2>2. IsFiniteSet(R) /\ IsFiniteSet(S \ R)
    BY <2>1, FS_Subset
  <2> QED
    BY <2>1, <2>2, SumIsNat
<1>2. IsFiniteSet(T) /\ T \ {1} = {2} /\ 1 \in T /\ 2 \in T
  <2>1. IsFiniteSet({2}) /\ {2} \cup {1} = T
    BY FS_Singleton
  <2> QED
    BY <2>1, FS_AddElement
<1>3. {x \in S : h[x] = 1} = R /\ {x \in S : h[x] = 2} = S \ R /\ \A x \in S : h[x] \in T
  OBVIOUS
<1>4. g[1] = SumFunctionOnSet(f, R) /\ g[2] = SumFunctionOnSet(f, S \ R)
  OBVIOUS
<1>5. \A y \in T : g[y] \in Nat /\ SumFunctionOnSet(f, {x \in S : h[x] = y}) <= g[y]
  <2>1. SumFunctionOnSet(f, {x \in S : h[x] = 1}) <= g[1] /\ SumFunctionOnSet(f, {x \in S : h[x] = 2}) <= g[2]
    <3> HIDE DEF h, g
    <3> QED
      BY <1>1, <1>3, <1>4
  <2> HIDE DEF h, g
  <2> QED
    BY <1>1, <1>4, <2>1
<1> HIDE DEF g, h, T
<1>6. SumFunctionOnSet(f, S) <= SumFunctionOnSet(g, T)
  BY <1>2, <1>3, <1>5, SumByParts
<1>7. SumFunctionOnSet(g, T) = g[1] + SumFunctionOnSet(g, {2})
  <2>1. \A y \in T : g[y] \in Nat
    BY <1>5
  <2>2. SumFunctionOnSet(g, T) = g[1] + SumFunctionOnSet(g, T \ {1})
    BY <1>2, <2>1, SumWithout
  <2> QED
    BY <1>2, <2>2
<1>8. SumFunctionOnSet(g, {2}) = g[2]
  <2>1. g[2] \in Nat
    BY <1>2, <1>5
  <2> QED
    BY <2>1, SumOfOne
<1> QED
  BY <1>4, <1>6, <1>7, <1>8

-----------------------------------------------------------------------------
(* The caps. *)

(* What requests, and accounted probes, come to: in number or in bytes. *)
Worth(what, bytes) == IF what = "n" THEN 1 ELSE bytes
WorthOf(what) == [i \in DOMAIN made |-> Worth(what, made[i].bytes)]
Held(evs, what, since) == SumFunctionOnSet([t \in Times |-> evs[t][what]], {u \in Times : u >= since})

OnCall(v) == call[v].step \in {"admitted", "running"}
InCall(i) == OnCall(made[i].addr) /\ call[made[i].addr].id = i

(* It went out, or still may. *)
Live(i) == made[i].sent \/ InCall(i)

Reservation(v) == [addr |-> v, at |-> made[call[v].id].at, bytes |-> made[call[v].id].bytes]

(* What is reserved is what is admitted and not over. *)
CallsInv ==
  /\ pending = {Reservation(v) : v \in {w \in Validators : OnCall(w)}}
  /\ \A v \in Validators : OnCall(v) =>
       /\ made[call[v].id].addr = v /\ made[call[v].id].lost = "no" /\ made[call[v].id].bytes = call[v].bytes
       /\ made[call[v].id].sent <=> call[v].step = "running"

InstantsInv == clock \in Times /\ \A i \in DOMAIN made : made[i].at \in Times

(* Accounts by validator and instant; no bytes without a probe. *)
Accounts ==
  {a \in [Validators -> [Times -> [n : Nat, bytes : Nat]]] :
     \A v \in Validators : \A t \in Times : a[v][t].n = 0 => a[v][t].bytes = 0}

(* What a process knows to be over is accounted for. *)
OverSince(v, since) ==
  {i \in DOMAIN made : /\ made[i].sent /\ made[i].lost = "no" /\ ~InCall(i)
                       /\ made[i].addr = v /\ made[i].at >= since}

LedgerInv ==
  /\ events \in Accounts
  /\ \A v \in Validators, what \in {"n", "bytes"}, since \in Int :
       SumFunctionOnSet(WorthOf(what), OverSince(v, since)) <= Held(events[v], what, since)

(* A file accounts for what it knows of, and that is within the caps. *)
CoveredBy(f, vals, since) == {i \in f.covers : Live(i) /\ made[i].addr \in vals /\ made[i].at >= since}

AccountsFor(f) ==
  f # NoFile =>
    /\ f.minutes \in Accounts
    /\ \A v \in Validators, what \in {"n", "bytes"}, since \in Int :
         SumFunctionOnSet(WorthOf(what), CoveredBy(f, {v}, since)) <= Held(f.minutes[v], what, since)
    /\ \A c \in Caps, v \in Validators :
         SumFunctionOnSet(WorthOf(c.what), CoveredBy(f, Scope(c, v), clock - c.window)) <= c.cap

(* What a file that cannot be read hides is further back than the cool-down *)
(* it makes the process wait.                                              *)
CooldownInv == \A i \in DOMAIN made : made[i].lost = "unread" => made[i].at + UnknownCooldown <= cooldownUntil

(* The caps hold of what is admitted, before it goes out. *)
Counted(c, v) ==
  {i \in DOMAIN made : /\ Live(i) /\ made[i].addr \in Scope(c, v)
                       /\ made[i].at >= clock - c.window /\ Answerable(i, c.window)}

AdmittedWithinCaps ==
  \A c \in Caps, v \in Validators : SumFunctionOnSet(WorthOf(c.what), Counted(c, v)) <= c.cap

CapsInv ==
  /\ CallsInv /\ InstantsInv /\ LedgerInv /\ CooldownInv
  /\ AccountsFor(file) /\ AccountsFor(saving)
  /\ AdmittedWithinCaps

-----------------------------------------------------------------------------
(* What the sums are taken over. *)

LEMMA CapsConstants ==
  /\ IsFiniteSet(Validators) /\ MaxClock \in Nat /\ UnknownCooldown \in Nat /\ Minute \in Nat \ {0}
  /\ StartAt \in Times
  /\ \A c \in Caps : c.scope \in {"validator", "global"} /\ c.what \in {"n", "bytes"} /\ c.window \in Nat /\ c.cap \in Nat
  /\ \A c \in Caps, v \in Validators : Scope(c, v) \in SUBSET Validators /\ IsFiniteSet(Scope(c, v)) /\ v \in Scope(c, v)
<1>1. /\ IsFiniteSet(Validators) /\ MaxClock \in Nat /\ UnknownCooldown \in Nat /\ Minute \in Nat \ {0}
      /\ StartAt \in Nat /\ StartAt > Spacing /\ Spacing \in Nat /\ StartAt <= MaxClock
      /\ Caps \subseteq [scope : {"validator", "global"}, what : {"n", "bytes"}, window : Nat, cap : Nat]
  BY BudgetAssumption
<1>2. StartAt \in Times
  BY <1>1 DEF Times
<1>3. \A c \in Caps : c.scope \in {"validator", "global"} /\ c.what \in {"n", "bytes"} /\ c.window \in Nat /\ c.cap \in Nat
  BY <1>1
<1>4. \A v : IsFiniteSet({v})
  BY FS_Singleton
<1> QED
  BY <1>1, <1>2, <1>3, <1>4 DEF Scope

LEMMA TimesFrom ==
  /\ IsFiniteSet(Times) /\ Times \in SUBSET Nat
  /\ \A since \in Int : IsFiniteSet({u \in Times : u >= since}) /\ {u \in Times : u >= since} \in SUBSET Times
<1>1. IsFiniteSet(Times) /\ Times \in SUBSET Nat
  BY CapsConstants, FS_Interval DEF Times
<1>2. \A since \in Int : {u \in Times : u >= since} \in SUBSET Times
  OBVIOUS
<1> QED
  BY <1>1, <1>2, FS_Subset

LEMMA WorthTypes ==
  ASSUME BudgetTypeInv, NEW what
  PROVE  /\ IsFiniteSet(DOMAIN made)
         /\ \A i \in DOMAIN made : /\ made[i].bytes \in Nat /\ WorthOf(what)[i] \in Nat
                                   /\ WorthOf(what)[i] = Worth(what, made[i].bytes)
<1>1. DOMAIN made = 1 .. Len(made) /\ Len(made) \in Nat /\ \A i \in DOMAIN made : made[i] \in Request
  BY RequestTypes
<1>2. IsFiniteSet(DOMAIN made)
  BY <1>1, FS_Interval
<1>3. \A i \in DOMAIN made : made[i].bytes \in Nat
  BY <1>1 DEF Request
<1> QED
  BY <1>2, <1>3 DEF WorthOf, Worth

(* The worth of requests is no more than that of others, and of more. *)
LEMMA WorthLess ==
  ASSUME BudgetTypeInv, BudgetTypeInv', NEW what, NEW S \in SUBSET DOMAIN made, NEW R \in SUBSET S,
         \A i \in R : i \in DOMAIN made' /\ made'[i].bytes <= made[i].bytes
  PROVE  /\ SumFunctionOnSet(WorthOf(what)', R) <= SumFunctionOnSet(WorthOf(what), S)
         /\ SumFunctionOnSet(WorthOf(what)', R) \in Nat /\ SumFunctionOnSet(WorthOf(what), S) \in Nat
<1>1. PICK f, g : f = WorthOf(what) /\ g = WorthOf(what)'
  OBVIOUS
<1>2. IsFiniteSet(S) /\ \A i \in S : f[i] \in Nat
  BY <1>1, WorthTypes, FS_Subset
<1>3. \A i \in R : g[i] \in Nat /\ g[i] <= f[i]
  <2>1. \A i \in R : /\ g[i] = Worth(what, made'[i].bytes) /\ f[i] = Worth(what, made[i].bytes)
                     /\ made'[i].bytes \in Nat /\ made[i].bytes \in Nat
    <3>1. \A i \in DOMAIN made : f[i] = Worth(what, made[i].bytes) /\ made[i].bytes \in Nat
      BY <1>1, WorthTypes
    <3>2. \A i \in DOMAIN made' : g[i] = Worth(what, made'[i].bytes) /\ made'[i].bytes \in Nat
      <4>1. DOMAIN made' = 1 .. Len(made') /\ \A i \in DOMAIN made' : made'[i] \in Request
        <5>1. made' \in Seq(Request)
          BY DEF BudgetTypeInv
        <5> QED
          BY <5>1, LenProperties, ElementOfSeq
      <4>2. \A i \in DOMAIN made' : made'[i].bytes \in Nat
        BY <4>1 DEF Request
      <4> QED
        BY <1>1, <4>2 DEF WorthOf, Worth
    <3> QED
      BY <3>1, <3>2
  <2> QED
    BY <2>1 DEF Worth
<1>4. SumFunctionOnSet(g, R) <= SumFunctionOnSet(f, S)
  BY <1>2, <1>3, SumGrows
<1>5. SumFunctionOnSet(g, R) \in Nat /\ SumFunctionOnSet(f, S) \in Nat
  BY <1>2, <1>3, SumIsNat, FS_Subset
<1> QED
  BY <1>1, <1>4, <1>5

(* Of the same requests it is no more for fewer of them. *)
LEMMA WorthFewer ==
  ASSUME BudgetTypeInv, NEW what, NEW S \in SUBSET DOMAIN made, NEW R \in SUBSET S
  PROVE  /\ SumFunctionOnSet(WorthOf(what), R) <= SumFunctionOnSet(WorthOf(what), S)
         /\ SumFunctionOnSet(WorthOf(what), R) \in Nat /\ SumFunctionOnSet(WorthOf(what), S) \in Nat
<1>1. PICK f : f = WorthOf(what)
  OBVIOUS
<1>2. IsFiniteSet(S) /\ IsFiniteSet(R) /\ \A i \in S : f[i] \in Nat /\ f[i] <= f[i]
  BY <1>1, WorthTypes, FS_Subset
<1>3. \A i \in R : f[i] \in Nat /\ f[i] <= f[i]
  BY <1>2
<1>4. SumFunctionOnSet(f, R) <= SumFunctionOnSet(f, S) /\ SumFunctionOnSet(f, R) \in Nat /\ SumFunctionOnSet(f, S) \in Nat
  BY <1>2, <1>3, SumGrows, SumIsNat
<1> QED
  BY <1>1, <1>4

(* An account holds a number. *)
LEMMA HeldTypes ==
  ASSUME NEW a \in Accounts, NEW v \in Validators, NEW what \in {"n", "bytes"}, NEW since \in Int
  PROVE  /\ \A t \in Times : a[v][t] \in [n : Nat, bytes : Nat] /\ a[v][t][what] \in Nat
         /\ Held(a[v], what, since) \in Nat
<1>1. \A t \in Times : a[v][t] \in [n : Nat, bytes : Nat] /\ a[v][t][what] \in Nat
  BY DEF Accounts
<1> DEFINE f == [t \in Times |-> a[v][t][what]]
           S == {u \in Times : u >= since}
<1>2. IsFiniteSet(S) /\ \A t \in S : f[t] \in Nat
  BY <1>1, TimesFrom
<1> HIDE DEF f, S
<1>3. SumFunctionOnSet(f, S) \in Nat
  BY <1>2, SumIsNat
<1> QED
  BY <1>1, <1>3 DEF Held, f, S

LEMMA AccountedIsHeld ==
  ASSUME events \in Accounts, NEW v \in Validators, NEW what \in {"n", "bytes"}, NEW since \in Int
  PROVE  Accounted(v, what, since) = Held(events[v], what, since)
<1> DEFINE S == {u \in Times : u >= since}
           f == [t \in Times |-> events[v][t][what]]
           g == [t \in S |-> events[v][t][what]]
<1>1. DOMAIN g = S /\ IsFiniteSet(S) /\ \A t \in S : f[t] \in Nat /\ g[t] = f[t]
  BY HeldTypes, TimesFrom
<1> HIDE DEF f, g, S
<1>2. SumFunctionOnSet(g, S) = SumFunctionOnSet(f, S)
  BY <1>1, SumSame
<1>3. SumFunction(g) = SumFunctionOnSet(g, S)
  BY <1>1 DEF SumFunction
<1> QED
  BY <1>2, <1>3 DEF Accounted, Held, f, g, S

LEMMA NewestOf ==
  ASSUME NEW T \in SUBSET Times, T # {}
  PROVE  Max(T) \in T /\ \A u \in T : u <= Max(T)
<1>1. MaxClock \in Nat /\ Times = 1 .. MaxClock
  BY CapsConstants DEF Times
<1> DEFINE back == {MaxClock - u : u \in T}
<1>2. back \in SUBSET Nat /\ back # {}
  <2>1. \A u \in T : MaxClock - u \in Nat
    BY <1>1
  <2> QED
    BY <2>1
<1> HIDE DEF back
<1>3. PICK b \in back : \A x \in back : b <= x
  BY <1>2, LeastOf
<1> USE DEF back
<1>4. PICK m \in T : b = MaxClock - m
  OBVIOUS
<1>5. \A u \in T : u <= m
  <2>1. \A u \in T : MaxClock - m <= MaxClock - u
    BY <1>3, <1>4
  <2> QED
    BY <1>1, <2>1
<1>6. \E x \in T : \A y \in T : x >= y
  BY <1>1, <1>5
<1> QED
  BY <1>1, <1>6 DEF Max

(* The busy instants of a minute. *)
Busy(evs, t) == {u \in Times : u \div Minute = t \div Minute /\ evs[u].n > 0}
IsNewestBusy(evs, t) == Busy(evs, t) # {} /\ t = Max(Busy(evs, t))

LEMMA BucketIs ==
  ASSUME NEW evs \in [Times -> [n : Nat, bytes : Nat]]
  PROVE  /\ BucketByMinute(evs) \in [Times -> [n : Nat, bytes : Nat]]
         /\ \A t \in Times : \A what \in {"n", "bytes"} :
              /\ IsNewestBusy(evs, t) =>
                   BucketByMinute(evs)[t][what] = SumFunctionOnSet([u \in Times |-> evs[u][what]], Busy(evs, t))
              /\ ~IsNewestBusy(evs, t) => BucketByMinute(evs)[t][what] = 0
         /\ \A t \in Times : IsNewestBusy(evs, t) => BucketByMinute(evs)[t].n > 0
<1> DEFINE num == [u \in Times |-> evs[u].n]
           size == [u \in Times |-> evs[u].bytes]
           B(t) == Busy(evs, t)
<1>1. \A u \in Times : num[u] = evs[u].n /\ size[u] = evs[u].bytes /\ num[u] \in Nat /\ size[u] \in Nat
  OBVIOUS
<1>2. \A t \in Times : IsFiniteSet(B(t)) /\ B(t) \in SUBSET Times /\ \A u \in B(t) : num[u] > 0
  <2>1. \A t \in Times : B(t) \in SUBSET Times /\ \A u \in B(t) : num[u] > 0
    BY <1>1 DEF Busy
  <2> HIDE DEF B, num
  <2> QED
    BY <2>1, TimesFrom, FS_Subset
<1>3. ASSUME NEW t \in Times
      PROVE  /\ SumFunction([u \in B(t) |-> evs[u].n]) = SumFunctionOnSet(num, B(t))
             /\ SumFunction([u \in B(t) |-> evs[u].bytes]) = SumFunctionOnSet(size, B(t))
             /\ SumFunctionOnSet(num, B(t)) \in Nat /\ SumFunctionOnSet(size, B(t)) \in Nat
             /\ IsNewestBusy(evs, t) => SumFunctionOnSet(num, B(t)) > 0
  <2> DEFINE S == B(t)
             f == [u \in S |-> evs[u].n]
             g == [u \in S |-> evs[u].bytes]
  <2>1. /\ DOMAIN f = S /\ DOMAIN g = S /\ IsFiniteSet(S)
        /\ \A u \in S : num[u] \in Nat /\ f[u] = num[u] /\ size[u] \in Nat /\ g[u] = size[u] /\ num[u] > 0
    BY <1>1, <1>2
  <2>2. IsNewestBusy(evs, t) => t \in S
    <3>1. S \in SUBSET Times
      BY <1>2
    <3> QED
      BY <3>1, NewestOf DEF IsNewestBusy
  <2> HIDE DEF S, f, g, num, size, B
  <2>3. SumFunctionOnSet(f, S) = SumFunctionOnSet(num, S) /\ SumFunctionOnSet(g, S) = SumFunctionOnSet(size, S)
    BY <2>1, SumSame
  <2>4. SumFunctionOnSet(num, S) \in Nat /\ SumFunctionOnSet(size, S) \in Nat
    BY <2>1, SumIsNat
  <2>5. IsNewestBusy(evs, t) => SumFunctionOnSet(num, S) > 0
    <3> SUFFICES ASSUME IsNewestBusy(evs, t) PROVE SumFunctionOnSet(num, S) > 0
      OBVIOUS
    <3>1. SumFunctionOnSet(num, S) = num[t] + SumFunctionOnSet(num, S \ {t})
      BY <2>1, <2>2, SumWithout
    <3>2. IsFiniteSet(S \ {t}) /\ \A u \in S \ {t} : num[u] \in Nat
      BY <2>1, <2>2, FS_RemoveElement
    <3>3. SumFunctionOnSet(num, S \ {t}) \in Nat
      BY <3>2, SumIsNat
    <3> DEFINE rest == SumFunctionOnSet(num, S \ {t})
    <3>4. rest \in Nat /\ num[t] \in Nat /\ num[t] > 0 /\ SumFunctionOnSet(num, S) = num[t] + rest
      BY <2>1, <2>2, <3>1, <3>3
    <3> HIDE DEF rest
    <3> QED
      BY <3>4
  <2>6. SumFunction(f) = SumFunctionOnSet(f, S) /\ SumFunction(g) = SumFunctionOnSet(g, S)
    BY <2>1 DEF SumFunction
  <2> QED
    BY <2>3, <2>4, <2>5, <2>6 DEF S, f, g
<1>4. BucketByMinute(evs) =
        [t \in Times |-> IF IsNewestBusy(evs, t)
                           THEN [n |-> SumFunction([u \in B(t) |-> evs[u].n]), bytes |-> SumFunction([u \in B(t) |-> evs[u].bytes])]
                           ELSE [n |-> 0, bytes |-> 0]]
  BY DEF BucketByMinute, IsNewestBusy, Busy
<1>5. \A t \in Times :
        /\ IsNewestBusy(evs, t) =>
             BucketByMinute(evs)[t] = [n |-> SumFunctionOnSet(num, B(t)), bytes |-> SumFunctionOnSet(size, B(t))]
        /\ ~IsNewestBusy(evs, t) => BucketByMinute(evs)[t] = [n |-> 0, bytes |-> 0]
  <2> HIDE DEF B, num, size
  <2> QED
    BY <1>3, <1>4
<1>6. \A t \in Times :
        /\ BucketByMinute(evs)[t] \in [n : Nat, bytes : Nat]
        /\ IsNewestBusy(evs, t) => /\ BucketByMinute(evs)[t].n = SumFunctionOnSet(num, B(t))
                                   /\ BucketByMinute(evs)[t].bytes = SumFunctionOnSet(size, B(t))
                                   /\ SumFunctionOnSet(num, B(t)) > 0
        /\ ~IsNewestBusy(evs, t) => BucketByMinute(evs)[t].n = 0 /\ BucketByMinute(evs)[t].bytes = 0
  <2> SUFFICES ASSUME NEW t \in Times
               PROVE  /\ BucketByMinute(evs)[t] \in [n : Nat, bytes : Nat]
                      /\ IsNewestBusy(evs, t) => /\ BucketByMinute(evs)[t].n = SumFunctionOnSet(num, B(t))
                                                 /\ BucketByMinute(evs)[t].bytes = SumFunctionOnSet(size, B(t))
                                                 /\ SumFunctionOnSet(num, B(t)) > 0
                      /\ ~IsNewestBusy(evs, t) => BucketByMinute(evs)[t].n = 0 /\ BucketByMinute(evs)[t].bytes = 0
    OBVIOUS
  <2> DEFINE nums == SumFunctionOnSet(num, B(t))
             sizes == SumFunctionOnSet(size, B(t))
  <2>1. nums \in Nat /\ sizes \in Nat /\ (IsNewestBusy(evs, t) => nums > 0)
    BY <1>3
  <2>2. /\ IsNewestBusy(evs, t) => BucketByMinute(evs)[t] = [n |-> nums, bytes |-> sizes]
        /\ ~IsNewestBusy(evs, t) => BucketByMinute(evs)[t] = [n |-> 0, bytes |-> 0]
    BY <1>5
  <2> HIDE DEF nums, sizes
  <2>3. /\ BucketByMinute(evs)[t] \in [n : Nat, bytes : Nat]
        /\ IsNewestBusy(evs, t) => BucketByMinute(evs)[t].n = nums /\ BucketByMinute(evs)[t].bytes = sizes
        /\ ~IsNewestBusy(evs, t) => BucketByMinute(evs)[t].n = 0 /\ BucketByMinute(evs)[t].bytes = 0
    BY <2>1, <2>2
  <2> QED
    BY <2>1, <2>3 DEF nums, sizes
<1>7. BucketByMinute(evs) \in [Times -> [n : Nat, bytes : Nat]]
  <2>1. BucketByMinute(evs) = [t \in Times |-> BucketByMinute(evs)[t]]
    BY <1>4
  <2> QED
    BY <1>6, <2>1
<1>8. ASSUME NEW t \in Times, NEW what \in {"n", "bytes"}
      PROVE  /\ IsNewestBusy(evs, t) =>
                  BucketByMinute(evs)[t][what] = SumFunctionOnSet([u \in Times |-> evs[u][what]], Busy(evs, t))
             /\ ~IsNewestBusy(evs, t) => BucketByMinute(evs)[t][what] = 0
  BY <1>6
<1> QED
  BY <1>6, <1>7, <1>8

(* Taking a minute's probes at the newest instant of it makes no window    *)
(* look emptier.                                                           *)
LEMMA BucketHoldsAsMuch ==
  ASSUME NEW evs \in [Times -> [n : Nat, bytes : Nat]], \A t \in Times : evs[t].n = 0 => evs[t].bytes = 0,
         NEW what \in {"n", "bytes"}, NEW since \in Int
  PROVE  Held(evs, what, since) <= Held(BucketByMinute(evs), what, since)
<1> DEFINE S == {u \in Times : u >= since}
           f == [t \in Times |-> evs[t][what]]
           g == [t \in Times |-> BucketByMinute(evs)[t][what]]
           h == [t \in Times |-> IF evs[t].n > 0 THEN Max(Busy(evs, t)) ELSE t]
           part(y) == {x \in S : h[x] = y}
<1>1. \A t \in Times : f[t] = evs[t][what] /\ f[t] \in Nat /\ evs[t].n \in Nat /\ (evs[t].n = 0 => f[t] = 0)
  <2>1. \A t \in Times : evs[t] \in [n : Nat, bytes : Nat]
    OBVIOUS
  <2>2. \A t \in Times : evs[t].n \in Nat /\ evs[t].bytes \in Nat
    BY <2>1
  <2> QED
    BY <2>2
<1>2. \A t \in Times : g[t] = BucketByMinute(evs)[t][what] /\ g[t] \in Nat
  <2>1. \A t \in Times : BucketByMinute(evs)[t] \in [n : Nat, bytes : Nat]
    BY BucketIs
  <2>2. \A t \in Times : BucketByMinute(evs)[t].n \in Nat /\ BucketByMinute(evs)[t].bytes \in Nat
    BY <2>1
  <2> QED
    BY <2>2
<1>3. \A t \in Times : t \in Nat /\ Busy(evs, t) \in SUBSET Times
  BY TimesFrom DEF Busy
<1>4. ASSUME NEW t \in Times, evs[t].n > 0
      PROVE  /\ t \in Busy(evs, t) /\ Max(Busy(evs, t)) \in Times /\ t <= Max(Busy(evs, t))
             /\ Busy(evs, Max(Busy(evs, t))) = Busy(evs, t) /\ IsNewestBusy(evs, Max(Busy(evs, t)))
             /\ evs[Max(Busy(evs, t))].n > 0
  <2>1. t \in Busy(evs, t)
    BY <1>4 DEF Busy
  <2>2. Max(Busy(evs, t)) \in Busy(evs, t) /\ t <= Max(Busy(evs, t))
    BY <1>3, <2>1, NewestOf
  <2>3. PICK m \in Times : m = Max(Busy(evs, t))
    BY <1>3, <2>2
  <2>4. m \div Minute = t \div Minute /\ evs[m].n > 0
    BY <2>2, <2>3 DEF Busy
  <2>5. Busy(evs, m) = Busy(evs, t)
    BY <2>4 DEF Busy
  <2> QED
    BY <2>1, <2>2, <2>3, <2>4, <2>5 DEF IsNewestBusy
<1>5. IsFiniteSet(S) /\ S \in SUBSET Times /\ \A t \in S : t >= since
  BY TimesFrom
<1>6. \A t \in S : h[t] \in S
  <2> SUFFICES ASSUME NEW t \in S PROVE h[t] \in S
    OBVIOUS
  <2>1. CASE evs[t].n > 0
    <3>1. h[t] = Max(Busy(evs, t)) /\ h[t] \in Times /\ t <= h[t]
      BY <1>4, <1>5, <2>1
    <3>2. t >= since /\ t \in Nat /\ h[t] \in Nat
      BY <1>3, <1>5, <3>1
    <3> HIDE DEF h
    <3> QED
      BY <3>1, <3>2
  <2>2. CASE ~(evs[t].n > 0)
    BY <2>2
  <2> QED
    BY <2>1, <2>2
<1>7. ASSUME NEW y \in S
      PROVE  SumFunctionOnSet(f, part(y)) <= g[y]
  <2>1. y \in Times /\ g[y] \in Nat
    BY <1>2, <1>5
  <2>2. CASE IsNewestBusy(evs, y)
    <3>1. part(y) \in SUBSET Busy(evs, y)
      <4> SUFFICES ASSUME NEW x \in part(y) PROVE x \in Busy(evs, y)
        OBVIOUS
      <4>1. x \in Times /\ h[x] = y
        BY <1>5
      <4>2. evs[y].n > 0
        <5>1. y \in Busy(evs, y)
          BY <1>3, <2>1, <2>2, NewestOf DEF IsNewestBusy
        <5> QED
          BY <5>1 DEF Busy
      <4>3. evs[x].n > 0
        BY <4>1, <4>2
      <4> QED
        BY <1>4, <4>1, <4>3
    <3>2. g[y] = SumFunctionOnSet(f, Busy(evs, y))
      BY <1>2, <2>1, <2>2, BucketIs
    <3>3. IsFiniteSet(Busy(evs, y)) /\ \A x \in Busy(evs, y) : f[x] \in Nat
      <4>1. Busy(evs, y) \in SUBSET Times
        BY <1>3, <2>1
      <4> HIDE DEF f
      <4> QED
        BY <1>1, <4>1, TimesFrom, FS_Subset
    <3> HIDE DEF f, g, part
    <3>4. \A x \in part(y) : f[x] \in Nat /\ f[x] <= f[x]
      BY <3>1, <3>3
    <3>5. SumFunctionOnSet(f, part(y)) <= SumFunctionOnSet(f, Busy(evs, y))
      BY <3>1, <3>3, <3>4, SumGrows
    <3> QED
      BY <3>2, <3>5
  <2>3. CASE ~IsNewestBusy(evs, y)
    <3>1. \A x \in part(y) : x = y /\ f[x] = 0
      <4> SUFFICES ASSUME NEW x \in part(y) PROVE x = y /\ f[x] = 0
        OBVIOUS
      <4>1. x \in Times /\ h[x] = y
        BY <1>5
      <4>2. ~(evs[x].n > 0)
        BY <1>4, <2>3, <4>1
      <4> QED
        BY <1>1, <4>1, <4>2
    <3> HIDE DEF f, g, part
    <3>2. CASE part(y) = {}
      BY <2>1, <3>2, SumEmpty
    <3>3. CASE part(y) # {}
      <4>1. y \in part(y) /\ part(y) = {y} /\ f[y] = 0
        BY <3>1, <3>3
      <4>2. SumFunctionOnSet(f, {y}) = f[y]
        BY <4>1, SumOfOne
      <4> QED
        BY <2>1, <4>1, <4>2
    <3> QED
      BY <3>2, <3>3
  <2> QED
    BY <2>2, <2>3
<1>8. (\A t \in S : f[t] \in Nat /\ g[t] \in Nat) /\ \A y \in S : SumFunctionOnSet(f, {x \in S : h[x] = y}) <= g[y]
  BY <1>1, <1>2, <1>5, <1>7
<1> HIDE DEF f, g, h, S
<1>9. SumFunctionOnSet(f, S) <= SumFunctionOnSet(g, S)
  BY <1>5, <1>6, <1>8, SumByParts
<1> QED
  BY <1>9 DEF Held, f, g, S

-----------------------------------------------------------------------------
(* What is reserved. *)

LEMMA CallTypes ==
  ASSUME BudgetInv, CallsInv, InstantsInv, NEW v \in Validators, OnCall(v)
  PROVE  /\ call[v].id \in DOMAIN made /\ made[call[v].id] \in Request
         /\ made[call[v].id].addr = v /\ InCall(call[v].id)
         /\ Reservation(v).addr = v /\ Reservation(v).at \in Times /\ Reservation(v).bytes \in Nat
<1>1. call[v].id \in DOMAIN made
  BY DEF BudgetInv, RequestsInv, OnCall
<1>2. made[call[v].id] \in Request
  BY <1>1, RequestTypes DEF BudgetInv
<1>3. made[call[v].id].addr = v /\ made[call[v].id].at \in Times /\ made[call[v].id].bytes \in Nat
  BY <1>1, <1>2 DEF CallsInv, InstantsInv, Request
<1>4. Reservation(v).addr = v /\ Reservation(v).at = made[call[v].id].at /\ Reservation(v).bytes = made[call[v].id].bytes
  BY DEF Reservation
<1> QED
  BY <1>1, <1>2, <1>3, <1>4 DEF InCall

LEMMA OwnReservation ==
  ASSUME BudgetInv, CallsInv, InstantsInv, NEW v \in Validators
  PROVE  {r \in pending : r.addr = v} = IF OnCall(v) THEN {Reservation(v)} ELSE {}
<1>1. \A w \in Validators : OnCall(w) => Reservation(w).addr = w
  BY CallTypes
<1>2. pending = {Reservation(w) : w \in {u \in Validators : OnCall(u)}}
  BY DEF CallsInv
<1>3. \A r \in pending : r.addr = v => OnCall(v) /\ r = Reservation(v)
  BY <1>1, <1>2
<1>4. OnCall(v) => Reservation(v) \in pending
  BY <1>2
<1> QED
  BY <1>1, <1>3, <1>4

(* A file's account of a validator is the process's and its reservation. *)
LEMMA WithPendingIs ==
  ASSUME BudgetInv, CallsInv, InstantsInv, events \in Accounts, NEW v \in Validators, NEW t \in Times
  PROVE  /\ WithPending(v)[t] \in [n : Nat, bytes : Nat]
         /\ OnCall(v) /\ t = Reservation(v).at =>
              /\ WithPending(v)[t].n = events[v][t].n + 1
              /\ WithPending(v)[t].bytes = events[v][t].bytes + Reservation(v).bytes
         /\ ~OnCall(v) \/ t # Reservation(v).at =>
              WithPending(v)[t].n = events[v][t].n /\ WithPending(v)[t].bytes = events[v][t].bytes
<1> DEFINE own == {r \in pending : r.addr = v /\ r.at = t}
           sizes == [r \in own |-> r.bytes]
<1>1. WithPending(v)[t] = [n |-> events[v][t].n + Cardinality(own), bytes |-> events[v][t].bytes + SumFunction(sizes)]
  BY DEF WithPending
<1>2. events[v][t].n \in Nat /\ events[v][t].bytes \in Nat
  <2>1. events[v][t] \in [n : Nat, bytes : Nat]
    BY DEF Accounts
  <2> QED
    BY <2>1
<1>3. DOMAIN sizes = own /\ \A r \in own : sizes[r] = r.bytes
  OBVIOUS
<1>4. own = IF OnCall(v) /\ t = Reservation(v).at THEN {Reservation(v)} ELSE {}
  <2>1. own = {r \in {q \in pending : q.addr = v} : r.at = t}
    OBVIOUS
  <2> QED
    BY <2>1, OwnReservation
<1> HIDE DEF own, sizes
<1>5. CASE OnCall(v) /\ t = Reservation(v).at
  <2>1. own = {Reservation(v)} /\ Reservation(v).bytes \in Nat
    BY <1>4, <1>5, CallTypes
  <2>2. Cardinality(own) = 1
    BY <2>1, FS_Singleton
  <2>3. PICK r : r = Reservation(v)
    OBVIOUS
  <2>4. sizes[r] = Reservation(v).bytes /\ own = {r}
    BY <1>3, <2>1, <2>3
  <2>5. SumFunctionOnSet(sizes, {r}) = sizes[r]
    BY <2>1, <2>4, SumOfOne
  <2>6. SumFunction(sizes) = Reservation(v).bytes
    BY <1>3, <2>4, <2>5 DEF SumFunction
  <2> QED
    BY <1>1, <1>2, <1>5, <2>1, <2>2, <2>6
<1>6. CASE ~(OnCall(v) /\ t = Reservation(v).at)
  <2>1. own = {}
    BY <1>4, <1>6
  <2>2. Cardinality(own) = 0
    BY <2>1, FS_EmptySet
  <2>3. SumFunction(sizes) = 0
    BY <1>3, <2>1, SumEmpty DEF SumFunction
  <2> QED
    BY <1>1, <1>2, <1>6, <2>2, <2>3
<1> QED
  BY <1>5, <1>6

LEMMA WithPendingHolds ==
  ASSUME BudgetInv, CallsInv, InstantsInv, events \in Accounts, NEW v \in Validators
  PROVE  /\ WithPending(v) \in [Times -> [n : Nat, bytes : Nat]]
         /\ \A t \in Times : WithPending(v)[t].n = 0 => WithPending(v)[t].bytes = 0
         /\ \A what \in {"n", "bytes"}, since \in Int :
              Held(WithPending(v), what, since) =
                Held(events[v], what, since)
                  + IF OnCall(v) /\ Reservation(v).at >= since THEN Worth(what, Reservation(v).bytes) ELSE 0
<1>1. WithPending(v) \in [Times -> [n : Nat, bytes : Nat]]
  <2>1. WithPending(v) = [t \in Times |-> WithPending(v)[t]]
    BY DEF WithPending
  <2> QED
    BY <2>1, WithPendingIs
<1>2. \A t \in Times : /\ events[v][t].n \in Nat /\ events[v][t].bytes \in Nat
                       /\ events[v][t].n = 0 => events[v][t].bytes = 0
  <2>1. \A t \in Times : events[v][t] \in [n : Nat, bytes : Nat]
    BY DEF Accounts
  <2>2. \A t \in Times : events[v][t].n \in Nat /\ events[v][t].bytes \in Nat
    BY <2>1
  <2> QED
    BY <2>2 DEF Accounts
<1>3. \A t \in Times : WithPending(v)[t].n = 0 => WithPending(v)[t].bytes = 0
  <2> SUFFICES ASSUME NEW t \in Times, WithPending(v)[t].n = 0 PROVE WithPending(v)[t].bytes = 0
    OBVIOUS
  <2>1. ~OnCall(v) \/ t # Reservation(v).at
    BY <1>2, WithPendingIs
  <2> QED
    BY <1>2, <2>1, WithPendingIs
<1>4. ASSUME NEW what \in {"n", "bytes"}, NEW since \in Int
      PROVE  Held(WithPending(v), what, since) =
               Held(events[v], what, since)
                 + IF OnCall(v) /\ Reservation(v).at >= since THEN Worth(what, Reservation(v).bytes) ELSE 0
  <2> DEFINE S == {u \in Times : u >= since}
             f == [t \in Times |-> events[v][t][what]]
             g == [t \in Times |-> WithPending(v)[t][what]]
             at == Reservation(v).at
  <2>1. IsFiniteSet(S) /\ S \in SUBSET Times
    BY TimesFrom
  <2>2. \A t \in Times : f[t] = events[v][t][what] /\ g[t] = WithPending(v)[t][what] /\ f[t] \in Nat
    BY <1>2
  <2>3. SumFunctionOnSet(f, S) \in Nat
    <3> HIDE DEF f, S
    <3> QED
      BY <2>1, <2>2, SumIsNat
  <2>4. \A t \in S : ~OnCall(v) \/ t # at => g[t] = f[t]
    <3> SUFFICES ASSUME NEW t \in S, ~OnCall(v) \/ t # at PROVE g[t] = f[t]
      OBVIOUS
    <3>1. t \in Times /\ WithPending(v)[t].n = events[v][t].n /\ WithPending(v)[t].bytes = events[v][t].bytes
      BY WithPendingIs
    <3> QED
      BY <2>2, <3>1
  <2>5. CASE OnCall(v) /\ at >= since
    <3> DEFINE d == Worth(what, Reservation(v).bytes)
    <3>1. at \in Times /\ Reservation(v).bytes \in Nat
      BY <2>5, CallTypes
    <3>2. at \in S /\ d \in Nat
      BY <2>5, <3>1 DEF Worth
    <3>3. g[at] = f[at] + d
      <4>1. /\ WithPending(v)[at].n = events[v][at].n + 1
            /\ WithPending(v)[at].bytes = events[v][at].bytes + Reservation(v).bytes
        BY <2>5, <3>1, WithPendingIs
      <4>2. g[at] = WithPending(v)[at][what] /\ f[at] = events[v][at][what]
        BY <2>2, <3>1
      <4> QED
        BY <4>1, <4>2 DEF Worth
    <3> HIDE DEF S, f, g, d, at
    <3>4. (\A t \in S : f[t] \in Nat) /\ \A t \in S : t # at => g[t] = f[t]
      BY <2>1, <2>2, <2>4
    <3>5. SumFunctionOnSet(g, S) = SumFunctionOnSet(f, S) + d
      BY <2>1, <3>2, <3>3, <3>4, SumChange
    <3> QED
      BY <2>5, <3>5 DEF Held, f, g, S, d, at
  <2>6. CASE ~(OnCall(v) /\ at >= since)
    <3>1. \A t \in S : f[t] \in Nat /\ g[t] = f[t]
      BY <2>2, <2>4, <2>6
    <3> HIDE DEF S, f, g
    <3>2. SumFunctionOnSet(g, S) = SumFunctionOnSet(f, S)
      BY <2>1, <3>1, SumSame
    <3>3. SumFunctionOnSet(g, S) = SumFunctionOnSet(f, S) + 0
      BY <2>3, <3>2
    <3> QED
      BY <2>6, <3>3 DEF Held, f, g, S
  <2> QED
    BY <2>5, <2>6
<1> QED
  BY <1>1, <1>3, <1>4

-----------------------------------------------------------------------------
(* What a process knows of, it accounts for. *)

Known(vals, since) ==
  {i \in DOMAIN made : Live(i) /\ made[i].lost = "no" /\ made[i].addr \in vals /\ made[i].at >= since}

LEMMA KnownIsAccounted ==
  ASSUME BudgetInv, CapsInv, NEW v \in Validators, NEW what \in {"n", "bytes"}, NEW since \in Int
  PROVE  SumFunctionOnSet(WorthOf(what), Known({v}, since)) <=
           Held(events[v], what, since)
             + IF OnCall(v) /\ Reservation(v).at >= since THEN Worth(what, Reservation(v).bytes) ELSE 0
<1> DEFINE S == Known({v}, since)
           R == OverSince(v, since)
           out == S \ R
           d == IF OnCall(v) /\ Reservation(v).at >= since THEN Worth(what, Reservation(v).bytes) ELSE 0
<1>1. BudgetTypeInv /\ CallsInv /\ InstantsInv /\ LedgerInv
  BY DEF BudgetInv, CapsInv
<1>2. PICK f : f = WorthOf(what)
  OBVIOUS
<1>3. IsFiniteSet(DOMAIN made) /\ \A i \in DOMAIN made : f[i] \in Nat /\ f[i] = Worth(what, made[i].bytes)
  BY <1>1, <1>2, WorthTypes
<1>4. S \in SUBSET DOMAIN made /\ R \in SUBSET S
  BY DEF Known, OverSince, Live
<1>5. \A i \in out : OnCall(v) /\ i = call[v].id /\ made[i].at >= since
  BY DEF Known, OverSince, Live, InCall
<1>6. SumFunctionOnSet(f, R) <= Held(events[v], what, since)
  BY <1>1, <1>2 DEF LedgerInv
<1>7. IsFiniteSet(S) /\ IsFiniteSet(out) /\ IsFiniteSet(R)
  BY <1>3, <1>4, FS_Subset
<1>8. SumFunctionOnSet(f, out) <= d /\ d \in Nat
  <2>1. CASE OnCall(v) /\ Reservation(v).at >= since
    <3>1. PICK i \in DOMAIN made : i = call[v].id /\ made[i].bytes = Reservation(v).bytes
      BY <1>1, <2>1, CallTypes DEF Reservation
    <3>2. out \in SUBSET {i} /\ f[i] \in Nat /\ f[i] = d
      BY <1>3, <1>5, <2>1, <3>1
    <3> HIDE DEF out, d
    <3> QED
      BY <3>2, SumOfOne
  <2>2. CASE ~(OnCall(v) /\ Reservation(v).at >= since)
    <3>1. out = {}
      BY <1>5, <2>2 DEF Reservation
    <3>2. d = 0
      BY <2>2
    <3> HIDE DEF out, d
    <3> QED
      BY <3>1, <3>2, SumEmpty
  <2> QED
    BY <2>1, <2>2
<1> HIDE DEF S, R, d
<1>9. \A i \in S : f[i] \in Nat
  BY <1>3, <1>4
<1>10. SumFunctionOnSet(f, S) <= SumFunctionOnSet(f, R) + SumFunctionOnSet(f, S \ R)
  BY <1>4, <1>7, <1>9, SumSplit
<1>11. /\ SumFunctionOnSet(f, S) \in Nat /\ SumFunctionOnSet(f, R) \in Nat /\ SumFunctionOnSet(f, S \ R) \in Nat
       /\ Held(events[v], what, since) \in Nat
  <2>1. events \in Accounts
    BY <1>1 DEF LedgerInv
  <2>2. (\A i \in R : f[i] \in Nat) /\ \A i \in S \ R : f[i] \in Nat
    BY <1>4, <1>9
  <2> QED
    BY <1>7, <1>9, <2>1, <2>2, SumIsNat, HeldTypes
<1> DEFINE total == SumFunctionOnSet(f, S)
           over == SumFunctionOnSet(f, R)
           open == SumFunctionOnSet(f, S \ R)
           held == Held(events[v], what, since)
<1>12. total <= over + open /\ over <= held /\ open <= d /\ total \in Nat /\ over \in Nat /\ open \in Nat /\ held \in Nat /\ d \in Nat
  BY <1>6, <1>8, <1>10, <1>11
<1> HIDE DEF total, over, open, held
<1>13. total <= held + d
  BY <1>12
<1> QED
  BY <1>2, <1>13 DEF total, held, S, d

LEMMA SnapshotAccounts ==
  ASSUME BudgetInv, CapsInv
  PROVE  AccountsFor(Snapshot)
<1>1. BudgetTypeInv /\ CallsInv /\ InstantsInv /\ LedgerInv /\ AdmittedWithinCaps /\ events \in Accounts
  BY DEF BudgetInv, CapsInv, LedgerInv
<1>2. /\ Snapshot.covers = {i \in DOMAIN made : made[i].lost = "no"}
      /\ Snapshot.minutes = [v \in Validators |-> BucketByMinute(WithPending(v))]
  BY DEF Snapshot
<1>3. \A vals, since : CoveredBy(Snapshot, vals, since) = Known(vals, since)
  BY <1>2 DEF CoveredBy, Known
<1>4. \A v \in Validators : /\ WithPending(v) \in [Times -> [n : Nat, bytes : Nat]]
                            /\ \A t \in Times : WithPending(v)[t].n = 0 => WithPending(v)[t].bytes = 0
  BY <1>1, WithPendingHolds
<1>5. ASSUME NEW v \in Validators
      PROVE  /\ Snapshot.minutes[v] \in [Times -> [n : Nat, bytes : Nat]]
             /\ \A t \in Times : Snapshot.minutes[v][t].n = 0 => Snapshot.minutes[v][t].bytes = 0
  <2>1. PICK evs \in [Times -> [n : Nat, bytes : Nat]] : evs = WithPending(v)
    BY <1>4
  <2>2. Snapshot.minutes[v] = BucketByMinute(evs)
    BY <1>2, <2>1
  <2>3. \A t \in Times : BucketByMinute(evs)[t].n = 0 => BucketByMinute(evs)[t].bytes = 0
    <3> SUFFICES ASSUME NEW t \in Times, BucketByMinute(evs)[t].n = 0 PROVE BucketByMinute(evs)[t].bytes = 0
      OBVIOUS
    <3>1. ~IsNewestBusy(evs, t)
      BY BucketIs
    <3>2. BucketByMinute(evs)[t]["bytes"] = 0
      BY <3>1, BucketIs
    <3> QED
      BY <3>2
  <2> QED
    BY <2>2, <2>3, BucketIs
<1>6. Snapshot.minutes \in Accounts
  <2>1. Snapshot.minutes = [v \in Validators |-> Snapshot.minutes[v]]
    BY <1>2
  <2>2. Snapshot.minutes \in [Validators -> [Times -> [n : Nat, bytes : Nat]]]
    BY <1>5, <2>1
  <2> QED
    BY <1>5, <2>2 DEF Accounts
<1>7. ASSUME NEW v \in Validators, NEW what \in {"n", "bytes"}, NEW since \in Int
      PROVE  SumFunctionOnSet(WorthOf(what), CoveredBy(Snapshot, {v}, since)) <= Held(Snapshot.minutes[v], what, since)
  <2> DEFINE sum == SumFunctionOnSet(WorthOf(what), Known({v}, since))
             with == Held(WithPending(v), what, since)
             bucket == Held(Snapshot.minutes[v], what, since)
  <2>1. sum <= with
    BY <1>1, KnownIsAccounted, WithPendingHolds
  <2>2. with <= bucket
    BY <1>2, <1>4, BucketHoldsAsMuch
  <2>3. sum \in Nat
    <3>1. Known({v}, since) \in SUBSET DOMAIN made
      BY DEF Known
    <3> QED
      BY <1>1, <3>1, WorthFewer
  <2>4. bucket \in Nat
    BY <1>6, HeldTypes
  <2>5. with \in Nat
    <3> DEFINE a == [w \in Validators |-> WithPending(w)]
    <3>1. a \in Accounts /\ a[v] = WithPending(v)
      BY <1>4 DEF Accounts
    <3> HIDE DEF a
    <3>2. Held(a[v], what, since) \in Nat
      BY <3>1, HeldTypes
    <3> QED
      BY <3>1, <3>2
  <2> HIDE DEF sum, with, bucket
  <2>6. sum <= bucket
    BY <2>1, <2>2, <2>3, <2>4, <2>5
  <2> QED
    BY <1>3, <2>6 DEF sum, bucket
<1>8. ASSUME NEW c \in Caps, NEW v \in Validators
      PROVE  SumFunctionOnSet(WorthOf(c.what), CoveredBy(Snapshot, Scope(c, v), clock - c.window)) <= c.cap
  <2> DEFINE sum == SumFunctionOnSet(WorthOf(c.what), Known(Scope(c, v), clock - c.window))
             all == SumFunctionOnSet(WorthOf(c.what), Counted(c, v))
  <2>1. Counted(c, v) \in SUBSET DOMAIN made /\ Known(Scope(c, v), clock - c.window) \in SUBSET Counted(c, v)
    BY DEF Known, Counted, Answerable
  <2>2. sum <= all /\ sum \in Nat /\ all \in Nat
    BY <1>1, <2>1, WorthFewer
  <2>3. all <= c.cap /\ c.cap \in Nat
    BY <1>1, CapsConstants DEF AdmittedWithinCaps
  <2> HIDE DEF sum, all
  <2>4. sum <= c.cap
    BY <2>2, <2>3
  <2> QED
    BY <1>3, <2>4 DEF sum
<1> QED
  BY <1>6, <1>7, <1>8 DEF AccountsFor

LEMMA KnownIsSummed ==
  ASSUME BudgetInv, CapsInv, NEW vals \in SUBSET Validators, NEW what \in {"n", "bytes"}, NEW since \in Int
  PROVE  /\ SumFunctionOnSet(WorthOf(what), Known(vals, since)) <= SumWithPending(vals, what, since)
         /\ SumWithPending(vals, what, since) \in Nat
<1> DEFINE S == Known(vals, since)
           R == {i \in S : ~InCall(i)}
           out == S \ R
           reserved == {r \in pending : r.addr \in vals /\ r.at >= since}
           accounted == [v \in vals |-> Accounted(v, what, since)]
           worth == [r \in reserved |-> IF what = "n" THEN 1 ELSE r.bytes]
           who == [i \in R |-> made[i].addr]
           which == [i \in out |-> Reservation(made[i].addr)]
<1>1. BudgetTypeInv /\ CallsInv /\ InstantsInv /\ LedgerInv /\ events \in Accounts
  BY DEF BudgetInv, CapsInv, LedgerInv
<1>2. PICK f : f = WorthOf(what)
  OBVIOUS
<1>3. IsFiniteSet(DOMAIN made) /\ \A i \in DOMAIN made : f[i] \in Nat /\ f[i] = Worth(what, made[i].bytes)
  BY <1>1, <1>2, WorthTypes
<1>4. S \in SUBSET DOMAIN made /\ R \in SUBSET S
  BY DEF Known
<1>5. IsFiniteSet(S) /\ IsFiniteSet(R) /\ IsFiniteSet(out) /\ (\A i \in S : f[i] \in Nat)
      /\ (\A i \in R : f[i] \in Nat) /\ (\A i \in out : f[i] \in Nat)
  BY <1>3, <1>4, FS_Subset
<1>6. SumFunctionOnSet(f, R) <= SumFunctionOnSet(accounted, vals) /\ SumFunctionOnSet(accounted, vals) \in Nat
  <2>1. IsFiniteSet(vals)
    BY CapsConstants, FS_Subset
  <2>2. \A v \in vals : accounted[v] = Held(events[v], what, since) /\ accounted[v] \in Nat
    BY <1>1, AccountedIsHeld, HeldTypes
  <2>3. \A v \in vals : {i \in R : who[i] = v} = OverSince(v, since)
    BY DEF Known, OverSince, Live
  <2>4. \A v \in vals : SumFunctionOnSet(f, {i \in R : who[i] = v}) <= accounted[v]
    <3> SUFFICES ASSUME NEW v \in vals PROVE SumFunctionOnSet(f, {i \in R : who[i] = v}) <= accounted[v]
      OBVIOUS
    <3>1. SumFunctionOnSet(f, OverSince(v, since)) <= Held(events[v], what, since)
      BY <1>1, <1>2 DEF LedgerInv
    <3> HIDE DEF R, who, accounted
    <3> QED
      BY <2>2, <2>3, <3>1
  <2>5. \A i \in R : who[i] \in vals
    BY DEF Known
  <2> HIDE DEF R, who, accounted
  <2>6. SumFunctionOnSet(f, R) <= SumFunctionOnSet(accounted, vals)
    BY <1>5, <2>1, <2>2, <2>4, <2>5, SumByParts
  <2> QED
    BY <2>1, <2>2, <2>6, SumIsNat
<1>7. SumFunctionOnSet(f, out) <= SumFunctionOnSet(worth, reserved) /\ SumFunctionOnSet(worth, reserved) \in Nat
  <2>1. IsFiniteSet(reserved)
    <3>1. IsFiniteSet(Validators)
      BY CapsConstants
    <3>2. {w \in Validators : OnCall(w)} \in SUBSET Validators
      OBVIOUS
    <3>3. IsFiniteSet({w \in Validators : OnCall(w)})
      BY <3>1, <3>2, FS_Subset
    <3>4. IsFiniteSet({Reservation(v) : v \in {w \in Validators : OnCall(w)}})
      <4> DEFINE callers == {w \in Validators : OnCall(w)}
                 image == {Reservation(v) : v \in callers}
                 g == [v \in callers |-> Reservation(v)]
      <4>1. g \in Surjection(callers, image)
        BY DEF Surjection
      <4> HIDE DEF callers, image, g
      <4>2. IsFiniteSet(image)
        BY <3>3, <4>1, FS_Surjection DEF callers
      <4> QED
        BY <4>2 DEF image, callers
    <3>5. IsFiniteSet(pending) /\ reserved \in SUBSET pending
      BY <1>1, <3>4 DEF CallsInv
    <3> QED
      BY <3>5, FS_Subset
  <2>2. ASSUME NEW i \in out
        PROVE  which[i] \in reserved /\ which[i].bytes = made[i].bytes /\ which[i].addr = made[i].addr
               /\ i = call[which[i].addr].id /\ f[i] = worth[which[i]]
    <3>1. /\ i \in DOMAIN made /\ made[i].addr \in vals /\ made[i].addr \in Validators /\ made[i].at >= since
          /\ OnCall(made[i].addr) /\ call[made[i].addr].id = i
      BY DEF Known, InCall
    <3>2. PICK v \in Validators : v = made[i].addr
      BY <3>1
    <3>3. /\ which[i] = Reservation(v) /\ Reservation(v) \in pending /\ Reservation(v).addr = v
          /\ Reservation(v).at = made[i].at /\ Reservation(v).bytes = made[i].bytes
      BY <1>1, <3>1, <3>2, CallTypes DEF CallsInv, Reservation
    <3>4. which[i] \in reserved
      BY <3>1, <3>2, <3>3
    <3>5. worth[which[i]] = Worth(what, made[i].bytes)
      BY <3>3, <3>4 DEF Worth
    <3> QED
      BY <1>3, <3>1, <3>2, <3>3, <3>4, <3>5
  <2>3. \A r \in reserved : worth[r] \in Nat
    <3> SUFFICES ASSUME NEW r \in reserved PROVE worth[r] \in Nat
      OBVIOUS
    <3>1. PICK v \in Validators : OnCall(v) /\ r = Reservation(v)
      BY <1>1 DEF CallsInv
    <3>2. r.bytes \in Nat
      BY <1>1, <3>1, CallTypes
    <3> QED
      BY <3>2
  <2>4. \A r \in reserved : SumFunctionOnSet(f, {i \in out : which[i] = r}) <= worth[r]
    <3> SUFFICES ASSUME NEW r \in reserved PROVE SumFunctionOnSet(f, {i \in out : which[i] = r}) <= worth[r]
      OBVIOUS
    <3> DEFINE fibre == {i \in out : which[i] = r}
    <3> HIDE DEF out, which, worth, reserved
    <3>1. CASE fibre = {}
      <4> HIDE DEF fibre
      <4>1. SumFunctionOnSet(f, fibre) = 0
        BY <3>1, SumEmpty
      <4> QED
        BY <2>3, <4>1 DEF fibre
    <3>2. CASE fibre # {}
      <4>1. PICK i : i \in fibre
        BY <3>2
      <4>2. fibre \in SUBSET {i} /\ f[i] = worth[r] /\ f[i] \in Nat
        BY <1>5, <2>2, <4>1
      <4> HIDE DEF fibre
      <4>3. SumFunctionOnSet(f, fibre) <= f[i]
        BY <4>2, SumOfOne
      <4> QED
        BY <4>2, <4>3 DEF fibre
    <3> QED
      BY <3>1, <3>2
  <2>5. \A i \in out : which[i] \in reserved
    BY <2>2
  <2> HIDE DEF out, which, worth, reserved
  <2>6. SumFunctionOnSet(f, out) <= SumFunctionOnSet(worth, reserved)
    BY <1>5, <2>1, <2>3, <2>4, <2>5, SumByParts
  <2> QED
    BY <2>1, <2>3, <2>6, SumIsNat
<1>8. SumWithPending(vals, what, since) = SumFunctionOnSet(accounted, vals) + SumFunctionOnSet(worth, reserved)
  <2>1. DOMAIN accounted = vals /\ DOMAIN worth = reserved
    OBVIOUS
  <2>2. SumWithPending(vals, what, since) = SumFunction(accounted) + SumFunction(worth)
    BY DEF SumWithPending
  <2> HIDE DEF accounted, worth, reserved
  <2> QED
    BY <2>1, <2>2 DEF SumFunction
<1> DEFINE total == SumFunctionOnSet(f, S)
           over == SumFunctionOnSet(f, R)
           open == SumFunctionOnSet(f, S \ R)
           a == SumFunctionOnSet(accounted, vals)
           b == SumFunctionOnSet(worth, reserved)
<1>9. total <= over + open /\ over <= a /\ open <= b /\ a \in Nat /\ b \in Nat /\ total \in Nat /\ over \in Nat /\ open \in Nat
  <2>1. SumFunctionOnSet(f, S) \in Nat /\ SumFunctionOnSet(f, R) \in Nat /\ SumFunctionOnSet(f, out) \in Nat
    <3> HIDE DEF S, R, out
    <3> QED
      BY <1>5, SumIsNat
  <2>2. total <= over + open
    <3> HIDE DEF S, R
    <3> QED
      BY <1>4, <1>5, SumSplit
  <2> HIDE DEF accounted, worth, reserved, S, R
  <2> QED
    BY <1>6, <1>7, <2>1, <2>2
<1> HIDE DEF total, over, open, a, b
<1>10. total <= a + b /\ a + b \in Nat
  BY <1>9
<1> QED
  BY <1>2, <1>8, <1>10 DEF total, a, b

-----------------------------------------------------------------------------
(* Steps that admit nothing. *)

(* The requests so far are worth no more, and no more of them may go out. *)
NoMore ==
  /\ clock <= clock'
  /\ \A i \in DOMAIN made :
       /\ i \in DOMAIN made' /\ made'[i].addr = made[i].addr /\ made'[i].at = made[i].at
       /\ made'[i].bytes <= made[i].bytes /\ (Live(i)' => Live(i))

LEMMA FileStillAccounts ==
  ASSUME BudgetInv, BudgetTypeInv', InstantsInv, NoMore, NEW f, KnowsItsRequests(f), AccountsFor(f)
  PROVE  AccountsFor(f)'
<1> SUFFICES ASSUME f # NoFile
             PROVE  /\ f.minutes \in Accounts
                    /\ \A v \in Validators, what \in {"n", "bytes"}, since \in Int :
                         SumFunctionOnSet(WorthOf(what)', CoveredBy(f, {v}, since)') <= Held(f.minutes[v], what, since)
                    /\ \A c \in Caps, v \in Validators :
                         SumFunctionOnSet(WorthOf(c.what)', CoveredBy(f, Scope(c, v), clock - c.window)') <= c.cap
  BY DEF AccountsFor, Accounts, Held, Scope
<1>1. BudgetTypeInv /\ f.minutes \in Accounts /\ f.covers \in SUBSET DOMAIN made
  BY DEF AccountsFor, KnowsItsRequests, BudgetInv
<1>2. ASSUME NEW vals, NEW since, NEW what, NEW later, CoveredBy(f, vals, later)' \in SUBSET CoveredBy(f, vals, since)
      PROVE  /\ SumFunctionOnSet(WorthOf(what)', CoveredBy(f, vals, later)') <= SumFunctionOnSet(WorthOf(what), CoveredBy(f, vals, since))
             /\ SumFunctionOnSet(WorthOf(what)', CoveredBy(f, vals, later)') \in Nat
             /\ SumFunctionOnSet(WorthOf(what), CoveredBy(f, vals, since)) \in Nat
  <2>1. CoveredBy(f, vals, since) \in SUBSET DOMAIN made
    BY <1>1 DEF CoveredBy
  <2>2. \A i \in CoveredBy(f, vals, later)' : i \in DOMAIN made' /\ made'[i].bytes <= made[i].bytes
    BY <1>2, <2>1 DEF NoMore
  <2> QED
    BY <1>1, <1>2, <2>1, <2>2, WorthLess
<1>3. ASSUME NEW v \in Validators, NEW what \in {"n", "bytes"}, NEW since \in Int
      PROVE  SumFunctionOnSet(WorthOf(what)', CoveredBy(f, {v}, since)') <= Held(f.minutes[v], what, since)
  <2>1. CoveredBy(f, {v}, since)' \in SUBSET CoveredBy(f, {v}, since)
    BY <1>1 DEF CoveredBy, NoMore
  <2> DEFINE now == SumFunctionOnSet(WorthOf(what)', CoveredBy(f, {v}, since)')
             before == SumFunctionOnSet(WorthOf(what), CoveredBy(f, {v}, since))
  <2>2. now <= before /\ now \in Nat /\ before \in Nat
    BY <1>2, <2>1
  <2>3. before <= Held(f.minutes[v], what, since) /\ Held(f.minutes[v], what, since) \in Nat
    BY <1>1, HeldTypes DEF AccountsFor
  <2> HIDE DEF now, before
  <2>4. now <= Held(f.minutes[v], what, since)
    BY <2>2, <2>3
  <2> QED
    BY <2>4 DEF now
<1>4. ASSUME NEW c \in Caps, NEW v \in Validators
      PROVE  SumFunctionOnSet(WorthOf(c.what)', CoveredBy(f, Scope(c, v), clock - c.window)') <= c.cap
  <2>1. PICK vals, since, later, what : vals = Scope(c, v) /\ since = clock - c.window /\ later = clock' - c.window /\ what = c.what
    OBVIOUS
  <2>2. CoveredBy(f, vals, later)' \in SUBSET CoveredBy(f, vals, since)
    <3>1. \A i \in DOMAIN made : made'[i].at >= later => made[i].at >= since
      <4>1. clock \in Nat /\ clock' \in Nat /\ c.window \in Nat /\ \A i \in DOMAIN made : made[i].at \in Nat
        BY RequestTypes, CapsConstants DEF BudgetInv, BudgetTypeInv
      <4>2. clock <= clock' /\ \A i \in DOMAIN made : made'[i].at = made[i].at
        BY DEF NoMore
      <4> QED
        BY <2>1, <4>1, <4>2
    <3> QED
      BY <1>1, <3>1 DEF CoveredBy, NoMore
  <2> DEFINE now == SumFunctionOnSet(WorthOf(what)', CoveredBy(f, vals, later)')
             before == SumFunctionOnSet(WorthOf(what), CoveredBy(f, vals, since))
  <2>3. now <= before /\ now \in Nat /\ before \in Nat
    BY <1>2, <2>2
  <2>4. before <= c.cap /\ c.cap \in Nat
    BY <2>1, CapsConstants DEF AccountsFor
  <2>5. SumFunctionOnSet(WorthOf(c.what)', CoveredBy(f, Scope(c, v), clock - c.window)') = now
    BY <2>1 DEF Scope
  <2> HIDE DEF now, before
  <2> QED
    BY <2>3, <2>4, <2>5
<1> QED
  BY <1>1, <1>3, <1>4

LEMMA CapsStillKept ==
  ASSUME BudgetInv, BudgetTypeInv', NoMore, DOMAIN made' = DOMAIN made, AdmittedWithinCaps,
         \A i \in DOMAIN made : made'[i].lost = made[i].lost \/ (made[i].lost = "no" /\ made'[i].lost = "unread")
  PROVE  AdmittedWithinCaps'
<1> SUFFICES ASSUME NEW c \in Caps, NEW v \in Validators
             PROVE  SumFunctionOnSet(WorthOf(c.what)', Counted(c, v)') <= c.cap
  BY DEF AdmittedWithinCaps
<1>1. BudgetTypeInv
  BY DEF BudgetInv
<1>2. Counted(c, v) \in SUBSET DOMAIN made
  BY DEF Counted
<1>3. Counted(c, v)' \in SUBSET Counted(c, v)
  <2>1. \A i \in DOMAIN made : made'[i].at >= clock' - c.window => made[i].at >= clock - c.window
    <3>1. clock \in Nat /\ clock' \in Nat /\ c.window \in Nat /\ \A i \in DOMAIN made : made[i].at \in Nat
      BY RequestTypes, CapsConstants DEF BudgetInv, BudgetTypeInv
    <3>2. clock <= clock' /\ \A i \in DOMAIN made : made'[i].at = made[i].at
      BY DEF NoMore
    <3> QED
      BY <3>1, <3>2
  <2>2. \A i \in DOMAIN made : Answerable(i, c.window)' => Answerable(i, c.window)
    BY DEF Answerable
  <2> QED
    BY <2>1, <2>2 DEF Counted, NoMore, Scope
<1>4. \A i \in Counted(c, v)' : i \in DOMAIN made' /\ made'[i].bytes <= made[i].bytes
  BY <1>2, <1>3 DEF NoMore
<1> DEFINE now == SumFunctionOnSet(WorthOf(c.what)', Counted(c, v)')
           before == SumFunctionOnSet(WorthOf(c.what), Counted(c, v))
<1>5. now <= before /\ now \in Nat /\ before \in Nat
  BY <1>1, <1>2, <1>3, <1>4, WorthLess
<1>6. before <= c.cap /\ c.cap \in Nat
  BY CapsConstants DEF AdmittedWithinCaps
<1> HIDE DEF now, before
<1>7. now <= c.cap
  BY <1>5, <1>6
<1> QED
  BY <1>7 DEF now

(* A step that leaves the calls, the requests and the accounts alone. *)
LEMMA QuietStep ==
  ASSUME BudgetInv, BudgetTypeInv', CapsInv,
         UNCHANGED <<events, pending, cooldownUntil, made>>, clock' \in Times, clock <= clock',
         \A v \in Validators : (OnCall(v)' <=> OnCall(v)) /\ (OnCall(v) => call'[v] = call[v])
  PROVE  /\ CallsInv' /\ InstantsInv' /\ LedgerInv' /\ CooldownInv' /\ AdmittedWithinCaps'
         /\ \A f : KnowsItsRequests(f) /\ AccountsFor(f) => AccountsFor(f)'
<1>1. CallsInv /\ InstantsInv /\ LedgerInv /\ CooldownInv /\ AdmittedWithinCaps
  BY DEF CapsInv
<1>2. \A i \in DOMAIN made : made[i].addr \in Validators /\ made[i].bytes \in Nat
  BY RequestTypes DEF BudgetInv, Request
<1>3. \A i \in DOMAIN made : (InCall(i)' <=> InCall(i)) /\ (Live(i)' <=> Live(i))
  BY <1>2 DEF InCall, Live
<1>4. NoMore
  BY <1>2, <1>3 DEF NoMore
<1>5. CallsInv'
  <2>1. \A v \in Validators : OnCall(v) => Reservation(v)' = Reservation(v)
    BY DEF Reservation
  <2>2. {Reservation(v) : v \in {w \in Validators : OnCall(w)}}' = {Reservation(v) : v \in {w \in Validators : OnCall(w)}}
    BY <2>1
  <2>3. pending' = {Reservation(v) : v \in {w \in Validators : OnCall(w)}}'
    BY <1>1, <2>2 DEF CallsInv
  <2>4. \A v \in Validators : OnCall(v)' =>
          /\ made'[call'[v].id].addr = v /\ made'[call'[v].id].lost = "no" /\ made'[call'[v].id].bytes = call'[v].bytes
          /\ made'[call'[v].id].sent <=> call'[v].step = "running"
    BY <1>1 DEF CallsInv
  <2> QED
    BY <2>3, <2>4 DEF CallsInv
<1>6. InstantsInv'
  BY <1>1 DEF InstantsInv, Times
<1>7. LedgerInv'
  <2>1. \A v \in Validators, since \in Int : OverSince(v, since)' = OverSince(v, since)
    BY <1>3 DEF OverSince
  <2>2. \A what : WorthOf(what)' = WorthOf(what)
    BY DEF WorthOf, Worth
  <2> QED
    BY <1>1, <2>1, <2>2 DEF LedgerInv, Accounts, Held, Times
<1>8. CooldownInv'
  BY <1>1 DEF CooldownInv
<1>9. AdmittedWithinCaps'
  BY <1>1, <1>4, CapsStillKept
<1>10. \A f : KnowsItsRequests(f) /\ AccountsFor(f) => AccountsFor(f)'
  BY <1>1, <1>4, FileStillAccounts
<1> QED
  BY <1>5, <1>6, <1>7, <1>8, <1>9, <1>10

(* A file that is left alone, a save that is made, given up or begun. *)
LEMMA FilesStep ==
  ASSUME BudgetInv, CapsInv,
         \A f : KnowsItsRequests(f) /\ AccountsFor(f) => AccountsFor(f)',
         file' = file \/ file' = saving, saving' \in {saving, NotSaving, Snapshot}
  PROVE  AccountsFor(file)' /\ AccountsFor(saving)'
<1>1. /\ AccountsFor(file) /\ AccountsFor(saving) /\ AccountsFor(Snapshot)
      /\ KnowsItsRequests(file) /\ KnowsItsRequests(saving) /\ KnowsItsRequests(Snapshot)
  BY SnapshotAccounts, SnapshotKnows DEF CapsInv, BudgetInv, FilesInv
<1>2. PICK a, b, c : a = file /\ b = saving /\ c = Snapshot
  OBVIOUS
<1>3. AccountsFor(a)' /\ AccountsFor(b)' /\ AccountsFor(c)'
  BY <1>1, <1>2
<1>4. file' \in {a, b} /\ (saving' \in {b, c} \/ saving' = NoFile)
  BY <1>2 DEF NotSaving, NoFile
<1> QED
  BY <1>3, <1>4 DEF AccountsFor

LEMMA QuietCaps ==
  ASSUME BudgetInv, BudgetInv', CapsInv,
         Tick \/ FlushBegin \/ FlushSaved \/ FlushFailed \/ \E v \in Validators : Ask(v) \/ Deny(v)
  PROVE  CapsInv'
<1>1. clock \in Times /\ clock <= MaxClock /\ MaxClock \in Nat /\ clock \in Nat
  BY CapsConstants, TimesFrom DEF CapsInv, InstantsInv, Times
<1>2. UNCHANGED <<events, pending, cooldownUntil, made>>
  BY DEF Tick, FlushBegin, FlushSaved, FlushFailed, Ask, Deny, policyVars
<1>3. clock' = clock \/ (clock' = clock + 1 /\ clock < MaxClock)
  BY DEF Tick, FlushBegin, FlushSaved, FlushFailed, Ask, Deny
<1>4. clock' \in Times /\ clock <= clock'
  BY <1>1, <1>3 DEF Times
<1>5. UNCHANGED call \/ \E v \in Validators, c \in {Idle} \cup {[step |-> "waiting", bytes |-> b, id |-> 0] : b \in ShardSizes} :
        call' = [call EXCEPT ![v] = c] /\ call[v].step \in {"none", "waiting"}
  <2>1. CASE Tick \/ FlushBegin \/ FlushSaved \/ FlushFailed
    BY <2>1 DEF Tick, FlushBegin, FlushSaved, FlushFailed
  <2>2. ASSUME NEW v \in Validators, Ask(v)
        PROVE  UNCHANGED call \/ \E c \in {Idle} \cup {[step |-> "waiting", bytes |-> b, id |-> 0] : b \in ShardSizes} :
                 call' = [call EXCEPT ![v] = c] /\ call[v].step \in {"none", "waiting"}
    BY <2>2 DEF Ask
  <2>3. ASSUME NEW v \in Validators, Deny(v)
        PROVE  call' = [call EXCEPT ![v] = Idle] /\ call[v].step \in {"none", "waiting"}
    BY <2>3 DEF Deny
  <2> QED
    BY <2>1, <2>2, <2>3
<1>6. \A v \in Validators : (OnCall(v)' <=> OnCall(v)) /\ (OnCall(v) => call'[v] = call[v])
  <2>1. CASE UNCHANGED call
    BY <2>1 DEF OnCall
  <2>2. CASE ~UNCHANGED call
    <3>1. PICK v \in Validators, c \in {Idle} \cup {[step |-> "waiting", bytes |-> b, id |-> 0] : b \in ShardSizes} :
            call' = [call EXCEPT ![v] = c] /\ call[v].step \in {"none", "waiting"}
      BY <1>5, <2>2
    <3>2. c.step \in {"none", "waiting"}
      BY DEF Idle
    <3>3. \A w \in Validators : call'[w] = IF w = v THEN c ELSE call[w]
      BY <3>1 DEF BudgetInv, BudgetTypeInv
    <3> QED
      BY <3>1, <3>2, <3>3 DEF OnCall
  <2> QED
    BY <2>1, <2>2
<1>7. (file' = file \/ file' = saving) /\ saving' \in {saving, NotSaving, Snapshot}
  BY DEF Tick, FlushBegin, FlushSaved, FlushFailed, Ask, Deny
<1>8. /\ CallsInv' /\ InstantsInv' /\ LedgerInv' /\ CooldownInv' /\ AdmittedWithinCaps'
      /\ \A f : KnowsItsRequests(f) /\ AccountsFor(f) => AccountsFor(f)'
  BY <1>2, <1>4, <1>6, QuietStep DEF BudgetInv
<1>9. AccountsFor(file)' /\ AccountsFor(saving)'
  BY <1>7, <1>8, FilesStep
<1> QED
  BY <1>8, <1>9 DEF CapsInv

-----------------------------------------------------------------------------
(* The steps of a call that is admitted. *)

LEMMA TakenIs ==
  ASSUME BudgetInv, CallsInv, InstantsInv, NEW v \in Validators, OnCall(v)
  PROVE  TakePending(v) = {Reservation(w) : w \in {u \in Validators : OnCall(u) /\ u # v}}
<1>1. {r \in pending : r.addr = v} = {Reservation(v)}
  BY OwnReservation
<1>2. Reservation(v).at \in Nat /\ \A w \in Validators : OnCall(w) => Reservation(w).addr = w
  BY CallTypes, TimesFrom
<1>3. (CHOOSE r \in {Reservation(v)} : \A q \in {Reservation(v)} : r.at <= q.at) = Reservation(v)
  BY <1>2
<1>4. TakePending(v) = pending \ {Reservation(v)}
  BY <1>1, <1>3 DEF TakePending
<1>5. pending = {Reservation(w) : w \in {u \in Validators : OnCall(u)}}
  BY DEF CallsInv
<1> QED
  BY <1>2, <1>4, <1>5

(* Facts that the steps of a call share, of which "id" is the request. *)
LEMMA CallChanges ==
  ASSUME BudgetInv, CallsInv, InstantsInv, NEW v \in Validators, OnCall(v), NEW id, id = call[v].id,
         UNCHANGED clock,
         \A w \in Validators : w # v => call'[w] = call[w],
         DOMAIN made' = DOMAIN made, \A i \in DOMAIN made : i # id => made'[i] = made[i],
         made'[id].addr = made[id].addr, made'[id].at = made[id].at, made'[id].lost = made[id].lost,
         made'[id].bytes \in Nat, made'[id].bytes <= made[id].bytes,
         OnCall(v)' => call'[v].id = id
  PROVE  /\ id \in DOMAIN made /\ made[id].addr = v /\ InCall(id) /\ made[id].lost = "no"
         /\ \A w \in Validators : w # v => (OnCall(w)' <=> OnCall(w))
         /\ \A w \in Validators : w # v /\ OnCall(w) => call[w].id # id /\ Reservation(w)' = Reservation(w)
         /\ \A i \in DOMAIN made : i # id => (InCall(i)' <=> InCall(i)) /\ (Live(i)' <=> Live(i))
         /\ InCall(id)' <=> OnCall(v)'
         /\ NoMore /\ InstantsInv'
<1>1. id \in DOMAIN made /\ made[id].addr = v /\ InCall(id) /\ made[id].lost = "no"
  BY CallTypes DEF CallsInv
<1>2. \A i \in DOMAIN made : made[i].addr \in Validators /\ made[i].bytes \in Nat
  BY RequestTypes DEF BudgetInv, Request
<1>3. \A w \in Validators : w # v => (OnCall(w)' <=> OnCall(w))
  BY DEF OnCall
<1>4. \A w \in Validators : w # v /\ OnCall(w) => call[w].id # id /\ call[w].id \in DOMAIN made
  BY <1>1, CallTypes
<1>5. \A w \in Validators : w # v /\ OnCall(w) => Reservation(w)' = Reservation(w)
  BY <1>4 DEF Reservation
<1>6. \A i \in DOMAIN made : i # id => (InCall(i)' <=> InCall(i))
  <2> SUFFICES ASSUME NEW i \in DOMAIN made, i # id PROVE InCall(i)' <=> InCall(i)
    OBVIOUS
  <2>1. made'[i] = made[i] /\ made[i].addr \in Validators
    BY <1>2
  <2>2. CASE made[i].addr = v
    BY <2>1, <2>2 DEF InCall
  <2>3. CASE made[i].addr # v
    BY <1>3, <2>1, <2>3 DEF InCall
  <2> QED
    BY <2>2, <2>3
<1>7. InCall(id)' <=> OnCall(v)'
  BY <1>1 DEF InCall
<1>8. \A i \in DOMAIN made : i # id => (Live(i)' <=> Live(i))
  BY <1>6 DEF Live
<1>9. NoMore
  <2>1. clock <= clock'
    BY DEF BudgetInv, BudgetTypeInv
  <2>2. Live(id)
    BY <1>1 DEF Live
  <2> QED
    BY <1>2, <1>8, <2>1, <2>2 DEF NoMore
<1>10. InstantsInv'
  BY DEF InstantsInv, Times
<1> QED
  BY <1>1, <1>3, <1>4, <1>5, <1>6, <1>7, <1>8, <1>9, <1>10

(* What a call's step leaves to show: what is accounted for. *)
LEMMA CallStepCaps ==
  ASSUME BudgetInv, BudgetTypeInv', CapsInv, NoMore, DOMAIN made' = DOMAIN made,
         \A i \in DOMAIN made : made'[i].lost = made[i].lost, UNCHANGED <<cooldownUntil, file, saving>>,
         CallsInv', InstantsInv', LedgerInv'
  PROVE  CapsInv'
<1>1. \A f : KnowsItsRequests(f) /\ AccountsFor(f) => AccountsFor(f)'
  BY FileStillAccounts DEF CapsInv
<1>2. AccountsFor(file)' /\ AccountsFor(saving)'
  BY <1>1, FilesStep
<1>3. AdmittedWithinCaps'
  BY CapsStillKept DEF CapsInv
<1>4. CooldownInv'
  BY DEF CapsInv, CooldownInv, NoMore
<1> QED
  BY <1>2, <1>3, <1>4 DEF CapsInv

LEMMA StartCaps ==
  ASSUME BudgetInv, BudgetInv', CapsInv, NEW v \in Validators, Start(v)
  PROVE  CapsInv'
<1>1. PICK id : id = call[v].id
  OBVIOUS
<1>2. /\ call[v].step = "admitted" /\ made' = [made EXCEPT ![id].sent = TRUE] /\ call' = [call EXCEPT ![v].step = "running"]
      /\ UNCHANGED <<clock, events, pending, cooldownUntil, saving, file>>
  BY <1>1 DEF Start, policyVars
<1>3. CallsInv /\ InstantsInv /\ LedgerInv /\ OnCall(v)
  BY <1>2 DEF CapsInv, OnCall
<1>4. id \in DOMAIN made /\ made[id] \in Request
  BY <1>1, <1>3, CallTypes
<1>5. /\ DOMAIN made' = DOMAIN made /\ \A i \in DOMAIN made : i # id => made'[i] = made[i]
      /\ made'[id].addr = made[id].addr /\ made'[id].at = made[id].at /\ made'[id].lost = made[id].lost
      /\ made'[id].bytes = made[id].bytes /\ made'[id].sent = TRUE /\ made[id].bytes \in Nat
  BY <1>2, <1>4 DEF Request
<1>6. /\ \A w \in Validators : w # v => call'[w] = call[w]
      /\ call'[v].step = "running" /\ call'[v].id = id /\ call'[v].bytes = call[v].bytes
  BY <1>1, <1>2 DEF BudgetInv, BudgetTypeInv
<1>7. OnCall(v)'
  BY <1>6 DEF OnCall
<1>8. /\ made[id].addr = v /\ InCall(id)
      /\ \A w \in Validators : w # v => (OnCall(w)' <=> OnCall(w))
      /\ \A w \in Validators : w # v /\ OnCall(w) => call[w].id # id /\ Reservation(w)' = Reservation(w)
      /\ \A i \in DOMAIN made : i # id => (InCall(i)' <=> InCall(i))
      /\ InCall(id)'
      /\ NoMore /\ InstantsInv'
  <2>1. made'[id].bytes \in Nat /\ made'[id].bytes <= made[id].bytes
    BY <1>5
  <2> QED
    BY <1>1, <1>2, <1>3, <1>5, <1>6, <1>7, <2>1, CallChanges
<1>9. CallsInv'
  <2>1. \A w \in Validators : (OnCall(w)' <=> OnCall(w)) /\ (OnCall(w) => Reservation(w)' = Reservation(w))
    BY <1>1, <1>3, <1>5, <1>6, <1>7, <1>8 DEF Reservation
  <2>2. {Reservation(u) : u \in {w \in Validators : OnCall(w)}}' = {Reservation(u) : u \in {w \in Validators : OnCall(w)}}
    BY <2>1
  <2>3. pending' = {Reservation(u) : u \in {w \in Validators : OnCall(w)}}'
    BY <1>2, <1>3, <2>2 DEF CallsInv
  <2>4. ASSUME NEW w \in Validators, OnCall(w)'
        PROVE  /\ made'[call'[w].id].addr = w /\ made'[call'[w].id].lost = "no" /\ made'[call'[w].id].bytes = call'[w].bytes
               /\ made'[call'[w].id].sent <=> call'[w].step = "running"
    <3>1. CASE w = v
      BY <1>1, <1>3, <1>5, <1>6, <1>8, <3>1 DEF CallsInv
    <3>2. CASE w # v
      <4>1. OnCall(w) /\ call'[w] = call[w] /\ call[w].id # id /\ call[w].id \in DOMAIN made
        BY <1>3, <1>6, <1>8, <2>4, <3>2, CallTypes
      <4> QED
        BY <1>3, <1>5, <4>1 DEF CallsInv
    <3> QED
      BY <3>1, <3>2
  <2> QED
    BY <2>3, <2>4 DEF CallsInv
<1>10. LedgerInv'
  <2>1. \A w \in Validators, since \in Int : OverSince(w, since)' = OverSince(w, since)
    BY <1>5, <1>8 DEF OverSince
  <2>2. \A what : WorthOf(what)' = WorthOf(what)
    BY <1>5 DEF WorthOf, Worth
  <2> QED
    BY <1>2, <1>3, <2>1, <2>2 DEF LedgerInv, Accounts, Held, Times
<1>11. \A i \in DOMAIN made : made'[i].lost = made[i].lost
  BY <1>5
<1> QED
  BY <1>2, <1>5, <1>8, <1>9, <1>10, <1>11, CallStepCaps DEF BudgetInv

LEMMA ReleaseCaps ==
  ASSUME BudgetInv, BudgetInv', CapsInv, NEW v \in Validators, Release(v)
  PROVE  CapsInv'
<1>1. PICK id : id = call[v].id
  OBVIOUS
<1>2. /\ call[v].step = "admitted" /\ made' = made /\ call' = [call EXCEPT ![v] = Idle] /\ pending' = TakePending(v)
      /\ UNCHANGED <<clock, events, cooldownUntil, saving, file>>
  BY DEF Release
<1>3. CallsInv /\ InstantsInv /\ LedgerInv /\ OnCall(v)
  BY <1>2 DEF CapsInv, OnCall
<1>4. id \in DOMAIN made /\ made[id] \in Request /\ made[id].bytes \in Nat
  BY <1>1, <1>3, CallTypes DEF Request
<1>5. (\A w \in Validators : w # v => call'[w] = call[w]) /\ ~OnCall(v)'
  BY <1>2 DEF BudgetInv, BudgetTypeInv, OnCall, Idle
<1>6. /\ made[id].addr = v /\ InCall(id) /\ ~made[id].sent
      /\ \A w \in Validators : w # v => (OnCall(w)' <=> OnCall(w))
      /\ \A w \in Validators : w # v /\ OnCall(w) => call[w].id # id /\ Reservation(w)' = Reservation(w)
      /\ \A i \in DOMAIN made : i # id => (InCall(i)' <=> InCall(i))
      /\ NoMore /\ InstantsInv'
  <2>1. ~made[id].sent
    BY <1>1, <1>2, <1>3 DEF CallsInv
  <2>2. made'[id].bytes \in Nat /\ made'[id].bytes <= made[id].bytes
    BY <1>2, <1>4
  <2> QED
    BY <1>1, <1>2, <1>3, <1>5, <2>1, <2>2, CallChanges
<1>7. CallsInv'
  <2>1. pending' = {Reservation(w) : w \in {u \in Validators : OnCall(u) /\ u # v}}
    BY <1>2, <1>3, TakenIs
  <2>2. {u \in Validators : OnCall(u)}' = {u \in Validators : OnCall(u) /\ u # v}
    BY <1>5, <1>6
  <2>3. {Reservation(w) : w \in {u \in Validators : OnCall(u)}}' = {Reservation(w) : w \in {u \in Validators : OnCall(u) /\ u # v}}
    BY <1>6, <2>2
  <2>4. \A w \in Validators : OnCall(w)' =>
          /\ made'[call'[w].id].addr = w /\ made'[call'[w].id].lost = "no" /\ made'[call'[w].id].bytes = call'[w].bytes
          /\ made'[call'[w].id].sent <=> call'[w].step = "running"
    BY <1>2, <1>3, <1>5, <1>6 DEF CallsInv
  <2> QED
    BY <2>1, <2>3, <2>4 DEF CallsInv
<1>8. LedgerInv'
  <2>1. \A w \in Validators, since \in Int : OverSince(w, since)' = OverSince(w, since)
    BY <1>2, <1>6 DEF OverSince
  <2>2. \A what : WorthOf(what)' = WorthOf(what)
    BY <1>2 DEF WorthOf, Worth
  <2> QED
    BY <1>2, <1>3, <2>1, <2>2 DEF LedgerInv, Accounts, Held, Times
<1> QED
  BY <1>2, <1>6, <1>7, <1>8, CallStepCaps DEF BudgetInv

LEMMA HeldAfterEvent ==
  ASSUME events \in Accounts, NEW v \in Validators, NEW at \in Times, NEW b \in Nat
  PROVE  /\ AddEvent(events[v], at, 1, b) \in [Times -> [n : Nat, bytes : Nat]]
         /\ \A t \in Times : AddEvent(events[v], at, 1, b)[t].n = 0 => AddEvent(events[v], at, 1, b)[t].bytes = 0
         /\ \A what \in {"n", "bytes"}, since \in Int :
              Held(AddEvent(events[v], at, 1, b), what, since) =
                Held(events[v], what, since) + IF at >= since THEN Worth(what, b) ELSE 0
<1> DEFINE old == events[v]
           new == AddEvent(events[v], at, 1, b)
<1>1. /\ old \in [Times -> [n : Nat, bytes : Nat]] /\ \A t \in Times : old[t].n = 0 => old[t].bytes = 0
  BY DEF Accounts
<1>2. \A t \in Times : old[t].n \in Nat /\ old[t].bytes \in Nat /\ old[t] \in [n : Nat, bytes : Nat]
  <2>1. \A t \in Times : old[t] \in [n : Nat, bytes : Nat]
    BY <1>1
  <2> QED
    BY <2>1
<1>3. new = [old EXCEPT ![at] = [n |-> old[at].n + 1, bytes |-> old[at].bytes + b]]
  BY DEF AddEvent
<1> HIDE DEF old, new
<1>4. /\ \A t \in Times : t # at => new[t] = old[t]
      /\ new[at].n = old[at].n + 1 /\ new[at].bytes = old[at].bytes + b
      /\ new[at] \in [n : Nat, bytes : Nat]
      /\ new = [t \in Times |-> new[t]]
  <2>1. DOMAIN old = Times
    BY <1>1
  <2>2. new[at] = [n |-> old[at].n + 1, bytes |-> old[at].bytes + b] /\ \A t \in Times : t # at => new[t] = old[t]
    BY <1>3, <2>1
  <2>3. old[at].n + 1 \in Nat /\ old[at].bytes + b \in Nat
    BY <1>2
  <2>4. new = [t \in Times |-> new[t]]
    BY <1>3, <2>1
  <2> QED
    BY <2>2, <2>3, <2>4
<1>5. new \in [Times -> [n : Nat, bytes : Nat]]
  <2>1. \A t \in Times : new[t] \in [n : Nat, bytes : Nat]
    BY <1>2, <1>4
  <2> QED
    BY <1>4, <2>1
<1>6. \A t \in Times : new[t].n = 0 => new[t].bytes = 0
  BY <1>1, <1>2, <1>4
<1>7. ASSUME NEW what \in {"n", "bytes"}, NEW since \in Int
      PROVE  Held(new, what, since) = Held(old, what, since) + IF at >= since THEN Worth(what, b) ELSE 0
  <2> DEFINE S == {u \in Times : u >= since}
             f == [t \in Times |-> old[t][what]]
             g == [t \in Times |-> new[t][what]]
             d == Worth(what, b)
  <2>1. IsFiniteSet(S) /\ S \in SUBSET Times
    BY TimesFrom
  <2>2. \A t \in Times : f[t] \in Nat /\ (t # at => g[t] = f[t])
    BY <1>2, <1>4
  <2>3. g[at] = f[at] + d /\ d \in Nat
    BY <1>4 DEF Worth
  <2>4. at \in S <=> at >= since
    OBVIOUS
  <2>5. SumFunctionOnSet(f, S) \in Nat
    <3> HIDE DEF f, S
    <3> QED
      BY <2>1, <2>2, SumIsNat
  <2>6. CASE at >= since
    <3>1. at \in S /\ (\A t \in S : f[t] \in Nat) /\ \A t \in S : t # at => g[t] = f[t]
      BY <2>2, <2>4, <2>6
    <3> HIDE DEF S, f, g, d
    <3>2. SumFunctionOnSet(g, S) = SumFunctionOnSet(f, S) + d
      BY <2>1, <2>3, <3>1, SumChange
    <3> QED
      BY <2>6, <3>2 DEF Held, S, f, g, d
  <2>7. CASE ~(at >= since)
    <3>1. \A t \in S : f[t] \in Nat /\ g[t] = f[t]
      BY <2>2, <2>4, <2>7
    <3> HIDE DEF S, f, g
    <3>2. SumFunctionOnSet(g, S) = SumFunctionOnSet(f, S)
      BY <2>1, <3>1, SumSame
    <3>3. SumFunctionOnSet(g, S) = SumFunctionOnSet(f, S) + 0
      BY <2>5, <3>2
    <3> QED
      BY <2>7, <3>3 DEF Held, f, g, S
  <2> QED
    BY <2>6, <2>7
<1> QED
  BY <1>5, <1>6, <1>7 DEF old, new

LEMMA AfterProbeCaps ==
  ASSUME BudgetInv, BudgetInv', CapsInv, NEW v \in Validators, AfterProbe(v)
  PROVE  CapsInv'
<1>1. PICK id, at : id = call[v].id /\ at = made[id].at
  OBVIOUS
<1>2. /\ call[v].step = "running" /\ call' = [call EXCEPT ![v] = Idle] /\ pending' = TakePending(v)
      /\ UNCHANGED <<clock, cooldownUntil, saving, file>>
  BY DEF AfterProbe
<1>3. PICK b \in {0, call[v].bytes} :
        events' = [events EXCEPT ![v] = AddEvent(@, at, 1, b)] /\ made' = [made EXCEPT ![id].bytes = b]
  BY <1>1 DEF AfterProbe
<1>4. CallsInv /\ InstantsInv /\ LedgerInv /\ OnCall(v) /\ BudgetTypeInv /\ events \in Accounts
  BY <1>2 DEF CapsInv, OnCall, BudgetInv, LedgerInv
<1>5. id \in DOMAIN made /\ made[id] \in Request /\ made[id].bytes \in Nat /\ at \in Times /\ made[id].sent
      /\ made[id].bytes = call[v].bytes /\ made[id].addr = v /\ InCall(id) /\ made[id].lost = "no"
  BY <1>1, <1>2, <1>4, CallTypes DEF Request, CallsInv, InstantsInv
<1>6. b \in Nat /\ b <= made[id].bytes
  BY <1>3, <1>5
<1>7. /\ DOMAIN made' = DOMAIN made /\ \A i \in DOMAIN made : i # id => made'[i] = made[i]
      /\ made'[id].addr = made[id].addr /\ made'[id].at = made[id].at /\ made'[id].lost = made[id].lost
      /\ made'[id].bytes = b /\ made'[id].sent
  BY <1>3, <1>5 DEF Request
<1>8. (\A w \in Validators : w # v => call'[w] = call[w]) /\ ~OnCall(v)'
  BY <1>2 DEF BudgetInv, BudgetTypeInv, OnCall, Idle
<1>9. /\ \A w \in Validators : w # v => (OnCall(w)' <=> OnCall(w))
      /\ \A w \in Validators : w # v /\ OnCall(w) => call[w].id # id /\ Reservation(w)' = Reservation(w)
      /\ \A i \in DOMAIN made : i # id => (InCall(i)' <=> InCall(i))
      /\ ~InCall(id)'
      /\ NoMore /\ InstantsInv'
  BY <1>1, <1>2, <1>4, <1>6, <1>7, <1>8, CallChanges
<1>10. CallsInv'
  <2>1. pending' = {Reservation(w) : w \in {u \in Validators : OnCall(u) /\ u # v}}
    BY <1>2, <1>4, TakenIs
  <2>2. {u \in Validators : OnCall(u)}' = {u \in Validators : OnCall(u) /\ u # v}
    BY <1>8, <1>9
  <2>3. {Reservation(w) : w \in {u \in Validators : OnCall(u)}}' = {Reservation(w) : w \in {u \in Validators : OnCall(u) /\ u # v}}
    BY <1>9, <2>2
  <2>4. ASSUME NEW w \in Validators, OnCall(w)'
        PROVE  /\ made'[call'[w].id].addr = w /\ made'[call'[w].id].lost = "no" /\ made'[call'[w].id].bytes = call'[w].bytes
               /\ made'[call'[w].id].sent <=> call'[w].step = "running"
    <3>1. w # v /\ OnCall(w) /\ call'[w] = call[w]
      BY <1>8, <1>9, <2>4
    <3>2. call[w].id # id /\ call[w].id \in DOMAIN made
      BY <1>4, <1>9, <3>1, CallTypes
    <3> QED
      BY <1>4, <1>7, <3>1, <3>2 DEF CallsInv
  <2> QED
    BY <2>1, <2>3, <2>4 DEF CallsInv
<1>11. events' \in Accounts /\ events'[v] = AddEvent(events[v], at, 1, b) /\ \A w \in Validators : w # v => events'[w] = events[w]
  <2>1. DOMAIN events = Validators /\ events \in [Validators -> [Times -> [n : Nat, bytes : Nat]]]
    BY <1>4 DEF Accounts
  <2>2. PICK e : e = AddEvent(events[v], at, 1, b)
    OBVIOUS
  <2>3. e \in [Times -> [n : Nat, bytes : Nat]] /\ \A t \in Times : e[t].n = 0 => e[t].bytes = 0
    BY <1>4, <1>5, <1>6, <2>2, HeldAfterEvent
  <2>4. events' = [events EXCEPT ![v] = e]
    BY <1>3, <2>2
  <2>5. events' \in [Validators -> [Times -> [n : Nat, bytes : Nat]]]
    BY <2>1, <2>3, <2>4
  <2>6. events'[v] = e /\ \A w \in Validators : w # v => events'[w] = events[w]
    BY <2>1, <2>4
  <2>7. \A w \in Validators : \A t \in Times : events'[w][t].n = 0 => events'[w][t].bytes = 0
    <3>1. \A w \in Validators : \A t \in Times : events[w][t].n = 0 => events[w][t].bytes = 0
      BY <1>4 DEF Accounts
    <3> QED
      BY <2>3, <2>6, <3>1
  <2> QED
    BY <2>2, <2>5, <2>6, <2>7 DEF Accounts
<1>12. ASSUME NEW w \in Validators, NEW what \in {"n", "bytes"}, NEW since \in Int
       PROVE  SumFunctionOnSet(WorthOf(what)', OverSince(w, since)') <= Held(events'[w], what, since)
  <2> DEFINE S == OverSince(w, since)
             before == SumFunctionOnSet(WorthOf(what), S)
             now == SumFunctionOnSet(WorthOf(what)', S)
             held == Held(events[w], what, since)
  <2>1. S \in SUBSET DOMAIN made /\ id \notin S
    BY <1>5 DEF OverSince
  <2>2. now <= before /\ now \in Nat /\ before \in Nat
    <3>1. \A i \in S : i \in DOMAIN made' /\ made'[i].bytes <= made[i].bytes
      BY <1>9, <2>1 DEF NoMore
    <3>2. BudgetTypeInv'
      BY DEF BudgetInv
    <3> HIDE DEF S
    <3> QED
      BY <1>4, <2>1, <3>1, <3>2, WorthLess
  <2>3. before <= held /\ held \in Nat
    BY <1>4, HeldTypes DEF LedgerInv
  <2>4. CASE w = v /\ at >= since
    <3>1. OverSince(w, since)' = S \cup {id}
      BY <1>1, <1>5, <1>7, <1>9, <2>4 DEF OverSince
    <3>2. PICK g : g = WorthOf(what)'
      OBVIOUS
    <3>3. \A i \in DOMAIN made : g[i] \in Nat /\ g[i] = Worth(what, made'[i].bytes)
      <4>1. \A i \in DOMAIN made : made'[i].bytes \in Nat
        <5>1. \A i \in DOMAIN made : made[i].bytes \in Nat
          BY <1>4, WorthTypes
        <5> QED
          BY <1>6, <1>7, <5>1
      <4> QED
        BY <1>7, <3>2, <4>1 DEF WorthOf, Worth
    <3>4. IsFiniteSet(S) /\ (\A i \in S \cup {id} : g[i] \in Nat) /\ g[id] = Worth(what, b) /\ g[id] \in Nat
      <4>1. IsFiniteSet(DOMAIN made)
        BY <1>4, WorthTypes
      <4>2. IsFiniteSet(S)
        BY <2>1, <4>1, FS_Subset
      <4> HIDE DEF S
      <4> QED
        BY <1>5, <1>7, <2>1, <3>3, <4>2
    <3>5. SumFunctionOnSet(g, S \cup {id}) = g[id] + SumFunctionOnSet(g, S)
      <4> HIDE DEF S
      <4> QED
        BY <2>1, <3>4, SumWith
    <3>6. Held(events'[w], what, since) = held + Worth(what, b)
      BY <1>4, <1>5, <1>6, <1>11, <2>4, HeldAfterEvent
    <3> DEFINE more == SumFunctionOnSet(g, S \cup {id})
    <3>7. more = g[id] + now
      BY <3>2, <3>5
    <3> HIDE DEF before, now, held, more, S
    <3>8. more <= held + Worth(what, b)
      BY <2>2, <2>3, <3>4, <3>7
    <3> QED
      BY <3>1, <3>2, <3>6, <3>8 DEF more
  <2>5. CASE ~(w = v /\ at >= since)
    <3>1. OverSince(w, since)' = S
      BY <1>1, <1>5, <1>7, <1>9, <2>5 DEF OverSince
    <3>2. Held(events'[w], what, since) = held
      <4>1. CASE w # v
        BY <1>11, <4>1
      <4>2. CASE w = v
        <5>1. Held(events'[w], what, since) = held + 0
          BY <1>4, <1>5, <1>6, <1>11, <2>5, <4>2, HeldAfterEvent
        <5> HIDE DEF held
        <5> QED
          BY <2>3, <5>1
      <4> QED
        BY <4>1, <4>2
    <3>3. SumFunctionOnSet(WorthOf(what)', OverSince(w, since)') = now
      BY <3>1
    <3> HIDE DEF before, now, held
    <3>4. now <= held
      BY <2>2, <2>3
    <3> QED
      BY <3>2, <3>3, <3>4
  <2> QED
    BY <2>4, <2>5
<1>13. LedgerInv'
  BY <1>11, <1>12 DEF LedgerInv, Accounts, Held, Times
<1>14. \A i \in DOMAIN made : made'[i].lost = made[i].lost
  BY <1>7
<1> QED
  BY <1>2, <1>7, <1>9, <1>10, <1>13, <1>14, CallStepCaps DEF BudgetInv

-----------------------------------------------------------------------------
(* A request that is admitted. *)

LEMMA Reserved ==
  ASSUME BudgetInv, CapsInv, NEW v \in Validators, Reserve(v), NEW new, new = Len(made) + 1
  PROVE  /\ DOMAIN made' = DOMAIN made \cup {new} /\ new \notin DOMAIN made
         /\ \A i \in DOMAIN made : made'[i] = made[i]
         /\ made'[new] = [addr |-> v, at |-> clock, bytes |-> call[v].bytes, sent |-> FALSE, lost |-> "no"]
         /\ \A w \in Validators : w # v => call'[w] = call[w]
         /\ ~OnCall(v) /\ OnCall(v)' /\ call'[v].id = new /\ call'[v].step = "admitted" /\ call'[v].bytes = call[v].bytes
         /\ \A w \in Validators : OnCall(w) => OnCall(w)' /\ call[w].id \in DOMAIN made /\ Reservation(w)' = Reservation(w)
         /\ \A w \in Validators : OnCall(w)' => OnCall(w) \/ w = v
         /\ \A i \in DOMAIN made : (InCall(i)' <=> InCall(i)) /\ (Live(i)' <=> Live(i))
         /\ InCall(new)' /\ NoMore /\ call[v].bytes \in Nat
<1> DEFINE r == [addr |-> v, at |-> clock, bytes |-> call[v].bytes, sent |-> FALSE, lost |-> "no"]
<1>1. /\ call[v].step = "waiting" /\ made' = Append(made, r) /\ UNCHANGED clock
      /\ call' = [call EXCEPT ![v] = [step |-> "admitted", bytes |-> call[v].bytes, id |-> new]]
  BY DEF Reserve
<1>2. BudgetTypeInv /\ CallsInv /\ InstantsInv /\ call[v].bytes \in Nat
  BY DEF BudgetInv, BudgetTypeInv, CapsInv
<1>3. Len(made) \in Nat /\ DOMAIN made = 1 .. Len(made) /\ \A i \in DOMAIN made : made[i] \in Request /\ made[i].addr \in Validators
  BY <1>2, RequestTypes
<1>4. /\ DOMAIN made' = DOMAIN made \cup {new} /\ new \notin DOMAIN made
      /\ made'[new] = r /\ \A i \in DOMAIN made : made'[i] = made[i]
  <2>1. r \in Request
    BY <1>2 DEF Request, BudgetTypeInv
  <2>2. /\ made' \in Seq(Request) /\ Len(made') = Len(made) + 1
        /\ made'[new] = r /\ \A i \in 1 .. Len(made) : made'[i] = made[i]
    <3>1. made \in Seq(Request)
      BY <1>2 DEF BudgetTypeInv
    <3> QED
      BY <1>1, <2>1, <3>1, AppendProperties
  <2>3. DOMAIN made' = 1 .. Len(made) + 1
    BY <2>2, LenProperties
  <2>4. 1 .. Len(made) + 1 = (1 .. Len(made)) \cup {new} /\ new \notin 1 .. Len(made)
    BY <1>3
  <2> QED
    BY <1>3, <2>2, <2>3, <2>4
<1>5. /\ \A w \in Validators : w # v => call'[w] = call[w]
      /\ call'[v].id = new /\ call'[v].step = "admitted" /\ call'[v].bytes = call[v].bytes
  BY <1>1 DEF BudgetInv, BudgetTypeInv
<1>6. ~OnCall(v) /\ OnCall(v)'
  BY <1>1, <1>5 DEF OnCall
<1>7. \A w \in Validators : w # v => (OnCall(w)' <=> OnCall(w))
  BY <1>5 DEF OnCall
<1>8. \A w \in Validators : OnCall(w) => call[w].id \in DOMAIN made
  BY <1>2, CallTypes
<1>9. \A w \in Validators : OnCall(w) => Reservation(w)' = Reservation(w)
  <2> SUFFICES ASSUME NEW w \in Validators, OnCall(w) PROVE Reservation(w)' = Reservation(w)
    OBVIOUS
  <2>1. call'[w] = call[w] /\ made'[call[w].id] = made[call[w].id]
    BY <1>4, <1>5, <1>6, <1>8
  <2> QED
    BY <2>1 DEF Reservation
<1>10. \A i \in DOMAIN made : InCall(i)' <=> InCall(i)
  <2> SUFFICES ASSUME NEW i \in DOMAIN made PROVE InCall(i)' <=> InCall(i)
    OBVIOUS
  <2>1. made'[i] = made[i] /\ made[i].addr \in Validators /\ i # new
    BY <1>3, <1>4
  <2>2. CASE made[i].addr = v
    BY <1>5, <1>6, <2>1, <2>2 DEF InCall
  <2>3. CASE made[i].addr # v
    BY <1>5, <1>7, <2>1, <2>3 DEF InCall
  <2> QED
    BY <2>2, <2>3
<1>11. \A i \in DOMAIN made : Live(i)' <=> Live(i)
  BY <1>4, <1>10 DEF Live
<1>12. InCall(new)'
  <2>1. made'[new].addr = v
    BY <1>4
  <2> QED
    BY <1>5, <1>6, <2>1 DEF InCall
<1>13. NoMore
  <2>1. clock <= clock' /\ \A i \in DOMAIN made : made[i].bytes \in Nat
    BY <1>1, <1>2, <1>3 DEF BudgetTypeInv, Request
  <2> QED
    BY <1>4, <1>11, <2>1 DEF NoMore
<1> QED
  BY <1>2, <1>4, <1>5, <1>6, <1>7, <1>8, <1>9, <1>10, <1>11, <1>12, <1>13

(* What was asked of the sums is what the caps need. *)
LEMMA ReserveWithinCaps ==
  ASSUME BudgetInv, BudgetInv', CapsInv, NEW v \in Validators, Reserve(v)
  PROVE  AdmittedWithinCaps'
<1> SUFFICES ASSUME NEW c \in Caps, NEW w \in Validators
             PROVE  SumFunctionOnSet(WorthOf(c.what)', Counted(c, w)') <= c.cap
  BY DEF AdmittedWithinCaps
<1>1. PICK new : new = Len(made) + 1
  OBVIOUS
<1>2. /\ DOMAIN made' = DOMAIN made \cup {new} /\ new \notin DOMAIN made
      /\ \A i \in DOMAIN made : made'[i] = made[i]
      /\ made'[new] = [addr |-> v, at |-> clock, bytes |-> call[v].bytes, sent |-> FALSE, lost |-> "no"]
      /\ \A i \in DOMAIN made : Live(i)' <=> Live(i)
      /\ NoMore /\ call[v].bytes \in Nat
  BY <1>1, Reserved
<1>3. UNCHANGED clock /\ WithinCaps(v, call[v].bytes) /\ cooldownUntil <= clock
  BY DEF Reserve, BudgetInv, RequestsInv
<1>4. BudgetTypeInv /\ BudgetTypeInv' /\ CooldownInv /\ AdmittedWithinCaps /\ clock \in Nat /\ cooldownUntil \in Nat
  BY DEF BudgetInv, BudgetTypeInv, CapsInv
<1>5. c.scope \in {"validator", "global"} /\ c.what \in {"n", "bytes"} /\ c.window \in Nat /\ c.cap \in Nat /\ UnknownCooldown \in Nat
  BY CapsConstants
<1>6. \A i \in DOMAIN made : made[i].at \in Nat
  BY <1>4, RequestTypes
<1> DEFINE since == clock - c.window
           now(S) == SumFunctionOnSet(WorthOf(c.what)', S)
           before(S) == SumFunctionOnSet(WorthOf(c.what), S)
<1>7. \A S \in SUBSET DOMAIN made : now(S) <= before(S) /\ now(S) \in Nat /\ before(S) \in Nat
  <2> SUFFICES ASSUME NEW S \in SUBSET DOMAIN made PROVE now(S) <= before(S) /\ now(S) \in Nat /\ before(S) \in Nat
    OBVIOUS
  <2>1. \A i \in S : i \in DOMAIN made' /\ made'[i].bytes <= made[i].bytes
    BY <1>2 DEF NoMore
  <2> QED
    BY <1>4, <2>1, WorthLess
<1>8. CASE v \notin Scope(c, w)
  <2>1. Counted(c, w)' = Counted(c, w) /\ Counted(c, w) \in SUBSET DOMAIN made
    <3>1. new \notin Counted(c, w)'
      BY <1>2, <1>8 DEF Counted, Scope
    <3> QED
      BY <1>2, <1>3, <3>1 DEF Counted, Scope, Answerable
  <2>2. before(Counted(c, w)) <= c.cap
    BY <1>4 DEF AdmittedWithinCaps
  <2>3. now(Counted(c, w)) <= before(Counted(c, w)) /\ now(Counted(c, w)) \in Nat /\ before(Counted(c, w)) \in Nat
    BY <1>7, <2>1
  <2>4. SumFunctionOnSet(WorthOf(c.what)', Counted(c, w)') = now(Counted(c, w))
    BY <2>1
  <2> HIDE DEF now, before
  <2> QED
    BY <1>5, <2>2, <2>3, <2>4
<1>9. CASE v \in Scope(c, w)
  <2>1. Scope(c, w) = Scope(c, v)
    BY <1>5, <1>9 DEF Scope
  <2> DEFINE S == Known(Scope(c, v), since)
             d == Worth(c.what, call[v].bytes)
             sum == SumWithPending(Scope(c, v), c.what, since)
  <2>2. S \in SUBSET DOMAIN made
    BY DEF Known
  <2>3. Counted(c, w)' = S \cup {new}
    <3>1. Counted(c, w)' = {i \in DOMAIN made' : /\ Live(i)' /\ made'[i].addr \in Scope(c, v) /\ made'[i].at >= since
                                                 /\ Answerable(i, c.window)'}
      BY <1>3, <2>1 DEF Counted, Scope
    <3>2. new \in Counted(c, w)'
      <4>1. Live(new)'
        BY <1>1, Reserved DEF Live
      <4>2. Answerable(new, c.window)'
        BY <1>2 DEF Answerable
      <4>3. made'[new].at >= since /\ made'[new].addr = v
        BY <1>2, <1>4, <1>5
      <4> QED
        BY <1>2, <1>9, <2>1, <3>1, <4>1, <4>2, <4>3
    <3>3. ASSUME NEW i \in DOMAIN made
          PROVE  i \in Counted(c, w)' <=> i \in S
      <4>1. made'[i] = made[i] /\ (Live(i)' <=> Live(i)) /\ i \in DOMAIN made'
        BY <1>2
      <4>2. made[i].at >= since => (Answerable(i, c.window)' <=> made[i].lost = "no")
        <5> SUFFICES ASSUME made[i].at >= since, made[i].lost = "unread", c.window < UnknownCooldown PROVE FALSE
          BY <4>1 DEF Answerable
        <5>1. made[i].at + UnknownCooldown <= cooldownUntil
          BY <1>4 DEF CooldownInv
        <5> QED
          BY <1>3, <1>4, <1>5, <1>6, <5>1
      <4> QED
        BY <3>1, <4>1, <4>2 DEF Known
    <3> QED
      BY <1>2, <2>2, <3>2, <3>3, <3>1
  <2>4. now(S \cup {new}) = d + now(S) /\ d \in Nat
    <3>1. PICK g : g = WorthOf(c.what)'
      OBVIOUS
    <3>2. \A i \in DOMAIN made' : g[i] = Worth(c.what, made'[i].bytes) /\ made'[i].bytes \in Nat
      <4>1. \A i \in DOMAIN made : made[i].bytes \in Nat
        BY <1>4, WorthTypes
      <4>2. \A i \in DOMAIN made' : made'[i].bytes \in Nat
        BY <1>2, <4>1
      <4> QED
        BY <3>1, <4>2 DEF WorthOf, Worth
    <3>3. IsFiniteSet(S) /\ new \notin S
      BY <1>2, <1>4, <2>2, WorthTypes, FS_Subset
    <3>4. g[new] = d /\ \A i \in S \cup {new} : g[i] \in Nat
      <4>1. made'[new].bytes = call[v].bytes
        BY <1>2
      <4>2. \A i \in S \cup {new} : i \in DOMAIN made'
        BY <1>2, <2>2
      <4> HIDE DEF S
      <4> QED
        BY <1>2, <3>2, <4>1, <4>2 DEF Worth
    <3> HIDE DEF S, d
    <3>5. SumFunctionOnSet(g, S \cup {new}) = g[new] + SumFunctionOnSet(g, S)
      BY <3>3, <3>4, SumWith
    <3> QED
      BY <3>1, <3>4, <3>5
  <2>5. before(S) <= sum /\ sum \in Nat
    <3>1. Scope(c, v) \in SUBSET Validators /\ since \in Int
      BY <1>4, <1>5, CapsConstants
    <3> QED
      BY <1>5, <3>1, KnownIsSummed
  <2>6. sum + d <= c.cap
    <3>1. Cost(c, call[v].bytes) = d
      BY DEF Cost, Worth
    <3> QED
      BY <1>3, <3>1 DEF WithinCaps
  <2>7. now(S) <= before(S) /\ now(S) \in Nat /\ before(S) \in Nat
    BY <1>7, <2>2
  <2>8. SumFunctionOnSet(WorthOf(c.what)', Counted(c, w)') = now(S \cup {new})
    BY <2>3
  <2> HIDE DEF now, before, sum, d, S
  <2>9. now(S \cup {new}) <= c.cap
    BY <1>5, <2>4, <2>5, <2>6, <2>7
  <2> QED
    BY <2>8, <2>9
<1> QED
  BY <1>8, <1>9

LEMMA ReserveCaps ==
  ASSUME BudgetInv, BudgetInv', CapsInv, NEW v \in Validators, Reserve(v)
  PROVE  CapsInv'
<1>1. PICK new : new = Len(made) + 1
  OBVIOUS
<1>2. /\ DOMAIN made' = DOMAIN made \cup {new} /\ new \notin DOMAIN made
      /\ \A i \in DOMAIN made : made'[i] = made[i]
      /\ made'[new] = [addr |-> v, at |-> clock, bytes |-> call[v].bytes, sent |-> FALSE, lost |-> "no"]
      /\ \A w \in Validators : w # v => call'[w] = call[w]
      /\ ~OnCall(v) /\ OnCall(v)' /\ call'[v].id = new /\ call'[v].step = "admitted" /\ call'[v].bytes = call[v].bytes
      /\ \A w \in Validators : OnCall(w) => OnCall(w)' /\ call[w].id \in DOMAIN made /\ Reservation(w)' = Reservation(w)
      /\ \A w \in Validators : OnCall(w)' => OnCall(w) \/ w = v
      /\ \A i \in DOMAIN made : InCall(i)' <=> InCall(i)
      /\ NoMore
  BY <1>1, Reserved
<1>3. /\ UNCHANGED <<clock, events, cooldownUntil, saving, file>>
      /\ pending' = pending \cup {[addr |-> v, at |-> clock, bytes |-> call[v].bytes]}
  BY DEF Reserve
<1>4. CallsInv /\ InstantsInv /\ LedgerInv /\ CooldownInv /\ BudgetTypeInv /\ BudgetTypeInv'
  BY DEF CapsInv, BudgetInv
<1>5. CallsInv'
  <2>1. Reservation(v)' = [addr |-> v, at |-> clock, bytes |-> call[v].bytes]
    BY <1>2 DEF Reservation
  <2>2. {Reservation(w) : w \in {u \in Validators : OnCall(u)}}' =
          {Reservation(w) : w \in {u \in Validators : OnCall(u)}} \cup {Reservation(v)'}
    <3>1. {u \in Validators : OnCall(u)}' = {u \in Validators : OnCall(u)} \cup {v}
      BY <1>2
    <3>2. {Reservation(w) : w \in {u \in Validators : OnCall(u)}}' = {Reservation(w)' : w \in {u \in Validators : OnCall(u)} \cup {v}}
      BY <3>1
    <3>3. \A w \in {u \in Validators : OnCall(u)} : Reservation(w)' = Reservation(w)
      BY <1>2
    <3> QED
      BY <3>2, <3>3
  <2>3. pending' = {Reservation(w) : w \in {u \in Validators : OnCall(u)}}'
    BY <1>3, <1>4, <2>1, <2>2 DEF CallsInv
  <2>4. ASSUME NEW w \in Validators, OnCall(w)'
        PROVE  /\ made'[call'[w].id].addr = w /\ made'[call'[w].id].lost = "no" /\ made'[call'[w].id].bytes = call'[w].bytes
               /\ made'[call'[w].id].sent <=> call'[w].step = "running"
    <3>1. CASE w = v
      BY <1>2, <3>1
    <3>2. CASE w # v
      <4>1. OnCall(w) /\ call'[w] = call[w] /\ made'[call[w].id] = made[call[w].id]
        BY <1>2, <2>4, <3>2
      <4> QED
        BY <1>4, <4>1 DEF CallsInv
    <3> QED
      BY <3>1, <3>2
  <2> QED
    BY <2>3, <2>4 DEF CallsInv
<1>6. InstantsInv'
  BY <1>2, <1>3, <1>4 DEF InstantsInv, Times
<1>7. LedgerInv'
  <2>1. ASSUME NEW w \in Validators, NEW what \in {"n", "bytes"}, NEW since \in Int
        PROVE  SumFunctionOnSet(WorthOf(what)', OverSince(w, since)') <= Held(events'[w], what, since)
    <3>1. OverSince(w, since)' = OverSince(w, since) /\ OverSince(w, since) \in SUBSET DOMAIN made
      BY <1>2 DEF OverSince
    <3>2. \A i \in OverSince(w, since) : i \in DOMAIN made' /\ made'[i].bytes <= made[i].bytes
      BY <1>2, <3>1 DEF NoMore
    <3> DEFINE now == SumFunctionOnSet(WorthOf(what)', OverSince(w, since))
               before == SumFunctionOnSet(WorthOf(what), OverSince(w, since))
               held == Held(events[w], what, since)
    <3>3. now <= before /\ now \in Nat /\ before \in Nat
      BY <1>4, <3>1, <3>2, WorthLess
    <3>4. before <= held /\ held \in Nat
      BY <1>4, HeldTypes DEF LedgerInv
    <3> HIDE DEF now, before, held
    <3>5. now <= held
      BY <3>3, <3>4
    <3> QED
      BY <1>3, <3>1, <3>5 DEF now, held
  <2> QED
    BY <1>3, <1>4, <2>1 DEF LedgerInv, Accounts, Held, Times
<1>8. CooldownInv'
  BY <1>2, <1>3, <1>4 DEF CooldownInv
<1>9. AdmittedWithinCaps'
  BY ReserveWithinCaps
<1>10. \A f : KnowsItsRequests(f) /\ AccountsFor(f) => AccountsFor(f)'
  BY <1>2, <1>4, FileStillAccounts
<1>11. AccountsFor(file)' /\ AccountsFor(saving)'
  BY <1>3, <1>10, FilesStep
<1> QED
  BY <1>5, <1>6, <1>7, <1>8, <1>9, <1>11 DEF CapsInv

-----------------------------------------------------------------------------
(* A restart, and the start. *)

LEMMA RestartCaps ==
  ASSUME BudgetInv, BudgetInv', CapsInv, Restart
  PROVE  CapsInv'
<1>1. /\ clock' = clock /\ saving' = NotSaving /\ pending' = {} /\ call' = [v \in Validators |-> Idle]
  BY DEF Restart
<1>2. PICK f \in FilesLeft, readable \in BOOLEAN :
        /\ readable => f # NoFile
        /\ Restore(f, readable) /\ made' = Remembered(f, readable)
        /\ file' \in IF readable THEN {f} ELSE {f, NoFile}
  BY DEF Restart
<1>3. KnowsItsRequests(f) /\ AccountsFor(f)
  BY <1>2, SnapshotKnows, SnapshotAccounts DEF FilesLeft, BudgetInv, FilesInv, CapsInv
<1>4. /\ events' = [v \in Validators |-> IF readable THEN f.minutes[v] ELSE NoEvents]
      /\ cooldownUntil' = IF readable THEN Never ELSE clock + UnknownCooldown
  BY <1>2 DEF Restore
<1>5. BudgetTypeInv /\ BudgetTypeInv' /\ CallsInv /\ InstantsInv /\ LedgerInv /\ AdmittedWithinCaps
  BY DEF BudgetInv, CapsInv
<1>6. /\ clock \in Nat /\ UnknownCooldown \in Nat
      /\ \A i \in DOMAIN made : /\ made[i] \in Request /\ made[i].addr \in Validators /\ made[i].at \in Nat
                                /\ made[i].bytes \in Nat /\ made[i].at <= clock
  BY <1>5, RequestTypes, CapsConstants DEF Request, BudgetTypeInv, BudgetInv, RequestsInv
<1>7. /\ DOMAIN made' = DOMAIN made
      /\ \A i \in DOMAIN made :
           /\ made'[i].addr = made[i].addr /\ made'[i].at = made[i].at /\ made'[i].bytes = made[i].bytes
           /\ made'[i].sent = made[i].sent
           /\ made'[i].lost = IF readable /\ i \in f.covers THEN "no"
                              ELSE IF readable \/ made[i].lost = "unsaved" THEN "unsaved" ELSE "unread"
  <2> DEFINE then(i) == IF readable /\ i \in f.covers THEN "no"
                        ELSE IF readable \/ made[i].lost = "unsaved" THEN "unsaved" ELSE "unread"
             e(i) == [made[i] EXCEPT !.lost = then(i)]
  <2>1. made' = [i \in DOMAIN made |-> e(i)]
    BY <1>2 DEF Remembered
  <2>2. \A i \in DOMAIN made : then(i) \in {"no", "unsaved", "unread"}
    OBVIOUS
  <2> HIDE DEF then
  <2>3. \A i \in DOMAIN made : /\ e(i).addr = made[i].addr /\ e(i).at = made[i].at /\ e(i).bytes = made[i].bytes
                               /\ e(i).sent = made[i].sent /\ e(i).lost = then(i)
    BY <1>6, <2>2 DEF Request
  <2> HIDE DEF e
  <2>4. DOMAIN made' = DOMAIN made /\ \A i \in DOMAIN made : made'[i] = e(i)
    BY <2>1
  <2> QED
    BY <2>3, <2>4 DEF then
<1>8. \A v \in Validators : ~OnCall(v)'
  BY <1>1 DEF OnCall, Idle
<1>9. \A i \in DOMAIN made : ~InCall(i)' /\ (Live(i)' => Live(i)) /\ (Live(i)' <=> made[i].sent)
  BY <1>6, <1>7, <1>8 DEF InCall, Live
<1>10. NoMore
  BY <1>1, <1>6, <1>7, <1>9 DEF NoMore
<1>11. CallsInv'
  <2>1. {Reservation(v) : v \in {w \in Validators : OnCall(w)}}' = {}
    BY <1>8
  <2> QED
    BY <1>1, <1>8, <2>1 DEF CallsInv
<1>12. InstantsInv'
  BY <1>1, <1>5, <1>7 DEF InstantsInv, Times
<1>13. CooldownInv'
  BY <1>4, <1>6, <1>7 DEF CooldownInv
<1>14. AccountsFor(f)'
  BY <1>3, <1>5, <1>10, FileStillAccounts
<1>15. AccountsFor(file)' /\ AccountsFor(saving)'
  <2>1. (file' = f \/ file' = NoFile) /\ saving' = NoFile
    BY <1>1, <1>2 DEF NoFile, NotSaving
  <2> QED
    BY <1>14, <2>1 DEF AccountsFor
<1>16. CASE readable
  <2>1. /\ f # NoFile /\ events' = [v \in Validators |-> f.minutes[v]] /\ f.minutes \in Accounts
        /\ \A i \in DOMAIN made : made'[i].lost = "no" <=> i \in f.covers
        /\ \A i \in DOMAIN made : made'[i].lost # "unread"
        /\ f.covers \in SUBSET DOMAIN made
    BY <1>2, <1>3, <1>4, <1>7, <1>16 DEF AccountsFor, KnowsItsRequests
  <2>2. events' = f.minutes
    <3>1. f.minutes = [v \in Validators |-> f.minutes[v]]
      BY <2>1 DEF Accounts
    <3> QED
      BY <2>1, <3>1
  <2>3. \A v \in Validators, since \in Int : OverSince(v, since)' = CoveredBy(f, {v}, since)'
    BY <1>7, <1>9, <2>1 DEF OverSince, CoveredBy
  <2>4. LedgerInv'
    <3>1. events' \in Accounts'
      BY <2>1, <2>2 DEF Accounts, Times
    <3>2. ASSUME NEW v \in Validators, NEW what \in {"n", "bytes"}, NEW since \in Int
          PROVE  SumFunctionOnSet(WorthOf(what)', OverSince(v, since)') <= Held(events'[v], what, since)
      <4>1. SumFunctionOnSet(WorthOf(what)', CoveredBy(f, {v}, since)') <= Held(f.minutes[v], what, since)
        BY <1>14, <2>1 DEF AccountsFor, Held, Times
      <4> QED
        BY <2>2, <2>3, <4>1
    <3> QED
      BY <3>1, <3>2 DEF LedgerInv, Held, Times
  <2>5. AdmittedWithinCaps'
    <3> SUFFICES ASSUME NEW c \in Caps, NEW v \in Validators
                 PROVE  SumFunctionOnSet(WorthOf(c.what)', Counted(c, v)') <= c.cap
      BY DEF AdmittedWithinCaps
    <3>1. Counted(c, v)' = CoveredBy(f, Scope(c, v), clock - c.window)'
      BY <1>7, <1>9, <2>1 DEF Counted, CoveredBy, Answerable, Scope
    <3>2. SumFunctionOnSet(WorthOf(c.what)', CoveredBy(f, Scope(c, v), clock - c.window)') <= c.cap
      BY <1>14, <2>1 DEF AccountsFor
    <3> QED
      BY <3>1, <3>2
  <2> QED
    BY <1>11, <1>12, <1>13, <1>15, <2>4, <2>5 DEF CapsInv
<1>17. CASE ~readable
  <2>1. /\ events' = [v \in Validators |-> NoEvents]
        /\ \A i \in DOMAIN made : made'[i].lost # "no"
        /\ \A i \in DOMAIN made : made'[i].lost = made[i].lost \/ (made[i].lost = "no" /\ made'[i].lost = "unread")
    BY <1>4, <1>6, <1>7, <1>17 DEF Request
  <2>2. events' \in Accounts
    BY <2>1 DEF Accounts, NoEvents
  <2>3. LedgerInv'
    <3>1. ASSUME NEW v \in Validators, NEW what \in {"n", "bytes"}, NEW since \in Int
          PROVE  SumFunctionOnSet(WorthOf(what)', OverSince(v, since)') <= Held(events'[v], what, since)
      <4>1. OverSince(v, since)' = {}
        BY <1>7, <2>1 DEF OverSince
      <4>2. PICK g : g = WorthOf(what)'
        OBVIOUS
      <4>3. SumFunctionOnSet(g, {}) = 0
        BY SumEmpty
      <4>4. Held(events'[v], what, since) \in Nat
        <5>1. PICK a : a = events'
          OBVIOUS
        <5> QED
          BY <2>2, <5>1, HeldTypes
      <4> QED
        BY <4>1, <4>2, <4>3, <4>4
    <3> QED
      BY <2>2, <3>1 DEF LedgerInv, Accounts, Held, Times
  <2>4. AdmittedWithinCaps'
    BY <1>5, <1>7, <1>10, <2>1, CapsStillKept
  <2> QED
    BY <1>11, <1>12, <1>13, <1>15, <2>3, <2>4 DEF CapsInv
<1> QED
  BY <1>16, <1>17

LEMMA EmptySums ==
  ASSUME NEW a \in Accounts, NEW v \in Validators, NEW what \in {"n", "bytes"}, NEW since \in Int, NEW f
  PROVE  SumFunctionOnSet(f, {}) = 0 /\ SumFunctionOnSet(f, {}) <= Held(a[v], what, since)
<1>1. SumFunctionOnSet(f, {}) = 0 /\ Held(a[v], what, since) \in Nat
  BY SumEmpty, HeldTypes
<1> QED
  BY <1>1

LEMMA InitCaps == Init => CapsInv
<1> SUFFICES ASSUME Init PROVE CapsInv
  OBVIOUS
<1>1. /\ made = <<>> /\ pending = {} /\ events = [v \in Validators |-> NoEvents] /\ clock = StartAt
      /\ saving = NotSaving /\ (file = NoFile \/ file = OldFile) /\ call = [v \in Validators |-> Idle]
  BY DEF Init
<1>2. DOMAIN made = {}
  <2>1. <<>> \in Seq({}) /\ Len(<<>>) = 0
    BY EmptySeq
  <2> QED
    BY <1>1, <2>1, LenProperties
<1>3. \A v \in Validators : ~OnCall(v)
  BY <1>1 DEF OnCall, Idle
<1>4. [v \in Validators |-> NoEvents] \in Accounts
  BY DEF Accounts, NoEvents
<1>5. CallsInv
  <2>1. {Reservation(v) : v \in {w \in Validators : OnCall(w)}} = {}
    BY <1>3
  <2> QED
    BY <1>1, <1>3, <2>1 DEF CallsInv
<1>6. InstantsInv
  BY <1>1, <1>2, CapsConstants DEF InstantsInv
<1>7. LedgerInv
  <2>1. \A v, since : OverSince(v, since) = {}
    BY <1>2 DEF OverSince
  <2>2. ASSUME NEW v \in Validators, NEW what \in {"n", "bytes"}, NEW since \in Int
        PROVE  SumFunctionOnSet(WorthOf(what), OverSince(v, since)) <= Held(events[v], what, since)
    <3>1. PICK f, a : f = WorthOf(what) /\ a = events
      OBVIOUS
    <3>2. SumFunctionOnSet(f, {}) <= Held(a[v], what, since)
      BY <1>1, <1>4, <3>1, EmptySums
    <3> QED
      BY <2>1, <3>1, <3>2
  <2> QED
    BY <1>1, <1>4, <2>2 DEF LedgerInv
<1>8. CooldownInv
  BY <1>2 DEF CooldownInv
<1>9. AccountsFor(OldFile)
  <2>1. OldFile.covers = {} /\ OldFile.minutes = [v \in Validators |-> NoEvents]
    BY DEF OldFile
  <2>2. \A vals, since : CoveredBy(OldFile, vals, since) = {}
    BY <2>1 DEF CoveredBy
  <2>3. ASSUME NEW v \in Validators, NEW what \in {"n", "bytes"}, NEW since \in Int
        PROVE  SumFunctionOnSet(WorthOf(what), CoveredBy(OldFile, {v}, since)) <= Held(OldFile.minutes[v], what, since)
    <3>1. PICK f, a : f = WorthOf(what) /\ a = OldFile.minutes
      OBVIOUS
    <3>2. SumFunctionOnSet(f, {}) <= Held(a[v], what, since)
      BY <1>4, <2>1, <3>1, EmptySums
    <3> QED
      BY <2>2, <3>1, <3>2
  <2>4. ASSUME NEW c \in Caps, NEW v \in Validators
        PROVE  SumFunctionOnSet(WorthOf(c.what), CoveredBy(OldFile, Scope(c, v), clock - c.window)) <= c.cap
    <3>1. PICK f : f = WorthOf(c.what)
      OBVIOUS
    <3>2. SumFunctionOnSet(f, {}) = 0 /\ c.cap \in Nat
      BY SumEmpty, CapsConstants
    <3> QED
      BY <2>2, <3>1, <3>2
  <2> QED
    BY <1>4, <2>1, <2>3, <2>4 DEF AccountsFor
<1>10. AccountsFor(file) /\ AccountsFor(saving)
  BY <1>1, <1>9 DEF AccountsFor, NoFile, NotSaving
<1>11. AdmittedWithinCaps
  <2> SUFFICES ASSUME NEW c \in Caps, NEW v \in Validators
               PROVE  SumFunctionOnSet(WorthOf(c.what), Counted(c, v)) <= c.cap
    BY DEF AdmittedWithinCaps
  <2>1. Counted(c, v) = {}
    BY <1>2 DEF Counted
  <2>2. PICK f : f = WorthOf(c.what)
    OBVIOUS
  <2>3. SumFunctionOnSet(f, {}) = 0 /\ c.cap \in Nat
    BY SumEmpty, CapsConstants
  <2> QED
    BY <2>1, <2>2, <2>3
<1> QED
  BY <1>5, <1>6, <1>7, <1>8, <1>10, <1>11 DEF CapsInv

LEMMA NextCaps == BudgetInv /\ BudgetInv' /\ CapsInv /\ [Next]_vars => CapsInv'
<1> SUFFICES ASSUME BudgetInv, BudgetInv', CapsInv, [Next]_vars PROVE CapsInv'
  OBVIOUS
<1>1. CASE Tick \/ FlushBegin \/ FlushSaved \/ FlushFailed \/ \E v \in Validators : Ask(v) \/ Deny(v)
  BY <1>1, QuietCaps
<1>2. ASSUME NEW v \in Validators, Reserve(v) \/ Start(v) \/ AfterProbe(v) \/ Release(v)
      PROVE  CapsInv'
  BY <1>2, ReserveCaps, StartCaps, AfterProbeCaps, ReleaseCaps
<1>3. CASE Restart
  BY <1>3, RestartCaps
<1>4. CASE UNCHANGED vars
  <2>1. UNCHANGED <<clock, events, pending, cooldownUntil, saving, file, call, made>>
    BY <1>4 DEF vars, policyVars
  <2>2. clock' \in Times /\ clock <= clock' /\ \A v \in Validators : (OnCall(v)' <=> OnCall(v)) /\ (OnCall(v) => call'[v] = call[v])
    BY <2>1, TimesFrom DEF CapsInv, InstantsInv, OnCall
  <2>3. /\ CallsInv' /\ InstantsInv' /\ LedgerInv' /\ CooldownInv' /\ AdmittedWithinCaps'
        /\ \A f : KnowsItsRequests(f) /\ AccountsFor(f) => AccountsFor(f)'
    BY <2>1, <2>2, QuietStep DEF BudgetInv
  <2>4. AccountsFor(file)' /\ AccountsFor(saving)'
    BY <2>1, <2>3, FilesStep
  <2> QED
    BY <2>3, <2>4 DEF CapsInv
<1> QED
  BY <1>1, <1>2, <1>3, <1>4 DEF Next

LEMMA CapsFromInv ==
  ASSUME BudgetInv, CapsInv
  PROVE  CapsKept
<1> SUFFICES ASSUME NEW c \in Caps, NEW v \in Validators
             PROVE  SumFunction([i \in {j \in Sent : /\ made[j].addr \in Scope(c, v)
                                                     /\ made[j].at >= clock - c.window
                                                     /\ Answerable(j, c.window)} |-> Cost(c, made[i].bytes)]) <= c.cap
  BY DEF CapsKept
<1> DEFINE S == {j \in Sent : /\ made[j].addr \in Scope(c, v) /\ made[j].at >= clock - c.window /\ Answerable(j, c.window)}
           g == [i \in S |-> Cost(c, made[i].bytes)]
<1>1. PICK f : f = WorthOf(c.what)
  OBVIOUS
<1>2. S \in SUBSET Counted(c, v) /\ Counted(c, v) \in SUBSET DOMAIN made
  BY DEF Sent, Counted, Live
<1>3. BudgetTypeInv
  BY DEF BudgetInv
<1>4. IsFiniteSet(S) /\ \A i \in DOMAIN made : f[i] \in Nat /\ f[i] = Worth(c.what, made[i].bytes)
  BY <1>1, <1>2, <1>3, WorthTypes, FS_Subset
<1>5. DOMAIN g = S /\ \A i \in S : f[i] \in Nat /\ g[i] = f[i]
  BY <1>2, <1>4 DEF Cost, Worth
<1>6. SumFunctionOnSet(f, S) <= SumFunctionOnSet(f, Counted(c, v)) /\ SumFunctionOnSet(f, S) \in Nat /\ SumFunctionOnSet(f, Counted(c, v)) \in Nat
  BY <1>1, <1>2, <1>3, WorthFewer
<1>7. SumFunctionOnSet(f, Counted(c, v)) <= c.cap /\ c.cap \in Nat
  BY <1>1, CapsConstants DEF CapsInv, AdmittedWithinCaps
<1> HIDE DEF g, S
<1>8. SumFunction(g) = SumFunctionOnSet(f, S)
  BY <1>4, <1>5, SumSame DEF SumFunction
<1> DEFINE few == SumFunctionOnSet(f, S)
           many == SumFunctionOnSet(f, Counted(c, v))
<1>9. few <= many /\ many <= c.cap /\ few \in Nat /\ many \in Nat /\ c.cap \in Nat
  BY <1>6, <1>7
<1> HIDE DEF few, many
<1>10. few <= c.cap
  BY <1>9
<1> QED
  BY <1>8, <1>10 DEF few, g, S

(* What a process accounts for, what a file accounts for and what is       *)
(* admitted cover one another in every state that asks, probes, saves and  *)
(* restarts can reach (policy.go, budgetstate.go).                         *)
THEOREM CapsInvariant == Spec => []CapsInv
<1>1. BudgetInv /\ CapsInv /\ [Next]_vars /\ BudgetInv' => CapsInv'
  BY NextCaps
<1> QED
  BY <1>1, InitCaps, BudgetInvariant, PTL DEF Spec

(* Whatever is in flight, saved, lost or restarted, the requests that went *)
(* out in a window are within every cap, in number and in bytes, for one   *)
(* validator and for all (policy.go:776-793, budgetstate.go:16-51).        *)
THEOREM CapsAlwaysKept == Spec => []CapsKept
<1>1. BudgetInv /\ CapsInv => CapsKept
  BY CapsFromInv
<1> QED
  BY <1>1, BudgetInvariant, CapsInvariant, PTL

-----------------------------------------------------------------------------
(* The sweep: its inductive invariant. *)

AllPoints == Pubs \X Points
Steps ==
  {"none", "queued", "slot", "working", "asking", "probing", "retryqueued", "retryslot", "reworking", "reasking",
   "reprobing", "done"}
Jobs == [due : SUBSET AllPoints, missed : SUBSET (AllPoints \X Owing), dropped : SUBSET Pubs, finished : SUBSET Pubs]
Retries == [slot : Slots, at : Nat]

SweepTypeInv ==
  /\ time \in Nat /\ liveSince \in Nat /\ published \subseteq Pubs
  /\ copies \in [Slots -> Nat] /\ archived \subseteq Slots
  /\ stage \in {"down", "idle", "recording", "sweep"}
  /\ seen \subseteq Slots /\ complete \subseteq AllPoints
  /\ todo \in Jobs
  /\ step \in [Slots -> Steps]
  /\ retries \in Seq(Retries)

(* The restart index knows every row of a publication. *)
Whole(pub) == \A s \in Slots : s[1] = pub /\ copies[s] > 0 => s \in seen

(* What has a row, and what of it is out of the live file's reach.         *)
RowsInv ==
  /\ OneRowPerSlot /\ SampledOutWhole /\ CompleteMeansRecorded
  /\ \A s \in seen : copies[s] > 0
  /\ \A s \in archived : copies[s] > 0 /\ ArchivedFrom(s[1])

(* The index is short only of what the plan will not look at again.        *)
IndexInv ==
  stage # "down" => \A pub \in Pubs : Whole(pub) \/ pub \in forgotten \/ ArchivedFrom(pub)

(* What is in the plan is of publications the index knows whole, and those *)
(* that were drawn out have no row and no other place in it; of a missed   *)
(* point the targets that are left are the ones without a row.             *)
ToRecord(pub) == (\E x \in todo.due : x[1] = pub) \/ (\E m \in todo.missed : m[1][1] = pub)

PlanInv ==
  /\ stage # "recording" => todo = Nothing
  /\ \A pub \in Pubs :
       ToRecord(pub) \/ pub \in todo.dropped => Whole(pub) /\ pub \notin todo.finished /\ pub \notin decisions
  /\ \A pub \in todo.dropped : ~ToRecord(pub) /\ \A s \in Slots : s[1] = pub => copies[s] = 0
  /\ \A m \in todo.missed : \A v \in Owing :
       <<m[1], v>> \in todo.missed \/ copies[<<m[1][1], m[1][2], v>>] > 0

(* So is what the sweep works on; a target it leaves aside has its row, and *)
(* so has one it is done with.                                             *)
WorkInv ==
  /\ stage # "sweep" => \A s \in Slots : step[s] = "none"
  /\ \A s \in Slots : step[s] # "none" => Whole(s[1]) /\ s[1] \notin decisions
  /\ \A s \in Slots : step[s] = "done" => copies[s] > 0
  /\ \A s, q \in Slots : PointOf(s) = PointOf(q) /\ step[s] # "none" /\ step[q] = "none" => copies[q] > 0

(* A slot in the retry queue is there once. *)
RetryInv ==
  /\ \A i \in DOMAIN retries : step[retries[i].slot] = "retryqueued"
  /\ \A i, j \in DOMAIN retries : retries[i].slot = retries[j].slot => i = j

SweepInv == SweepTypeInv /\ RowsInv /\ IndexInv /\ PlanInv /\ WorkInv /\ RetryInv


-----------------------------------------------------------------------------
(* Lemmas on the schedule and the record. *)

LEMMA SlotParts ==
  ASSUME NEW s \in Slots
  PROVE  /\ s[1] \in Pubs /\ s[2] \in Points /\ s[3] \in Owing
         /\ s = <<s[1], s[2], s[3]>> /\ PointOf(s) \in AllPoints
BY DEF Slots, PointOf, AllPoints

(* Every set of natural numbers has a least, as < is well-founded. *)
LEMMA MinIs ==
  ASSUME NEW S \in SUBSET Nat, S # {}
  PROVE  Min(S) \in S /\ \A y \in S : Min(S) <= y
<1> DEFINE Less == {xy \in Nat \X Nat : xy[1] < xy[2]}
<1>1. IsWellFoundedOn(Less, Nat)
  BY NatLessThanWellFounded DEF OpToRel
<1>2. PICK x \in S : \A y \in S : <<y, x>> \notin Less
  <2> HIDE DEF Less
  <2> QED
    BY <1>1, WFMin
<1>3. ASSUME NEW y \in S
      PROVE  x <= y
  <2>1. <<y, x>> \in Nat \X Nat /\ ~(y < x)
    BY <1>2
  <2> QED
    BY <2>1
<1> QED
  BY <1>3 DEF Min

LEMMA EarliestIs ==
  ASSUME NEW pub \in Pubs
  PROVE  Earliest(pub) \in Nat /\ \A pt \in Points : Earliest(pub) <= ScheduledAt[pub][pt]
<1> DEFINE S == {Settled[pub]} \cup {ScheduledAt[pub][pt] : pt \in Points}
<1>1. S \in SUBSET Nat /\ S # {}
  BY SweepAssumption
<1>2. Earliest(pub) = Min(S)
  BY DEF Earliest
<1>3. \A pt \in Points : ScheduledAt[pub][pt] \in S
  OBVIOUS
<1> HIDE DEF S
<1>4. Min(S) \in S /\ \A y \in S : Min(S) <= y
  BY <1>1, MinIs
<1> QED
  BY <1>1, <1>2, <1>3, <1>4

(* What a sweep or a plan does leaves the parts it does not touch as they   *)
(* were.                                                                   *)
LEMMA RowsKept ==
  ASSUME RowsInv, UNCHANGED <<copies, archived, liveSince, decisions, seen, complete>>
  PROVE  RowsInv'
BY DEF RowsInv, OneRowPerSlot, SampledOutWhole, CompleteMeansRecorded, ArchivedFrom

LEMMA IndexKept ==
  ASSUME IndexInv, UNCHANGED <<copies, liveSince, seen, forgotten>>, stage' # "down" => stage # "down"
  PROVE  IndexInv'
BY DEF IndexInv, Whole, ArchivedFrom

LEMMA PlanKept ==
  ASSUME PlanInv, UNCHANGED <<copies, decisions, seen, todo, stage>>
  PROVE  PlanInv'
BY DEF PlanInv, Whole, ToRecord

LEMMA WorkKept ==
  ASSUME WorkInv, UNCHANGED <<copies, decisions, seen, step, stage>>
  PROVE  WorkInv'
BY DEF WorkInv, Whole

LEMMA RetryKept ==
  ASSUME RetryInv, UNCHANGED <<step, retries>>
  PROVE  RetryInv'
BY DEF RetryInv

LEMMA NothingPlanned ==
  ASSUME todo' = Nothing
  PROVE  PlanInv'
BY DEF PlanInv, Nothing, ToRecord

LEMMA NobodyWorks ==
  ASSUME step' = [s \in Slots |-> "none"]
  PROVE  WorkInv'
BY DEF WorkInv

(* A row is appended where the index is whole, and so never a second time. *)
LEMMA Appended ==
  ASSUME SweepTypeInv, RowsInv, NEW s \in Slots, Whole(s[1]), NEW row, Append1(s, row)
  PROVE  /\ copies' \in [Slots -> Nat] /\ seen' \subseteq Slots
         /\ OneRowPerSlot'
         /\ copies'[s] > 0
         /\ \A q \in Slots : copies[q] > 0 => copies'[q] > 0
         /\ \A q \in Slots : q # s => copies'[q] = copies[q]
         /\ \A q \in seen' : copies'[q] > 0
         /\ \A pub \in Pubs : Whole(pub) => Whole(pub)'
<1>1. CASE s \in seen
  <2>1. UNCHANGED <<copies, seen>>
    BY <1>1 DEF Append1
  <2> QED
    BY <1>1, <2>1 DEF SweepTypeInv, RowsInv, OneRowPerSlot, Whole
<1>2. CASE s \notin seen
  <2>1. copies[s] = 0
    BY <1>2 DEF Whole, SweepTypeInv
  <2>2. copies' = [copies EXCEPT ![s] = copies[s] + 1] /\ seen' = seen \cup {s}
    BY <1>2 DEF Append1
  <2>3. copies' \in [Slots -> Nat] /\ copies'[s] = 1 /\ \A q \in Slots : q # s => copies'[q] = copies[q]
    BY <2>1, <2>2 DEF SweepTypeInv
  <2>4. seen' \subseteq Slots /\ \A q \in seen' : copies'[q] > 0
    BY <2>2, <2>3 DEF SweepTypeInv, RowsInv
  <2>5. OneRowPerSlot'
    BY <2>3 DEF RowsInv, OneRowPerSlot
  <2>6. \A pub \in Pubs : Whole(pub) => Whole(pub)'
    BY <2>2, <2>3 DEF Whole
  <2>7. \A q \in Slots : copies[q] > 0 => copies'[q] > 0
    BY <2>3
  <2> QED
    BY <2>3, <2>4, <2>5, <2>6, <2>7
<1> QED
  BY <1>1, <1>2

(* Such a row spoils nothing of the record.                                *)
LEMMA RowsGrow ==
  ASSUME SweepTypeInv, RowsInv, NEW s \in Slots, Whole(s[1]), s[1] \notin decisions, NEW row, Append1(s, row),
         UNCHANGED <<archived, liveSince, decisions>>,
         \A x \in complete' : x \in complete \/ \A v \in Owing : copies'[<<x[1], x[2], v>>] > 0,
         complete \subseteq AllPoints
  PROVE  RowsInv'
<1>1. /\ OneRowPerSlot'
      /\ \A q \in Slots : copies[q] > 0 => copies'[q] > 0
      /\ \A q \in Slots : q # s => copies'[q] = copies[q]
      /\ \A q \in seen' : copies'[q] > 0
  BY Appended
<1>2. SampledOutWhole'
  <2> SUFFICES ASSUME NEW pub \in decisions, NEW q \in Slots, q[1] = pub
               PROVE  copies'[q] = 0
    BY DEF SampledOutWhole
  <2>1. q # s /\ copies[q] = 0
    BY DEF RowsInv, SampledOutWhole
  <2> QED
    BY <1>1, <2>1
<1>3. CompleteMeansRecorded'
  <2> SUFFICES ASSUME NEW x \in complete, x[1] \notin decisions, NEW v \in Owing
               PROVE  copies'[<<x[1], x[2], v>>] > 0
    BY DEF CompleteMeansRecorded
  <2>1. <<x[1], x[2], v>> \in Slots
    BY DEF AllPoints, Slots
  <2>2. copies[<<x[1], x[2], v>>] > 0
    BY DEF RowsInv, CompleteMeansRecorded
  <2> QED
    BY <1>1, <2>1, <2>2
<1>4. \A q \in archived' : copies'[q] > 0 /\ ArchivedFrom(q[1])'
  BY <1>1 DEF RowsInv, ArchivedFrom, SweepTypeInv
<1> QED
  BY <1>1, <1>2, <1>3, <1>4 DEF RowsInv

LEMMA InitHolds == SweepInit => SweepInv
<1> SUFFICES ASSUME SweepInit
             PROVE  SweepInv
  OBVIOUS
<1>1. SweepTypeInv
  BY DEF SweepInit, SweepTypeInv, Nothing, Jobs, Steps
<1>2. RowsInv
  BY DEF SweepInit, RowsInv, OneRowPerSlot, SampledOutWhole, CompleteMeansRecorded
<1>3. IndexInv /\ PlanInv
  BY DEF SweepInit, IndexInv, PlanInv, Nothing, ToRecord
<1>4. WorkInv /\ RetryInv
  BY DEF SweepInit, WorkInv, RetryInv
<1> QED
  BY <1>1, <1>2, <1>3, <1>4 DEF SweepInv


-----------------------------------------------------------------------------
(* The scanner, the clock, the archive and the process. *)

LEMMA OutsideKeeps ==
  ASSUME SweepInv,
         TimePasses \/ Signal \/ (\E pub \in Pubs : Publish(pub))
  PROVE  SweepInv'
<1>1. UNCHANGED <<record, liveSince, stage, memory, todo, sweep>>
  BY DEF TimePasses, Signal, Publish
<1>2. UNCHANGED <<copies, archived, liveSince, decisions, seen, complete, forgotten, stage, todo, step, retries>>
  BY <1>1 DEF record, memory, sweep
<1>3. time' \in Nat /\ published' \subseteq Pubs
  BY DEF SweepInv, SweepTypeInv, TimePasses, Signal, Publish
<1>4. SweepTypeInv'
  BY <1>2, <1>3 DEF SweepInv, SweepTypeInv
<1>5. RowsInv' /\ IndexInv'
  BY <1>2, RowsKept, IndexKept DEF SweepInv
<1>6. PlanInv' /\ WorkInv' /\ RetryInv'
  BY <1>2, PlanKept, WorkKept, RetryKept DEF SweepInv
<1> QED
  BY <1>4, <1>5, <1>6 DEF SweepInv

(* What is moved is before the cutoff, and so is the start of its schedule. *)
LEMMA ArchiveKeeps ==
  ASSUME SweepInv, Archive
  PROVE  SweepInv'
<1>1. UNCHANGED <<time, published, copies, decisions, stage, forgotten, seen, complete, todo, step, retries>>
  BY DEF Archive, memory, sweep
<1>2. PICK cutoff \in 1 .. time :
        /\ cutoff > liveSince /\ liveSince' = cutoff
        /\ \E moved \in SUBSET {s \in Slots \ archived : copies[s] > 0 /\ ScheduledAt[s[1]][s[2]] < cutoff} :
             moved # {} /\ archived' = archived \cup moved
  BY DEF Archive
<1>3. PICK moved \in SUBSET {s \in Slots \ archived : copies[s] > 0 /\ ScheduledAt[s[1]][s[2]] < cutoff} :
        archived' = archived \cup moved
  BY <1>2
<1>4. cutoff \in Nat /\ time \in Nat /\ liveSince \in Nat /\ archived \subseteq Slots
  BY DEF SweepInv, SweepTypeInv
<1>5. SweepTypeInv'
  BY <1>1, <1>2, <1>3, <1>4 DEF SweepInv, SweepTypeInv
<1>6. \A pub \in Pubs : ArchivedFrom(pub) => ArchivedFrom(pub)'
  <2> SUFFICES ASSUME NEW pub \in Pubs, ArchivedFrom(pub)
               PROVE  ArchivedFrom(pub)'
    OBVIOUS
  <2>1. Earliest(pub) \in Nat /\ ArchiveSkew \in Nat
    BY EarliestIs, SweepAssumption
  <2> QED
    BY <1>2, <1>4, <2>1 DEF ArchivedFrom
<1>7. \A s \in archived' : copies'[s] > 0 /\ ArchivedFrom(s[1])'
  <2> SUFFICES ASSUME NEW s \in archived'
               PROVE  copies'[s] > 0 /\ ArchivedFrom(s[1])'
    OBVIOUS
  <2>1. s \in Slots /\ s[1] \in Pubs /\ s[2] \in Points
    BY <1>3, <1>4, SlotParts
  <2>2. CASE s \in archived
    BY <1>1, <1>6, <2>1, <2>2 DEF SweepInv, RowsInv
  <2>3. CASE s \notin archived
    <3>1. copies[s] > 0 /\ ScheduledAt[s[1]][s[2]] < cutoff
      BY <1>3, <2>3
    <3>2. Earliest(s[1]) \in Nat /\ Earliest(s[1]) <= ScheduledAt[s[1]][s[2]]
      BY <2>1, EarliestIs
    <3>3. ScheduledAt[s[1]][s[2]] \in Nat /\ ArchiveSkew \in Nat
      BY <2>1, SweepAssumption
    <3> QED
      BY <1>1, <1>2, <1>4, <3>1, <3>2, <3>3 DEF ArchivedFrom
  <2> QED
    BY <2>2, <2>3
<1>8. RowsInv'
  BY <1>1, <1>7 DEF SweepInv, RowsInv, OneRowPerSlot, SampledOutWhole, CompleteMeansRecorded
<1>9. IndexInv'
  BY <1>1, <1>6 DEF SweepInv, IndexInv, Whole
<1>10. PlanInv' /\ WorkInv' /\ RetryInv'
  BY <1>1, PlanKept, WorkKept, RetryKept DEF SweepInv
<1> QED
  BY <1>5, <1>8, <1>9, <1>10 DEF SweepInv

(* A restarted process knows the rows that are still in the live file.     *)
LEMMA OpenKeeps ==
  ASSUME SweepInv, Open
  PROVE  SweepInv'
<1>1. /\ stage = "down" /\ stage' = "idle"
      /\ UNCHANGED <<time, published, copies, archived, liveSince, decisions, todo, step, retries>>
      /\ seen' = {s \in Slots : copies[s] > 0 /\ s \notin archived} /\ complete' = {} /\ forgotten' = {}
  BY DEF Open, record, sweep
<1>2. SweepTypeInv'
  BY <1>1 DEF SweepInv, SweepTypeInv
<1>3. RowsInv'
  BY <1>1 DEF SweepInv, RowsInv, OneRowPerSlot, SampledOutWhole, CompleteMeansRecorded, ArchivedFrom
<1>4. IndexInv'
  <2> SUFFICES ASSUME NEW pub \in Pubs, ~ArchivedFrom(pub)'
               PROVE  Whole(pub)'
    BY DEF IndexInv
  <2>1. ~ArchivedFrom(pub)
    BY <1>1 DEF ArchivedFrom
  <2>2. \A s \in Slots : s[1] = pub => s \notin archived
    BY <2>1 DEF SweepInv, RowsInv
  <2> QED
    BY <1>1, <2>2 DEF Whole
<1>5. todo' = Nothing
  BY <1>1 DEF SweepInv, PlanInv
<1>6. PlanInv'
  BY <1>5, NothingPlanned
<1>7. WorkInv'
  BY <1>1 DEF SweepInv, WorkInv
<1>8. RetryInv'
  BY <1>1, RetryKept DEF SweepInv
<1> QED
  BY <1>2, <1>3, <1>4, <1>6, <1>7, <1>8 DEF SweepInv

LEMMA DownKeeps ==
  ASSUME SweepInv, Exit \/ Crash
  PROVE  SweepInv'
<1>1. Down /\ UNCHANGED <<time, published, copies, archived, liveSince, decisions>>
  BY DEF Exit, Crash, record
<1>2. /\ stage' = "down" /\ seen' = {} /\ complete' = {} /\ todo' = Nothing /\ retries' = <<>>
      /\ step' = [s \in Slots |-> "none"]
  BY <1>1 DEF Down
<1>3. SweepTypeInv'
  BY <1>1, <1>2 DEF SweepInv, SweepTypeInv, Nothing, Jobs, Steps
<1>4. RowsInv'
  BY <1>1, <1>2 DEF SweepInv, RowsInv, OneRowPerSlot, SampledOutWhole, CompleteMeansRecorded, ArchivedFrom
<1>5. IndexInv' /\ PlanInv' /\ WorkInv'
  BY <1>2, NothingPlanned, NobodyWorks DEF IndexInv
<1>6. RetryInv'
  BY <1>2 DEF RetryInv
<1> QED
  BY <1>3, <1>4, <1>5, <1>6 DEF SweepInv

-----------------------------------------------------------------------------
(* The plan and its record. *)

(* A publication that is asked for is one the index knows whole, and one    *)
(* that is drawn out has no row, for a schedule with a row has begun.      *)
LEMMA PlanKeeps ==
  ASSUME SweepInv, Plan
  PROVE  SweepInv'
<1> DEFINE feed == published \ forgotten
           asked == {pub \in feed : ~Finished(pub)}
<1>1. /\ stage = "idle" /\ stage' = "recording"
      /\ UNCHANGED <<time, published, copies, archived, liveSince, decisions, forgotten, seen, complete, step, retries>>
  BY DEF Plan, record, sweep
<1>2. PICK answer \in [asked -> UNION {Admissions(pub) : pub \in asked}] :
        /\ \A pub \in asked : answer[pub] \in Admissions(pub)
        /\ LET open == {x \in asked \X Points : answer[x[1]].in /\ x[2] \in Pending(x[1])}
           IN  todo' = [finished |-> feed \ asked,
                        dropped |-> {pub \in asked : ~answer[pub].in},
                        due |-> {x \in open : ScheduledAt[x[1]][x[2]] <= time /\ ~Elapsed(x)},
                        missed |-> {x \in open : Elapsed(x)} \X Owing]
  BY DEF Plan
<1> DEFINE open == {x \in asked \X Points : answer[x[1]].in /\ x[2] \in Pending(x[1])}
           late == {x \in open : Elapsed(x)}
<1>3. /\ todo'.finished = feed \ asked
      /\ todo'.dropped = {pub \in asked : ~answer[pub].in}
      /\ todo'.due \subseteq open
      /\ todo'.missed = late \X Owing
      /\ todo' = [finished |-> todo'.finished, dropped |-> todo'.dropped, due |-> todo'.due, missed |-> todo'.missed]
  BY <1>2
<1>4. feed \subseteq Pubs /\ asked \subseteq Pubs
  BY DEF SweepInv, SweepTypeInv
<1>5. \A pub \in asked : Whole(pub) /\ pub \notin decisions
  BY <1>1, <1>4 DEF SweepInv, IndexInv, Finished
<1>6. \A x \in open : x \in AllPoints /\ x[1] \in asked /\ answer[x[1]].in
  BY <1>4 DEF AllPoints
<1>7. todo' \in Jobs
  <2>1. /\ todo'.finished \in SUBSET Pubs /\ todo'.dropped \in SUBSET Pubs
        /\ todo'.due \in SUBSET AllPoints /\ todo'.missed \in SUBSET (AllPoints \X Owing)
    BY <1>3, <1>4, <1>6
  <2> QED
    BY <1>3, <2>1 DEF Jobs
<1>8. SweepTypeInv'
  BY <1>1, <1>7 DEF SweepInv, SweepTypeInv
<1>9. \A pub \in asked : ~answer[pub].in => \A s \in Slots : s[1] = pub => copies[s] = 0
  <2> SUFFICES ASSUME NEW pub \in asked, ~answer[pub].in, NEW s \in Slots, s[1] = pub
               PROVE  copies[s] = 0
    OBVIOUS
  <2>1. ~AlreadyStarted(pub)
    BY <1>2 DEF Admissions
  <2>2. s \notin seen
    BY <2>1, SlotParts DEF AlreadyStarted
  <2>3. copies[s] \in Nat
    BY DEF SweepInv, SweepTypeInv
  <2> QED
    BY <1>5, <2>2, <2>3 DEF Whole
<1> HIDE DEF feed, asked, open
<1>10. \A pub \in Pubs : ToRecord(pub)' => pub \in asked /\ answer[pub].in
  BY <1>3, <1>6 DEF ToRecord
<1>11. PlanInv'
  <2>1. (stage # "recording" => todo = Nothing)'
    BY <1>1
  <2>2. \A pub \in Pubs :
          (ToRecord(pub) \/ pub \in todo.dropped => Whole(pub) /\ pub \notin todo.finished /\ pub \notin decisions)'
    <3> SUFFICES ASSUME NEW pub \in Pubs, (ToRecord(pub) \/ pub \in todo.dropped)'
                 PROVE  (Whole(pub) /\ pub \notin todo.finished /\ pub \notin decisions)'
      OBVIOUS
    <3>1. pub \in asked
      BY <1>3, <1>10
    <3> QED
      BY <1>1, <1>3, <1>5, <3>1 DEF Whole
  <2>3. (\A pub \in todo.dropped : ~ToRecord(pub) /\ \A s \in Slots : s[1] = pub => copies[s] = 0)'
    BY <1>1, <1>3, <1>4, <1>9, <1>10
  <2>4. (\A m \in todo.missed : \A v \in Owing :
           <<m[1], v>> \in todo.missed \/ copies[<<m[1][1], m[1][2], v>>] > 0)'
    BY <1>3
  <2> QED
    BY <2>1, <2>2, <2>3, <2>4 DEF PlanInv
<1>12. RowsInv' /\ IndexInv'
  BY <1>1, RowsKept, IndexKept DEF SweepInv
<1>13. WorkInv' /\ RetryInv'
  BY <1>1, RetryKept DEF SweepInv, WorkInv
<1> QED
  BY <1>8, <1>11, <1>12, <1>13 DEF SweepInv

LEMMA RecordMissedKeeps ==
  ASSUME SweepInv, RecordMissed
  PROVE  SweepInv'
<1>1. /\ stage = "recording" /\ stage' = "recording"
      /\ UNCHANGED <<time, published, archived, liveSince, decisions, forgotten, step, retries>>
  BY DEF RecordMissed, sweep
<1>2. PICK x \in todo.missed :
        /\ Append1(<<x[1][1], x[1][2], x[2]>>, GapRow(<<x[1][1], x[1][2], x[2]>>))
        /\ todo' = [todo EXCEPT !.missed = todo.missed \ {x}]
        /\ complete' = IF \E y \in todo.missed \ {x} : y[1] = x[1] THEN complete ELSE complete \cup {x[1]}
  BY DEF RecordMissed
<1>3. PICK s : s = <<x[1][1], x[1][2], x[2]>>
  OBVIOUS
<1>4. PICK row : Append1(s, row)
  BY <1>2, <1>3
<1>5. /\ x \in AllPoints \X Owing /\ todo \in Jobs
      /\ todo.missed \subseteq AllPoints \X Owing /\ todo.dropped \subseteq Pubs
  BY DEF SweepInv, SweepTypeInv, Jobs
<1>6. x[1] \in AllPoints /\ x[2] \in Owing /\ x = <<x[1], x[2]>> /\ x[1] = <<x[1][1], x[1][2]>>
  BY <1>5 DEF AllPoints
<1>7. s \in Slots /\ s[1] = x[1][1] /\ s[1] \in Pubs
  BY <1>3, <1>6 DEF AllPoints, Slots
<1>8. ToRecord(s[1])
  BY <1>7 DEF ToRecord
<1>9. Whole(s[1]) /\ s[1] \notin decisions
  BY <1>7, <1>8 DEF SweepInv, PlanInv
<1>10. /\ copies' \in [Slots -> Nat] /\ seen' \subseteq Slots
       /\ copies'[s] > 0
       /\ \A q \in Slots : copies[q] > 0 => copies'[q] > 0
       /\ \A q \in Slots : q # s => copies'[q] = copies[q]
       /\ \A pub \in Pubs : Whole(pub) => Whole(pub)'
  BY <1>4, <1>7, <1>9, Appended DEF SweepInv
<1>11. /\ todo'.missed = todo.missed \ {x} /\ todo'.due = todo.due /\ todo'.dropped = todo.dropped
       /\ todo'.finished = todo.finished /\ todo' \in Jobs
  BY <1>2, <1>5 DEF Jobs
<1>12. \A m \in todo'.missed : \A v \in Owing : <<m[1], v>> \in todo'.missed \/ copies'[<<m[1][1], m[1][2], v>>] > 0
  <2> SUFFICES ASSUME NEW m \in todo'.missed, NEW v \in Owing, <<m[1], v>> \notin todo'.missed
               PROVE  copies'[<<m[1][1], m[1][2], v>>] > 0
    OBVIOUS
  <2>1. m \in todo.missed /\ m[1] \in AllPoints
    BY <1>5, <1>11
  <2>2. <<m[1][1], m[1][2], v>> \in Slots
    BY <2>1 DEF AllPoints, Slots
  <2>3. CASE <<m[1], v>> \in todo.missed
    <3>1. <<m[1], v>> = x
      BY <1>11, <2>3
    <3>2. <<m[1][1], m[1][2], v>> = s
      BY <1>3, <3>1
    <3> QED
      BY <1>10, <3>2
  <2>4. CASE <<m[1], v>> \notin todo.missed
    <3>1. copies[<<m[1][1], m[1][2], v>>] > 0
      BY <2>1, <2>4 DEF SweepInv, PlanInv
    <3> QED
      BY <1>10, <2>2, <3>1
  <2> QED
    BY <2>3, <2>4
<1>13. \A v \in Owing : ~(\E y \in todo.missed \ {x} : y[1] = x[1]) => copies'[<<x[1][1], x[1][2], v>>] > 0
  <2> SUFFICES ASSUME NEW v \in Owing, \A y \in todo.missed \ {x} : y[1] # x[1]
               PROVE  copies'[<<x[1][1], x[1][2], v>>] > 0
    OBVIOUS
  <2>1. <<x[1][1], x[1][2], v>> \in Slots
    BY <1>6 DEF AllPoints, Slots
  <2>2. CASE v = x[2]
    BY <1>3, <1>10, <2>2
  <2>3. CASE v # x[2]
    <3>1. <<x[1], v>> # x /\ <<x[1], v>>[1] = x[1]
      BY <1>6, <2>3
    <3>2. <<x[1], v>> \notin todo.missed
      BY <3>1
    <3>3. copies[<<x[1][1], x[1][2], v>>] > 0
      BY <3>2 DEF SweepInv, PlanInv
    <3> QED
      BY <1>10, <2>1, <3>3
  <2> QED
    BY <2>2, <2>3
<1>14. \A c \in complete' : c \in complete \/ \A v \in Owing : copies'[<<c[1], c[2], v>>] > 0
  <2> SUFFICES ASSUME NEW c \in complete', c \notin complete
               PROVE  \A v \in Owing : copies'[<<c[1], c[2], v>>] > 0
    OBVIOUS
  <2>1. c = x[1] /\ ~(\E y \in todo.missed \ {x} : y[1] = x[1])
    BY <1>2
  <2> QED
    BY <1>13, <2>1
<1>15. complete \subseteq AllPoints /\ complete' \subseteq AllPoints
  BY <1>2, <1>6 DEF SweepInv, SweepTypeInv
<1>16. SweepTypeInv'
  BY <1>1, <1>10, <1>11, <1>15 DEF SweepInv, SweepTypeInv
<1>17. RowsInv'
  BY <1>1, <1>4, <1>7, <1>9, <1>14, <1>15, RowsGrow DEF SweepInv
<1>18. IndexInv'
  BY <1>1, <1>10 DEF SweepInv, IndexInv, ArchivedFrom
<1>19. \A pub \in Pubs : ToRecord(pub)' => ToRecord(pub)
  BY <1>11 DEF ToRecord
<1>20. PlanInv'
  <2>1. \A pub \in Pubs :
          (ToRecord(pub) \/ pub \in todo.dropped => Whole(pub) /\ pub \notin todo.finished /\ pub \notin decisions)'
    BY <1>1, <1>10, <1>11, <1>19 DEF SweepInv, PlanInv
  <2>2. \A pub \in todo'.dropped : pub \in Pubs /\ ~ToRecord(pub) /\ \A q \in Slots : q[1] = pub => copies[q] = 0
    BY <1>5, <1>11 DEF SweepInv, PlanInv
  <2>3. \A pub \in todo'.dropped : \A q \in Slots : q[1] = pub => copies'[q] = 0
    BY <1>8, <1>10, <2>2
  <2>4. \A pub \in todo'.dropped : ~ToRecord(pub)'
    BY <1>19, <2>2
  <2> QED
    BY <1>1, <1>12, <2>1, <2>3, <2>4 DEF PlanInv
<1>21. WorkInv' /\ RetryInv'
  BY <1>1, RetryKept DEF SweepInv, WorkInv
<1> QED
  BY <1>16, <1>17, <1>18, <1>20, <1>21 DEF SweepInv

LEMMA RecordSampledOutKeeps ==
  ASSUME SweepInv, RecordSampledOut
  PROVE  SweepInv'
<1>1. /\ stage = "recording" /\ stage' = "recording"
      /\ UNCHANGED <<time, published, copies, archived, liveSince, forgotten, seen, step, retries>>
  BY DEF RecordSampledOut, sweep
<1>2. PICK pub \in todo.dropped :
        /\ decisions' = decisions \cup {pub}
        /\ complete' = complete \cup {<<pub, pt>> : pt \in Pending(pub)}
        /\ todo' = [todo EXCEPT !.dropped = todo.dropped \ {pub}]
  BY DEF RecordSampledOut
<1>3. todo \in Jobs /\ pub \in Pubs
  BY DEF SweepInv, SweepTypeInv, Jobs
<1>4. /\ todo'.missed = todo.missed /\ todo'.due = todo.due /\ todo'.dropped = todo.dropped \ {pub}
      /\ todo'.finished = todo.finished /\ todo' \in Jobs
  BY <1>2, <1>3 DEF Jobs
<1>5. complete' \subseteq AllPoints
  <2>1. complete \subseteq AllPoints
    BY DEF SweepInv, SweepTypeInv
  <2>2. \A pt \in Pending(pub) : <<pub, pt>> \in AllPoints
    BY <1>3 DEF Pending, AllPoints
  <2> QED
    BY <1>2, <2>1, <2>2
<1>6. SweepTypeInv'
  BY <1>1, <1>4, <1>5 DEF SweepInv, SweepTypeInv
<1>7. ~ToRecord(pub) /\ \A s \in Slots : s[1] = pub => copies[s] = 0
  BY DEF SweepInv, PlanInv
<1>8. SampledOutWhole'
  BY <1>1, <1>2, <1>7 DEF SweepInv, RowsInv, SampledOutWhole
<1>9. CompleteMeansRecorded'
  BY <1>1, <1>2 DEF SweepInv, RowsInv, CompleteMeansRecorded
<1>10. RowsInv'
  BY <1>1, <1>8, <1>9 DEF SweepInv, RowsInv, OneRowPerSlot, ArchivedFrom
<1>11. IndexInv'
  BY <1>1, IndexKept DEF SweepInv
<1>12. \A p \in Pubs : ToRecord(p)' <=> ToRecord(p)
  BY <1>4 DEF ToRecord
<1>13. PlanInv'
  <2>1. \A p \in Pubs : Whole(p)' <=> Whole(p)
    BY <1>1 DEF Whole
  <2>2. \A p \in Pubs : ToRecord(p)' \/ p \in todo'.dropped =>
          p # pub /\ Whole(p)' /\ p \notin todo'.finished /\ p \notin decisions'
    BY <1>2, <1>4, <1>7, <1>12, <2>1 DEF SweepInv, PlanInv
  <2>3. \A p \in todo'.dropped : ~ToRecord(p)' /\ \A s \in Slots : s[1] = p => copies'[s] = 0
    <3>1. \A p \in todo'.dropped : p \in Pubs /\ p \in todo.dropped
      BY <1>3, <1>4 DEF Jobs
    <3> QED
      BY <1>1, <1>12, <3>1 DEF SweepInv, PlanInv
  <2>4. \A m \in todo'.missed : \A v \in Owing :
          <<m[1], v>> \in todo'.missed \/ copies'[<<m[1][1], m[1][2], v>>] > 0
    BY <1>1, <1>4 DEF SweepInv, PlanInv
  <2> QED
    BY <1>1, <2>2, <2>3, <2>4 DEF PlanInv
<1>14. WorkInv' /\ RetryInv'
  BY <1>1, RetryKept DEF SweepInv, WorkInv
<1> QED
  BY <1>6, <1>10, <1>11, <1>13, <1>14 DEF SweepInv


-----------------------------------------------------------------------------
(* The sweep. *)

LEMMA QueueIs ==
  ASSUME SweepInv, NEW i \in DOMAIN retries
  PROVE  retries[i] \in Retries /\ retries[i].slot \in Slots /\ step[retries[i].slot] = "retryqueued"
<1>1. retries \in Seq(Retries)
  BY DEF SweepInv, SweepTypeInv
<1>2. retries[i] \in Retries
  BY <1>1, ElementOfSeq
<1>3. step[retries[i].slot] = "retryqueued"
  BY DEF SweepInv, RetryInv
<1> QED
  BY <1>2, <1>3 DEF Retries

(* What is forgotten is finished; the items are the targets without a row. *)
LEMMA BeginSweepKeeps ==
  ASSUME SweepInv, BeginSweep
  PROVE  SweepInv'
<1>1. /\ stage = "recording" /\ todo' = Nothing
      /\ UNCHANGED <<time, published, copies, archived, liveSince, decisions, retries>>
      /\ forgotten' = forgotten \cup todo.finished
      /\ seen' = {s \in seen : s[1] \notin todo.finished}
  BY DEF BeginSweep, record
<1>2. PICK resolved \in SUBSET {x[1] : x \in todo.due} :
        LET due == {x \in todo.due : x[1] \in resolved}
            items == {s \in Slots : PointOf(s) \in due /\ s \notin seen}
        IN  /\ step' = [s \in Slots |-> IF s \in items THEN "queued" ELSE "none"]
            /\ complete' = ForgetPoints \cup NothingLeft(due, items)
            /\ stage' = IF items = {} THEN "idle" ELSE "sweep"
  BY DEF BeginSweep
<1> DEFINE due == {x \in todo.due : x[1] \in resolved}
           items == {s \in Slots : PointOf(s) \in due /\ s \notin seen}
<1>3. /\ step' = [s \in Slots |-> IF s \in items THEN "queued" ELSE "none"]
      /\ complete' = ForgetPoints \cup NothingLeft(due, items)
      /\ stage' = IF items = {} THEN "idle" ELSE "sweep"
  BY <1>2
<1>4. due \subseteq AllPoints /\ due \subseteq todo.due
  BY DEF SweepInv, SweepTypeInv, Jobs
<1>5. items \subseteq Slots /\ \A s \in Slots : s \in items <=> PointOf(s) \in due /\ s \notin seen
  OBVIOUS
<1>6. \A s \in Slots : PointOf(s) \in due =>
        Whole(s[1]) /\ s[1] \notin todo.finished /\ s[1] \notin decisions
  <2> SUFFICES ASSUME NEW s \in Slots, PointOf(s) \in due
               PROVE  Whole(s[1]) /\ s[1] \notin todo.finished /\ s[1] \notin decisions
    OBVIOUS
  <2>1. s[1] \in Pubs /\ PointOf(s)[1] = s[1]
    BY SlotParts DEF PointOf
  <2>2. ToRecord(s[1])
    BY <1>4, <2>1 DEF ToRecord
  <2> QED
    BY <2>1, <2>2 DEF SweepInv, PlanInv
<1>7. \A s \in seen : s \in Slots /\ copies[s] > 0
  BY DEF SweepInv, SweepTypeInv, RowsInv
<1> HIDE DEF due, items
<1>8. complete' \subseteq AllPoints
  BY <1>3, <1>4 DEF ForgetPoints, NothingLeft, SweepInv, SweepTypeInv
<1>9. SweepTypeInv'
  <2>1. stage' \in {"idle", "sweep"} /\ step' \in [Slots -> Steps]
    BY <1>3 DEF Steps
  <2>2. todo' \in Jobs /\ seen' \subseteq Slots
    BY <1>1, <1>7 DEF Nothing, Jobs
  <2> QED
    BY <1>1, <1>8, <2>1, <2>2 DEF SweepInv, SweepTypeInv
<1>10. CompleteMeansRecorded'
  <2> SUFFICES ASSUME NEW x \in complete', x[1] \notin decisions, NEW v \in Owing
               PROVE  copies[<<x[1], x[2], v>>] > 0
    BY <1>1 DEF CompleteMeansRecorded
  <2>1. CASE x \in complete
    BY <2>1 DEF SweepInv, RowsInv, CompleteMeansRecorded
  <2>2. CASE x \in NothingLeft(due, items)
    <3>1. x \in due /\ \A s \in items : PointOf(s) # x
      BY <2>2 DEF NothingLeft
    <3>2. <<x[1], x[2], v>> \in Slots /\ PointOf(<<x[1], x[2], v>>) = x
      BY <1>4, <3>1 DEF AllPoints, Slots, PointOf
    <3> QED
      BY <1>5, <1>7, <3>1, <3>2
  <2> QED
    BY <1>3, <2>1, <2>2 DEF ForgetPoints
<1>11. RowsInv'
  BY <1>1, <1>7, <1>10 DEF SweepInv, RowsInv, OneRowPerSlot, SampledOutWhole, ArchivedFrom
<1>12. \A pub \in Pubs : Whole(pub) /\ pub \notin todo.finished => Whole(pub)'
  BY <1>1 DEF Whole
<1>13. IndexInv'
  BY <1>1, <1>12 DEF SweepInv, IndexInv, ArchivedFrom
<1>14. WorkInv'
  <2>1. (stage # "sweep" => \A s \in Slots : step[s] = "none")'
    BY <1>3
  <2>2. (\A s \in Slots : step[s] # "none" => Whole(s[1]) /\ s[1] \notin decisions)'
    <3> SUFFICES ASSUME NEW s \in Slots, step'[s] # "none"
                 PROVE  (Whole(s[1]) /\ s[1] \notin decisions)'
      OBVIOUS
    <3>1. s[1] \in Pubs
      BY SlotParts
    <3>2. PointOf(s) \in due
      BY <1>3, <1>5
    <3> QED
      BY <1>1, <1>6, <1>12, <3>1, <3>2
  <2>3. (\A s \in Slots : step[s] = "done" => copies[s] > 0)'
    BY <1>3
  <2>4. (\A s, q \in Slots : PointOf(s) = PointOf(q) /\ step[s] # "none" /\ step[q] = "none" => copies[q] > 0)'
    BY <1>1, <1>3, <1>5, <1>7
  <2> QED
    BY <2>1, <2>2, <2>3, <2>4 DEF WorkInv
<1>15. RetryInv'
  <2>1. DOMAIN retries = {}
    <3>1. \A i \in DOMAIN retries : retries[i].slot \in Slots /\ step[retries[i].slot] = "retryqueued"
      BY QueueIs
    <3> QED
      BY <1>1, <3>1 DEF SweepInv, WorkInv
  <2> QED
    BY <1>1, <2>1 DEF RetryInv
<1> QED
  BY <1>1, <1>9, <1>11, <1>13, <1>14, <1>15, NothingPlanned DEF SweepInv

(* A slot that moves on stays among those of its point that have not got a *)
(* row or are being given one.                                             *)
LEMMA Moved ==
  ASSUME SweepInv, NEW s \in Slots, step[s] # "none",
         NEW to \in Steps \ {"none"}, Move(s, to), to = "done" => copies'[s] > 0,
         \A q \in Slots : copies[q] > 0 => copies'[q] > 0,
         \A pub \in Pubs : Whole(pub) => Whole(pub)',
         UNCHANGED <<decisions, stage>>
  PROVE  WorkInv' /\ stage' = "sweep" /\ step' \in [Slots -> Steps] /\ Whole(s[1]) /\ s[1] \notin decisions
<1>1. stage = "sweep" /\ Whole(s[1]) /\ s[1] \notin decisions
  BY DEF SweepInv, WorkInv
<1>2. step \in [Slots -> Steps] /\ step' = [step EXCEPT ![s] = to]
  BY DEF SweepInv, SweepTypeInv, Move
<1>3. step' \in [Slots -> Steps] /\ step'[s] = to /\ \A q \in Slots : q # s => step'[q] = step[q]
  BY <1>2
<1>4. \A q \in Slots : step'[q] = "none" <=> step[q] = "none"
  BY <1>3
<1>5. (\A q \in Slots : step[q] # "none" => Whole(q[1]) /\ q[1] \notin decisions)'
  <2> SUFFICES ASSUME NEW q \in Slots, step'[q] # "none"
               PROVE  (Whole(q[1]) /\ q[1] \notin decisions)'
    OBVIOUS
  <2>1. q[1] \in Pubs /\ Whole(q[1]) /\ q[1] \notin decisions
    BY <1>4, SlotParts DEF SweepInv, WorkInv
  <2> QED
    BY <2>1
<1>6. (\A q \in Slots : step[q] = "done" => copies[q] > 0)'
  BY <1>3 DEF SweepInv, WorkInv
<1>7. (\A r, q \in Slots : PointOf(r) = PointOf(q) /\ step[r] # "none" /\ step[q] = "none" => copies[q] > 0)'
  BY <1>4 DEF SweepInv, WorkInv
<1> QED
  BY <1>1, <1>3, <1>5, <1>6, <1>7 DEF WorkInv

(* A step of a worker that records nothing.                                *)
LEMMA MoveKeeps ==
  ASSUME SweepInv, NEW s \in Slots, step[s] # "none",
         NEW to \in Steps \ {"none", "done"}, Move(s, to),
         UNCHANGED <<time, published, copies, archived, liveSince, decisions, stage, forgotten, seen, complete, todo>>,
         retries' \in Seq(Retries), RetryInv'
  PROVE  SweepInv'
<1>1. \A pub \in Pubs : Whole(pub) => Whole(pub)'
  BY DEF Whole
<1>2. WorkInv' /\ step' \in [Slots -> Steps]
  BY <1>1, Moved
<1>3. SweepTypeInv'
  BY <1>2 DEF SweepInv, SweepTypeInv
<1>4. RowsInv' /\ IndexInv' /\ PlanInv'
  BY RowsKept, IndexKept, PlanKept DEF SweepInv
<1> QED
  BY <1>2, <1>3, <1>4 DEF SweepInv

(* A slot outside the retry queue moves: the queue is as it was.           *)
LEMMA OutsideQueue ==
  ASSUME SweepInv, NEW s \in Slots, step[s] # "retryqueued", NEW to, Move(s, to), retries' = retries
  PROVE  retries' \in Seq(Retries) /\ RetryInv'
<1>1. \A i \in DOMAIN retries : retries[i].slot \in Slots /\ retries[i].slot # s
  BY QueueIs
<1>2. \A q \in Slots : q # s => step'[q] = step[q]
  BY DEF Move, SweepInv, SweepTypeInv
<1> QED
  BY <1>1, <1>2 DEF SweepInv, SweepTypeInv, RetryInv

LEMMA WorkerMoves ==
  ASSUME SweepInv, NEW s \in Slots,
         \/ TakeSlot(s) \/ TakeBytes(s) \/ TakeLock(s) \/ Probe(s)
         \/ TakeRetryBytes(s) \/ TakeRetryLock(s) \/ Retry(s)
  PROVE  SweepInv'
<1>1. PICK to \in {"slot", "working", "asking", "probing", "reworking", "reasking", "reprobing"} : Move(s, to)
  BY DEF TakeSlot, TakeBytes, TakeLock, Probe, TakeRetryBytes, TakeRetryLock, Retry
<1>2. step[s] \in {"queued", "slot", "working", "asking", "retryslot", "reworking", "reasking"}
  BY DEF TakeSlot, TakeBytes, TakeLock, Probe, TakeRetryBytes, TakeRetryLock, Retry
<1>3. UNCHANGED <<time, published, copies, archived, liveSince, decisions, stage, forgotten, seen, complete, todo, retries>>
  BY DEF TakeSlot, TakeBytes, TakeLock, Probe, TakeRetryBytes, TakeRetryLock, Retry,
         NothingRecorded, SweepOnly, record, memory
<1>4. to \in Steps \ {"none", "done"}
  BY DEF Steps
<1>5. retries' \in Seq(Retries) /\ RetryInv'
  BY <1>1, <1>2, <1>3, OutsideQueue
<1> QED
  BY <1>1, <1>2, <1>3, <1>4, <1>5, MoveKeeps

(* A first timeout goes to the end of the queue, once.                     *)
LEMMA TimedOutKeeps ==
  ASSUME SweepInv, NEW s \in Slots, TimedOut(s)
  PROVE  SweepInv'
<1>1. step[s] = "probing" /\ Move(s, "retryqueued")
  BY DEF TimedOut
<1>2. UNCHANGED <<time, published, copies, archived, liveSince, decisions, stage, forgotten, seen, complete, todo>>
  BY DEF TimedOut, NothingRecorded, SweepOnly, record, memory
<1>3. PICK e : e = [slot |-> s, at |-> time + RetryDelay]
  OBVIOUS
<1>4. e \in Retries /\ e.slot = s /\ retries' = Append(retries, e) /\ retries \in Seq(Retries)
  BY <1>3, SweepAssumption DEF TimedOut, SweepInv, SweepTypeInv, Retries
<1>5. /\ retries' \in Seq(Retries) /\ Len(retries') = Len(retries) + 1
      /\ \A i \in 1 .. Len(retries) : retries'[i] = retries[i]
      /\ retries'[Len(retries) + 1] = e
  BY <1>4, AppendProperties
<1>6. step'[s] = "retryqueued" /\ \A q \in Slots : q # s => step'[q] = step[q]
  BY <1>1 DEF Move, SweepInv, SweepTypeInv
<1>7. \A i \in 1 .. Len(retries) : retries[i].slot \in Slots /\ retries[i].slot # s /\ step[retries[i].slot] = "retryqueued"
  <2>1. DOMAIN retries = 1 .. Len(retries)
    BY <1>4
  <2> QED
    BY <1>1, <2>1, QueueIs
<1>8. DOMAIN retries' = 1 .. Len(retries) + 1 /\ Len(retries) \in Nat
  BY <1>4, <1>5
<1>9. \A i \in DOMAIN retries' : i \in 1 .. Len(retries) \/ i = Len(retries) + 1
  BY <1>8
<1>10. \A i \in DOMAIN retries' : step'[retries'[i].slot] = "retryqueued"
  BY <1>4, <1>5, <1>6, <1>7, <1>9
<1>11. \A i, j \in 1 .. Len(retries) : retries[i].slot = retries[j].slot => i = j
  BY <1>4 DEF SweepInv, RetryInv
<1>12. \A i, j \in DOMAIN retries' : retries'[i].slot = retries'[j].slot => i = j
  BY <1>4, <1>5, <1>7, <1>9, <1>11
<1>13. RetryInv'
  BY <1>10, <1>12 DEF RetryInv
<1>14. "retryqueued" \in Steps \ {"none", "done"}
  BY DEF Steps
<1> QED
  BY <1>1, <1>2, <1>5, <1>13, <1>14, MoveKeeps

(* The dispatcher takes the head: it is nowhere else in the queue.         *)
LEMMA TakeRetryKeeps ==
  ASSUME SweepInv, TakeRetrySlot
  PROVE  SweepInv'
<1>1. PICK s : s = Head(retries).slot
  OBVIOUS
<1>2. retries # <<>> /\ retries \in Seq(Retries) /\ retries' = Tail(retries) /\ Move(s, "retryslot")
  BY <1>1 DEF TakeRetrySlot, SweepInv, SweepTypeInv
<1>3. UNCHANGED <<time, published, copies, archived, liveSince, decisions, stage, forgotten, seen, complete, todo>>
  BY DEF TakeRetrySlot, NothingRecorded, SweepOnly, record, memory
<1>4. /\ retries' \in Seq(Retries) /\ Len(retries') = Len(retries) - 1 /\ Len(retries) \in Nat \ {0}
      /\ \A i \in 1 .. Len(retries') : retries'[i] = retries[i + 1]
      /\ retries[1] = Head(retries)
  BY <1>2, HeadTailProperties
<1>5. 1 \in DOMAIN retries /\ \A i \in DOMAIN retries' : i + 1 \in DOMAIN retries /\ i \in Nat \ {0} /\ retries'[i] = retries[i + 1]
  BY <1>2, <1>4
<1>6. \A i \in DOMAIN retries : retries[i].slot \in Slots /\ step[retries[i].slot] = "retryqueued"
  BY QueueIs
<1>7. s \in Slots /\ step[s] = "retryqueued" /\ s = retries[1].slot
  BY <1>1, <1>4, <1>5, <1>6
<1>8. \A i, j \in DOMAIN retries : retries[i].slot = retries[j].slot => i = j
  BY DEF SweepInv, RetryInv
<1>9. \A i \in DOMAIN retries' : retries'[i].slot \in Slots /\ retries'[i].slot # s /\ step[retries'[i].slot] = "retryqueued"
  BY <1>5, <1>6, <1>7, <1>8
<1>10. \A q \in Slots : q # s => step'[q] = step[q]
  BY <1>2 DEF Move, SweepInv, SweepTypeInv
<1>11. \A i, j \in DOMAIN retries' : retries'[i].slot = retries'[j].slot => i = j
  BY <1>5, <1>8
<1>12. RetryInv'
  BY <1>9, <1>10, <1>11 DEF RetryInv
<1>13. "retryslot" \in Steps \ {"none", "done"}
  BY DEF Steps
<1> QED
  BY <1>2, <1>3, <1>4, <1>7, <1>12, <1>13, MoveKeeps

(* A worker that is done has recorded a row, the first of its slot.        *)
LEMMA WorkerRecords ==
  ASSUME SweepInv, NEW s \in Slots,
         ElapsedMeanwhile(s) \/ Denied(s) \/ Answered(s) \/ RetryNotRun(s) \/ RetryAnswered(s)
  PROVE  SweepInv'
<1>1. /\ step[s] \in {"working", "asking", "probing", "reasking", "reprobing"}
      /\ Move(s, "done") /\ retries' = retries /\ SweepOnly
  BY DEF ElapsedMeanwhile, Denied, Answered, RetryNotRun, RetryAnswered
<1>2. PICK row : Record(s, row)
  BY DEF ElapsedMeanwhile, Denied, Answered, RetryNotRun, RetryAnswered
<1>3. Append1(s, row) /\ UNCHANGED <<time, published, archived, liveSince, decisions, stage, forgotten, complete, todo>>
  BY <1>1, <1>2 DEF Record, SweepOnly
<1>4. stage = "sweep" /\ Whole(s[1]) /\ s[1] \notin decisions
  BY <1>1 DEF SweepInv, WorkInv
<1>5. /\ copies' \in [Slots -> Nat] /\ seen' \subseteq Slots
      /\ copies'[s] > 0
      /\ \A q \in Slots : copies[q] > 0 => copies'[q] > 0
      /\ \A pub \in Pubs : Whole(pub) => Whole(pub)'
  BY <1>3, <1>4, Appended DEF SweepInv
<1>6. "done" \in Steps \ {"none"}
  BY DEF Steps
<1>7. WorkInv' /\ step' \in [Slots -> Steps]
  BY <1>1, <1>3, <1>5, <1>6, Moved
<1>8. retries' \in Seq(Retries) /\ RetryInv'
  BY <1>1, OutsideQueue
<1>9. SweepTypeInv'
  BY <1>3, <1>5, <1>7, <1>8 DEF SweepInv, SweepTypeInv
<1>10. RowsInv'
  <2>1. complete \subseteq AllPoints
    BY DEF SweepInv, SweepTypeInv
  <2> QED
    BY <1>3, <1>4, <2>1, RowsGrow DEF SweepInv
<1>11. IndexInv'
  BY <1>3, <1>5 DEF SweepInv, IndexInv, ArchivedFrom
<1>12. todo' = Nothing
  BY <1>3, <1>4 DEF SweepInv, PlanInv
<1> QED
  BY <1>7, <1>8, <1>9, <1>10, <1>11, <1>12, NothingPlanned DEF SweepInv

(* At the end of a sweep that was not stopped, a point with an item has a  *)
(* row of every target: of those it worked on and of those it left aside.  *)
LEMMA EndSweepKeeps ==
  ASSUME SweepInv, EndSweep
  PROVE  SweepInv'
<1>1. /\ stage = "sweep" /\ stage' = "idle"
      /\ step' = [s \in Slots |-> "none"]
      /\ UNCHANGED <<time, published, copies, archived, liveSince, decisions, forgotten, seen, todo, retries>>
  BY DEF EndSweep, SweepOver, record
<1>2. \A s \in Slots : step[s] \in {"none", "done"} \/ (step[s] = "queued" /\ canceled)
  BY DEF EndSweep
<1>3. complete' = IF canceled THEN complete ELSE complete \cup {PointOf(s) : s \in InSteps({"done"})}
  BY DEF EndSweep
<1>4. complete' \subseteq AllPoints
  BY <1>3, SlotParts DEF SweepInv, SweepTypeInv, InSteps
<1>5. SweepTypeInv'
  BY <1>1, <1>4 DEF SweepInv, SweepTypeInv, Steps
<1>6. CompleteMeansRecorded'
  <2> SUFFICES ASSUME NEW x \in complete', x[1] \notin decisions, NEW v \in Owing
               PROVE  copies[<<x[1], x[2], v>>] > 0
    BY <1>1 DEF CompleteMeansRecorded
  <2>1. CASE x \in complete
    BY <2>1 DEF SweepInv, RowsInv, CompleteMeansRecorded
  <2>2. CASE x \notin complete
    <3>1. ~canceled
      BY <1>3, <2>2
    <3>2. PICK s \in Slots : step[s] = "done" /\ x = PointOf(s)
      BY <1>3, <2>2 DEF InSteps
    <3>3. PICK q \in Slots : q = <<x[1], x[2], v>> /\ PointOf(q) = PointOf(s)
      <4>1. x[1] = s[1] /\ x[2] = s[2] /\ s[1] \in Pubs /\ s[2] \in Points
        BY <3>2, SlotParts DEF PointOf
      <4>2. <<s[1], s[2], v>> \in Slots
        BY <4>1 DEF Slots
      <4>3. PointOf(<<s[1], s[2], v>>) = PointOf(s)
        BY DEF PointOf
      <4> QED
        BY <4>1, <4>2, <4>3
    <3>4. step[q] \in {"none", "done"}
      BY <1>2, <3>1
    <3>5. copies[q] > 0
      BY <3>2, <3>3, <3>4 DEF SweepInv, WorkInv
    <3> QED
      BY <3>3, <3>5
  <2> QED
    BY <2>1, <2>2
<1>7. RowsInv'
  BY <1>1, <1>6 DEF SweepInv, RowsInv, OneRowPerSlot, SampledOutWhole, ArchivedFrom
<1>8. IndexInv'
  BY <1>1, IndexKept DEF SweepInv
<1>9. todo' = Nothing
  BY <1>1 DEF SweepInv, PlanInv
<1>10. RetryInv'
  <2>1. DOMAIN retries = {}
    <3>1. \A i \in DOMAIN retries : retries[i].slot \in Slots /\ step[retries[i].slot] = "retryqueued"
      BY QueueIs
    <3> QED
      BY <1>2, <3>1
  <2> QED
    BY <1>1, <2>1 DEF RetryInv
<1> QED
  BY <1>1, <1>5, <1>7, <1>8, <1>9, <1>10, NothingPlanned, NobodyWorks DEF SweepInv

-----------------------------------------------------------------------------
LEMMA StutterKeeps ==
  ASSUME SweepInv, UNCHANGED sweepVars
  PROVE  SweepInv'
<1>1. UNCHANGED <<time, published, copies, archived, liveSince, decisions, stage, forgotten, seen, complete, todo, step, retries>>
  BY DEF sweepVars, record, memory, sweep
<1>2. SweepTypeInv'
  BY <1>1 DEF SweepInv, SweepTypeInv
<1>3. RowsInv' /\ IndexInv' /\ PlanInv' /\ WorkInv' /\ RetryInv'
  BY <1>1, RowsKept, IndexKept, PlanKept, WorkKept, RetryKept DEF SweepInv
<1> QED
  BY <1>2, <1>3 DEF SweepInv

LEMMA SweepInvIsInductive == SweepInv /\ [SweepNext]_sweepVars => SweepInv'
<1> SUFFICES ASSUME SweepInv, [SweepNext]_sweepVars
             PROVE  SweepInv'
  OBVIOUS
<1>1. CASE UNCHANGED sweepVars
  BY <1>1, StutterKeeps
<1>2. CASE TimePasses \/ Signal \/ \E pub \in Pubs : Publish(pub)
  BY <1>2, OutsideKeeps
<1>3. CASE Archive
  BY <1>3, ArchiveKeeps
<1>4. CASE Cycle \/ Crash
  <2>1. CASE Plan \/ RecordMissed \/ RecordSampledOut
    BY <2>1, PlanKeeps, RecordMissedKeeps, RecordSampledOutKeeps
  <2>2. CASE BeginSweep \/ EndSweep
    BY <2>2, BeginSweepKeeps, EndSweepKeeps
  <2>3. CASE Open \/ Exit \/ Crash
    BY <2>3, OpenKeeps, DownKeeps
  <2> QED
    BY <1>4, <2>1, <2>2, <2>3 DEF Cycle
<1>5. CASE TakeRetrySlot
  BY <1>5, TakeRetryKeeps
<1>6. CASE \E s \in Slots : Work(s)
  <2>1. PICK s \in Slots : Work(s)
    BY <1>6
  <2>2. CASE ElapsedMeanwhile(s) \/ Denied(s) \/ Answered(s) \/ RetryNotRun(s) \/ RetryAnswered(s)
    BY <2>2, WorkerRecords
  <2>3. CASE TimedOut(s)
    BY <2>3, TimedOutKeeps
  <2>4. CASE \/ TakeSlot(s) \/ TakeBytes(s) \/ TakeLock(s) \/ Probe(s)
             \/ TakeRetryBytes(s) \/ TakeRetryLock(s) \/ Retry(s)
    BY <2>4, WorkerMoves
  <2> QED
    BY <2>1, <2>2, <2>3, <2>4 DEF Work
<1> QED
  BY <1>1, <1>2, <1>3, <1>4, <1>5, <1>6 DEF SweepNext

(* The record, the restart index, the plan, the workers and the retry queue *)
(* stay in step with each other.                                           *)
THEOREM SweepInvariant == SweepSpec => []SweepInv
<1>1. SweepInit => SweepInv
  BY InitHolds
<1>2. SweepInv /\ [SweepNext]_sweepVars => SweepInv'
  BY SweepInvIsInductive
<1> QED
  BY <1>1, <1>2, PTL DEF SweepSpec

(* Restarted at any moment, with any part of the record archived meanwhile, *)
(* MeasurementStore.append never writes a second row of a slot: planCycle  *)
(* skips a publication that record.LiveSince has overtaken, and of any     *)
(* other the restart index is whole.                                       *)
THEOREM OneRowAlways == SweepSpec => []OneRowPerSlot
<1>1. SweepInv => OneRowPerSlot
  BY DEF SweepInv, RowsInv
<1> QED
  BY <1>1, SweepInvariant, PTL

(* A publication in sampling_decisions.jsonl has no row and gets none: a    *)
(* schedule that has begun is carried on, whatever the policy would draw   *)
(* for it after a restart.                                                 *)
THEOREM SampledOutWholeAlways == SweepSpec => []SampledOutWhole
<1>1. SweepInv => SampledOutWhole
  BY DEF SweepInv, RowsInv
<1> QED
  BY <1>1, SweepInvariant, PTL

(* A point in p.complete, which no plan takes up again, has a row of every *)
(* target it was owed by, also when the sweep was stopped or another part  *)
(* of it had been recorded before a restart.                               *)
THEOREM CompleteIsRecordedAlways == SweepSpec => []CompleteMeansRecorded
<1>1. SweepInv => CompleteMeansRecorded
  BY DEF SweepInv, RowsInv
<1> QED
  BY <1>1, SweepInvariant, PTL
=============================================================================
