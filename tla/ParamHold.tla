----------------------------- MODULE ParamHold -----------------------------
(***************************************************************************)
(* The collector's half of the params mechanism: observer/store/uncertainty.go, *)
(* observer/correct/correct.go and the passes of observer/ingest that feed them. *)
(*                                                                         *)
(* A pass reads state.json, publications.jsonl, param_uncertainty.jsonl,   *)
(* corrections.jsonl and measurements.jsonl in that order, re-derives what *)
(* every verified range covers (correct.Run), re-grades the rows drawn     *)
(* against a withdrawn deadline (the sweep) and recomputes the holds       *)
(* (SyncParamHolds). One action is one transaction or one append: what     *)
(* commits alone is a step of its own, and the process can die between any *)
(* two. A held row is withheld from every published figure.                *)
(*                                                                         *)
(* The files the scanner and the prober write are external here; they only *)
(* ever grow. The phase and verdict of a row are functions of its evidence *)
(* and its deadline, so a row is re-graded exactly when its deadline moves. *)
(***************************************************************************)
EXTENDS ParamHistory, FiniteSetsExt, SequencesExt

CONSTANTS
  PubIds, Points,     \* publications; probes of one publication
  ScannerRuns,        \* external: what the scanner may write, each run in order: [file, line]
  RetryPasses,        \* retryPasses: how often a line may ask to be read again
  CursorEvery,        \* cursorEvery: lines between cursor writes
  FaultKinds,         \* which may happen: "crash" (a restart of the collector), "error" (of the
                      \* store or an append), "rebuild" (the database deleted and rebuilt from the
                      \* files), "strip" (retention strips a row's own record)
  MaxFaults,          \* bound: how many of them happen in all
  MaxCorrections      \* bound: lines of corrections.jsonl

Files == <<"pubs", "ranges", "corrs", "meas">>

RangeKinds == {"silent_change", "check_skipped", "bad"}
Resolutions == {"", "unresolvable", "verified"}

PubLine == [id : PubIds, promise : Nat, settle : Nat, tx : Nat, msu : Nat]

RangeLine ==
  [kind : RangeKinds, from : Nat, to : Nat, resolution : Resolutions,
   values : Seq([height : Nat, params : [timeout : Nat, retention : Nat]])]

EntryType == [height : Nat, tx : Int, params : [timeout : Nat, retention : Nat], source : Sources]

Write ==
  [file : {"pubs"}, line : PubLine] \cup [file : {"ranges"}, line : RangeLine]
    \cup [file : {"state"}, line : Seq(EntryType)]

ASSUME HoldAssumption ==
  /\ ScannerRuns \subseteq Seq(Write)
  /\ \A run \in ScannerRuns : \A i, j \in DOMAIN run :   \* ParamScanner's PublicationsExactlyOnce
       run[i].file = "pubs" /\ run[j].file = "pubs" /\ run[i].line.id = run[j].line.id => run[i] = run[j]
  /\ RetryPasses \in Nat \ {0} /\ CursorEvery \in Nat \ {0}
  /\ FaultKinds \subseteq {"crash", "error", "rebuild", "strip"} /\ {MaxFaults, MaxCorrections} \subseteq Nat

VARIABLES
  script,       \* external: the scanner's run
  written,      \* external: how much of it the scanner has written
  pubFile, rangeFile, measFile, stateHist,   \* external: the files of the scanner and the prober
  corrFile,     \* corrections.jsonl
  pubs,         \* table publications: id -> row
  ranges,       \* table param_uncertainty: id -> row
  rows,         \* table probes: <<id, point>> -> row (orphan, not in the table: stored
                \* before its publication, and no sync since)
  base,         \* table params_history: a set of entries, one per key
  cur,          \* table ingest_cursors: lines read of each file
  pc,           \* where the pass is
  pos,          \* lines read of the file being read
  asked,        \* passes on which the first unread correction asked to be retried
  todo,         \* ranges this run has still to correct
  now,          \* the range being corrected
  pending,      \* the correction appended and not yet applied
  faults        \* how often each fault has happened

files == <<script, written, pubFile, rangeFile, measFile, stateHist>>
store == <<pubs, ranges, rows, base, cur>>
memory == <<pc, pos, asked, todo, now, pending>>
holdVars == <<files, corrFile, store, memory, faults>>

NoRange == [kind |-> "none", from |-> 0, to |-> 0]
NoLine == [kind |-> "none", range |-> NoRange]

RangeId(u) == [kind |-> u.kind, from |-> u.from, to |-> u.to]

-----------------------------------------------------------------------------
(* What the tables say. *)

CoversPub(r, p) == Covers(r.from, r.to, p.promise, p.settle)

(* Covered by a range that still withholds: CoveredByAHoldingRange. *)
Withheld(p) == \E r \in DOMAIN ranges : ranges[r].holds /\ CoversPub(r, p)

Covered(r) == {i \in DOMAIN pubs : CoversPub(r, pubs[i])}

RowsOf(i) == {k \in DOMAIN rows : k[1] = i}

Stored(k) == k[1] \in DOMAIN pubs

(* StaleDeadline: the row was graded against another deadline than the     *)
(* publication's.                                                          *)
Stale(k) == Stored(k) /\ rows[k].msu # pubs[k[1]].msu

(* params_history ORDER BY height, tx: the nth row has n - 1 before it. *)
History(entries) ==
  [n \in 1 .. Cardinality(entries) |->
     CHOOSE e \in entries : Cardinality({x \in entries : KeyLess(x.height, x.tx, e.height, e.tx)}) = n - 1]

SameKey(a, b) == a.height = b.height /\ a.tx = b.tx

(* A table with one row more, or one row replaced. *)
With(table, k, row) == [x \in DOMAIN table \cup {k} |-> IF x = k THEN row ELSE table[x]]

-----------------------------------------------------------------------------
(* The external files. *)

(* The scanner's next write: a publication, a range, or the history its    *)
(* checkpoint puts in state.json.                                          *)
ScannerWrites ==
  /\ written < Len(script)
  /\ written' = written + 1
  /\ LET w == script[written + 1] IN
     /\ pubFile' = IF w.file = "pubs" THEN Append(pubFile, w.line) ELSE pubFile
     /\ rangeFile' = IF w.file = "ranges" THEN Append(rangeFile, w.line) ELSE rangeFile
     /\ stateHist' = IF w.file = "state" THEN w.line ELSE stateHist
  /\ UNCHANGED <<script, measFile, corrFile, store, memory, faults>>

(* The prober measures a publication on record. The line carries the       *)
(* deadline publications.jsonl gives it, which no correction ever moves.   *)
ProberWrites ==
  /\ \E j \in DOMAIN pubFile, point \in Points :
       LET line == [id |-> pubFile[j].id, point |-> point, msu |-> pubFile[j].msu] IN
       /\ line \notin Range(measFile)
       /\ measFile' = Append(measFile, line)
  /\ UNCHANGED <<script, written, pubFile, rangeFile, stateHist, corrFile, store, memory, faults>>

-----------------------------------------------------------------------------
(* Ingest. *)

FileOf(f) ==
  CASE f = "pubs" -> pubFile
    [] f = "ranges" -> rangeFile
    [] f = "corrs" -> corrFile
    [] f = "meas" -> measFile

After(f) == CASE f = "pubs" -> "ranges" [] f = "ranges" -> "corrs" [] f = "corrs" -> "meas" [] OTHER -> "run"

Goto(step) == pc' = step /\ pos' = IF step \in Range(Files) THEN cur'[step] ELSE 0

Fault(name) ==
  /\ name \in FaultKinds /\ faults.crash + faults.error + faults.rebuild + faults.strip < MaxFaults
  /\ faults' = [faults EXCEPT ![name] = @ + 1]

(* UpsertParams: an entry whose key is stored already is not stored again. *)
IngestState ==
  /\ pc = "state"
  /\ \/ /\ base' = base \cup
             {stateHist[j] : j \in {i \in DOMAIN stateHist :
                /\ \A e \in base : ~SameKey(e, stateHist[i])
                /\ \A k \in 1 .. i - 1 : ~SameKey(stateHist[k], stateHist[i])}}
        /\ UNCHANGED faults
     \/ Fault("error") /\ UNCHANGED base
  /\ UNCHANGED cur /\ Goto("pubs")
  /\ UNCHANGED <<files, corrFile, pubs, ranges, rows, asked, todo, now, pending>>

(* Mutant: a publication is never born held. *)
UpsertUnheld(line) ==
  /\ pubs' = IF line.id \in DOMAIN pubs THEN pubs
             ELSE With(pubs, line.id, [promise |-> line.promise, settle |-> line.settle, tx |-> line.tx,
                                       msu |-> line.msu, stamped |-> line.msu, movedBy |-> {}, held |-> FALSE])
  /\ UNCHANGED <<ranges, rows>>

(* UpsertPublication: born held when a holding range covers it. *)
UpsertPublication(line) ==
  /\ pubs' = IF line.id \in DOMAIN pubs THEN pubs
             ELSE With(pubs, line.id, [promise |-> line.promise, settle |-> line.settle, tx |-> line.tx,
                                       msu |-> line.msu, stamped |-> line.msu, movedBy |-> {}, held |-> Withheld(line)])
  /\ UNCHANGED <<ranges, rows>>

(* Mutant: a second line replaces the row. *)
UpsertedAfresh(line) ==
  [resolution |-> line.resolution, values |-> line.values,
   holds |-> line.kind = "silent_change", corrected |-> FALSE]

(* UpsertParamUncertainty: a second line resolves a range that is not      *)
(* verified yet; a range whose corrections landed does not hold again. The *)
(* rows of everything a holding range covers are held in the same          *)
(* transaction.                                                            *)
Upserted(line) ==
  LET r == RangeId(line)
      row(closed) == [resolution |-> line.resolution, values |-> line.values,
                      holds |-> line.kind = "silent_change" /\ ~closed, corrected |-> closed]
  IN IF r \notin DOMAIN ranges THEN row(FALSE)
     ELSE IF ranges[r].resolution # "verified" /\ line.resolution # "" THEN row(ranges[r].corrected)
     ELSE ranges[r]

UpsertRange(line) ==
  LET row == Upserted(line)
      raised == IF row.holds THEN Covered(RangeId(line)) ELSE {}
  IN /\ ranges' = With(ranges, RangeId(line), row)
     /\ pubs' = [i \in DOMAIN pubs |-> [pubs[i] EXCEPT !.held = @ \/ i \in raised]]
     /\ rows' = [k \in DOMAIN rows |-> [rows[k] EXCEPT !.held = @ \/ k[1] \in raised]]

(* Mutant: a row is never born held. *)
InsertUnheld(line) ==
  LET k == <<line.id, line.point>> IN
  /\ rows' = IF k \in DOMAIN rows THEN rows
             ELSE With(rows, k, [msu |-> line.msu, held |-> FALSE, raw |-> TRUE, fixedFor |-> {},
                                    orphan |-> line.id \notin DOMAIN pubs])
  /\ UNCHANGED <<pubs, ranges>>

(* ProbeHeldAtInsert: its publication is held or covered, or carries       *)
(* another deadline.                                                       *)
HeldAtInsert(line) ==
  /\ line.id \in DOMAIN pubs
  /\ pubs[line.id].held \/ pubs[line.id].msu # line.msu \/ Withheld(pubs[line.id])

InsertProbe(line) ==
  LET k == <<line.id, line.point>>
  IN /\ rows' = IF k \in DOMAIN rows THEN rows
                ELSE With(rows, k, [msu |-> line.msu, held |-> HeldAtInsert(line), raw |-> TRUE, fixedFor |-> {},
                                       orphan |-> line.id \notin DOMAIN pubs])
     /\ UNCHANGED <<pubs, ranges>>

(* Mutant: a moved deadline replaces the one that was stamped. *)
ApplyOverStamped(line) ==
  CASE line.kind = "deadline" ->
         /\ pubs' = [pubs EXCEPT ![line.id].msu = line.to, ![line.id].stamped = line.to]
         /\ UNCHANGED <<ranges, rows>>
    [] line.kind = "complete" ->
         /\ ranges' = [ranges EXCEPT ![line.range].holds = FALSE, ![line.range].corrected = TRUE]
         /\ UNCHANGED <<pubs, rows>>
    [] OTHER -> UNCHANGED <<pubs, ranges, rows>>

(* One line of corrections.jsonl on the tables: ApplyPublicationCorrection, *)
(* ApplyProbeCorrection, MarkRangeCorrected.                               *)
ApplyCorrection(line) ==
  CASE line.kind = "deadline" ->
         /\ pubs' = [pubs EXCEPT ![line.id].msu = line.to, ![line.id].movedBy = @ \cup {line.range}]
         /\ UNCHANGED <<ranges, rows>>
    [] line.kind = "verdict" ->
         /\ rows' = [rows EXCEPT ![<<line.id, line.point>>].msu = line.to,
                                 ![<<line.id, line.point>>].fixedFor = @ \cup {line.range}]
         /\ UNCHANGED <<pubs, ranges>>
    [] line.kind = "complete" ->
         /\ ranges' = [r \in DOMAIN ranges |->
              IF r = line.range /\ ranges[r].resolution = "verified"
              THEN [ranges[r] EXCEPT !.holds = FALSE, !.corrected = TRUE] ELSE ranges[r]]
         /\ UNCHANGED <<pubs, rows>>
    [] OTHER -> UNCHANGED <<pubs, ranges, rows>>     \* a kind nobody writes is stepped over

(* ErrNoSuchRow: what the correction is about is not in the store. *)
NoSuchRow(line) ==
  \/ line.kind = "deadline" /\ line.id \notin DOMAIN pubs
  \/ line.kind = "verdict" /\ <<line.id, line.point>> \notin DOMAIN rows

(* A line of the wrong shape, two lines a torn write has joined: stepped over. *)
Undecodable(line) == pc = "ranges" /\ line.kind = "bad"

Handle(line) ==
  CASE pc = "pubs" -> UpsertPublication(line)
    [] pc = "ranges" -> IF Undecodable(line) THEN UNCHANGED <<pubs, ranges, rows>> ELSE UpsertRange(line)
    [] pc = "corrs" -> ApplyCorrection(line)
    [] pc = "meas" -> InsertProbe(line)

Reading == pc \in Range(Files) /\ pos < Len(FileOf(pc))
Retrying == pc = "corrs" /\ Reading /\ NoSuchRow(corrFile[pos + 1])

(* One line is stored. The cursor is written every CursorEvery lines.      *)
IngestLine ==
  /\ Reading /\ ~Retrying
  /\ Handle(FileOf(pc)[pos + 1])
  /\ pos' = pos + 1
  /\ cur' = IF pos + 1 - cur[pc] >= CursorEvery THEN [cur EXCEPT ![pc] = pos + 1] ELSE cur
  /\ UNCHANGED <<files, corrFile, base, pc, asked, todo, now, pending, faults>>

(* The line asks to be read again on a later pass; once it has asked       *)
(* RetryPasses times it is stepped over.                                   *)
RetryLater ==
  /\ Retrying
  /\ IF asked + 1 < RetryPasses
     THEN /\ asked' = asked + 1
          /\ cur' = [cur EXCEPT ![pc] = pos]
          /\ Goto(After(pc))
     ELSE /\ asked' = 0 /\ pos' = pos + 1
          /\ UNCHANGED <<cur, pc>>
  /\ UNCHANGED <<files, corrFile, pubs, ranges, rows, base, todo, now, pending, faults>>

(* The end of the file: the cursor is written and the pass goes on. *)
EndOfFile ==
  /\ pc \in Range(Files) /\ pos >= Len(FileOf(pc))
  /\ cur' = [cur EXCEPT ![pc] = pos]
  /\ Goto(After(pc))
  /\ UNCHANGED <<files, corrFile, pubs, ranges, rows, base, asked, todo, now, pending, faults>>

(* The store refuses a line, or the cursor's write: the cursor is not past *)
(* the line, and the pass goes on with the next file all the same.         *)
IngestError ==
  /\ pc \in Range(Files)
  /\ Fault("error")
  /\ cur' \in {cur, [cur EXCEPT ![pc] = pos]}
  /\ Goto(After(pc))
  /\ UNCHANGED <<files, corrFile, pubs, ranges, rows, base, asked, todo, now, pending>>

-----------------------------------------------------------------------------
(* correct.Run. *)

Idle == pending = NoLine

(* HoldingRanges, the verified ones. *)
BeginRun ==
  /\ pc = "run"
  /\ todo' = {r \in DOMAIN ranges : ranges[r].holds /\ ranges[r].resolution = "verified"}
  /\ pc' = "pick"
  /\ UNCHANGED <<files, corrFile, store, pos, asked, now, pending, faults>>

(* Ranges are taken in the order of the index they are read through. *)
PickRange ==
  /\ pc = "pick"
  /\ IF todo = {}
     THEN pc' = "sweep" /\ UNCHANGED <<todo, now>>
     ELSE \E r \in todo :
            /\ \A q \in todo : ~KeyLess(q.from, q.to, r.from, r.to)
            /\ now' = r /\ todo' = todo \ {r} /\ pc' = "range"
  /\ UNCHANGED <<files, corrFile, store, pos, asked, pending, faults>>

Resolved(r) == ResolvedHistory(History(base), ranges[r].values)

Reached(r, i) == Reaches(Resolved(r), pubs[i].settle, pubs[i].tx)

Recomputed(r, i) == MustServeUntil(Resolved(r), pubs[i].promise, pubs[i].settle, pubs[i].tx)

Target(r, i) == CorrectedDeadline(pubs[i].stamped, Recomputed(r, i))

(* The publication's deadline is still to move. *)
ToMove(r) == {i \in Covered(r) : Reached(r, i) /\ Target(r, i) < pubs[i].stamped /\ Target(r, i) # pubs[i].msu}

(* The rows still to re-grade: of a publication reached, with their own    *)
(* record, not corrected for this range before, drawn against another      *)
(* deadline.                                                               *)
ToRegrade(r) ==
  {k \in DOMAIN rows :
     /\ k[1] \in Covered(r) /\ Reached(r, k[1])
     /\ r \notin rows[k].fixedFor /\ rows[k].raw
     /\ rows[k].msu # Target(r, k[1])}

(* What keeps a range open: a publication the history does not reach, a    *)
(* row whose own record retention has stripped.                            *)
Unreached(r) ==
  \/ \E i \in Covered(r) : ~Reached(r, i)
  \/ \E k \in DOMAIN rows : k[1] \in Covered(r) /\ r \notin rows[k].fixedFor /\ ~rows[k].raw

(* Publications are taken in the order they settled, each with its rows    *)
(* after it.                                                               *)
Turn(i) ==
  \A j \in ToMove(now) \cup {k[1] : k \in ToRegrade(now)} : pubs[i].settle <= pubs[j].settle

(* Mutant: a correction is applied and not on record. *)
ApplyUnrecorded(line) == pending' = line /\ UNCHANGED corrFile

(* A line is on disk before it is applied. *)
AppendCorrection(line) ==
  /\ Len(corrFile) < MaxCorrections
  /\ corrFile' = Append(corrFile, line)
  /\ pending' = line

MoveDeadline ==
  /\ pc = "range" /\ Idle
  /\ \E i \in ToMove(now) :
       /\ Turn(i)
       /\ AppendCorrection([kind |-> "deadline", range |-> now, id |-> i, to |-> Target(now, i)])
  /\ UNCHANGED <<files, store, pc, pos, asked, todo, now, faults>>

RegradeRow ==
  /\ pc = "range" /\ Idle
  /\ \E k \in ToRegrade(now) :
       /\ Turn(k[1]) /\ k[1] \notin ToMove(now)
       /\ AppendCorrection([kind |-> "verdict", range |-> now, id |-> k[1], point |-> k[2], to |-> Target(now, k[1])])
  /\ UNCHANGED <<files, store, pc, pos, asked, todo, now, faults>>

(* Mutant: the range closes before its deadlines have moved. *)
FinishEarly ==
  /\ pc = "range" /\ Idle
  /\ AppendCorrection([kind |-> "complete", range |-> now])
  /\ UNCHANGED <<files, store, pc, pos, asked, todo, now, faults>>

(* Nothing is left to do for the range: it closes, or stays open over what *)
(* could not be reached.                                                   *)
FinishRange ==
  /\ pc = "range" /\ Idle
  /\ ToMove(now) = {} /\ ToRegrade(now) = {}
  /\ IF Unreached(now)
     THEN pc' = "pick" /\ UNCHANGED <<corrFile, pending>>
     ELSE AppendCorrection([kind |-> "complete", range |-> now]) /\ UNCHANGED pc
  /\ UNCHANGED <<files, store, pos, asked, todo, now, faults>>

(* The appended line is applied. *)
ApplyPending ==
  /\ ~Idle
  /\ ApplyCorrection(pending)
  /\ pending' = NoLine
  /\ pc' = IF pending.kind = "complete" THEN "pick" ELSE pc
  /\ UNCHANGED <<files, corrFile, base, cur, pos, asked, todo, now, faults>>

(* StaleDeadlineRows: the rows of a moved publication with another deadline. *)
ToSweep == {k \in DOMAIN rows : Stale(k) /\ pubs[k[1]].movedBy # {} /\ rows[k].raw}

(* The row's correction names the newest correction of its publication;    *)
(* any of them where one pass made several.                                *)
SweepRow ==
  /\ pc = "sweep" /\ Idle
  /\ \E k \in ToSweep : \E r \in pubs[k[1]].movedBy :
       AppendCorrection([kind |-> "verdict", range |-> r, id |-> k[1], point |-> k[2], to |-> pubs[k[1]].msu])
  /\ UNCHANGED <<files, store, pc, pos, asked, todo, now, faults>>

EndSweep ==
  /\ pc = "sweep" /\ Idle /\ ToSweep = {}
  /\ pc' = "sync"
  /\ UNCHANGED <<files, corrFile, store, pos, asked, todo, now, pending, faults>>

(* An append or a statement of the run fails: the run returns, the pass    *)
(* goes on to the hold sync. A line that was appended is not applied.      *)
RunError ==
  /\ pc \in {"run", "range", "sweep"}
  /\ Fault("error")
  /\ pending' = NoLine /\ pc' = "sync" /\ todo' = {}
  /\ UNCHANGED <<files, corrFile, store, pos, asked, now>>

-----------------------------------------------------------------------------
(* SyncParamHolds, retention, restarts. *)

(* Mutant: a row follows its publication alone, whatever it was drawn against. *)
HoldsFollowPublication ==
  /\ pubs' = [i \in DOMAIN pubs |-> [pubs[i] EXCEPT !.held = Withheld(pubs[i])]]
  /\ rows' = [k \in DOMAIN rows |->
       [rows[k] EXCEPT !.held = Stored(k) /\ pubs'[k[1]].held, !.orphan = ~Stored(k)]]

(* Mutant: a hold is raised and never lifted. *)
HoldsStick ==
  /\ pubs' = [i \in DOMAIN pubs |-> [pubs[i] EXCEPT !.held = @ \/ Withheld(pubs[i])]]
  /\ rows' = [k \in DOMAIN rows |-> [rows[k] EXCEPT !.held = @ \/ (Stored(k) /\ pubs'[k[1]].held), !.orphan = ~Stored(k)]]

(* One transaction: publications first, the rows from them. *)
RecomputeHolds ==
  /\ pubs' = [i \in DOMAIN pubs |-> [pubs[i] EXCEPT !.held = Withheld(pubs[i])]]
  /\ rows' = [k \in DOMAIN rows |->
       [rows[k] EXCEPT
          !.held = Stored(k) /\ (pubs'[k[1]].held \/ (Stale(k) /\ (@ \/ pubs[k[1]].movedBy # {}))),
          !.orphan = ~Stored(k)]]

SyncParamHolds ==
  /\ pc = "sync"
  /\ \/ RecomputeHolds /\ UNCHANGED faults
     \/ Fault("error") /\ UNCHANGED <<pubs, rows>>
  /\ pc' = "retention"
  /\ UNCHANGED <<files, corrFile, ranges, base, cur, pos, asked, todo, now, pending>>

(* Retention strips the record of rows past its age; then the next pass. *)
Retention ==
  /\ pc = "retention"
  /\ \/ UNCHANGED <<rows, faults>>
     \/ /\ \E k \in DOMAIN rows : rows' = [rows EXCEPT ![k].raw = FALSE]
        /\ Fault("strip")
  /\ pc' = "state"
  /\ UNCHANGED <<files, corrFile, pubs, ranges, base, cur, pos, asked, todo, now, pending>>

Restart == pc' = "state" /\ pos' = 0 /\ asked' = 0 /\ todo' = {} /\ now' = NoRange /\ pending' = NoLine

Crash ==
  /\ Fault("crash")
  /\ Restart
  /\ UNCHANGED <<files, corrFile, store>>

EmptyStore ==
  /\ pubs' = <<>> /\ ranges' = <<>> /\ rows' = <<>> /\ base' = {}
  /\ cur' = [f \in Range(Files) |-> 0]

(* The database is deleted and rebuilt from the files, corrections.jsonl   *)
(* among them.                                                             *)
Rebuild ==
  /\ Fault("rebuild")
  /\ EmptyStore /\ Restart
  /\ UNCHANGED <<files, corrFile>>

-----------------------------------------------------------------------------
InitStore ==
  /\ corrFile = <<>>
  /\ pubs = <<>> /\ ranges = <<>> /\ rows = <<>> /\ base = {}
  /\ cur = [f \in Range(Files) |-> 0]
  /\ pc = "state" /\ pos = 0 /\ asked = 0 /\ todo = {} /\ now = NoRange /\ pending = NoLine
  /\ faults = [crash |-> 0, error |-> 0, rebuild |-> 0, strip |-> 0]

Init ==
  /\ script \in ScannerRuns /\ written = 0
  /\ pubFile = <<>> /\ rangeFile = <<>> /\ measFile = <<>> /\ stateHist = <<>>
  /\ InitStore

Pass ==
  \/ IngestState
  \/ IngestLine
  \/ RetryLater
  \/ EndOfFile
  \/ BeginRun
  \/ PickRange
  \/ MoveDeadline
  \/ RegradeRow
  \/ FinishRange
  \/ ApplyPending
  \/ SweepRow
  \/ EndSweep
  \/ SyncParamHolds
  \/ Retention

Failure ==
  \/ IngestError
  \/ RunError
  \/ Crash
  \/ Rebuild

Next == ScannerWrites \/ ProberWrites \/ Pass \/ Failure

Spec == Init /\ [][Next]_holdVars

(* The collector passes for as long as it runs. One step of the pass is    *)
(* enabled in every state, so that Pass is taken again and again is its    *)
(* weak fairness; what fails a pass is bounded.                            *)
FairSpec == Spec /\ []<><<Pass>>_holdVars

-----------------------------------------------------------------------------
(* Properties. *)

(* A publication a holding range covers is held, in every state between two *)
(* transactions: whichever of the two arrived first, and across crashes,   *)
(* store errors and a rebuild.                                             *)
CoveredIsHeld == \A i \in DOMAIN pubs : Withheld(pubs[i]) => pubs[i].held

(* The rows of a held publication are held with it. A row that was stored  *)
(* before its publication is the exception, until the next sync.           *)
HeldWithPublication ==
  \A k \in DOMAIN rows : Stored(k) /\ pubs[k[1]].held /\ ~rows[k].orphan => rows[k].held

(* The row is withheld, or was graded against its publication's deadline.  *)
(* Rows stored before their publication aside.                             *)
Agrees(k) == Stored(k) /\ ~rows[k].orphan => rows[k].held \/ ~Stale(k)

(* SYSTEM.md:482 "A probe row's deadline equals its publication's, or the  *)
(* row is withheld."                                                       *)
AgreesOrWithheld == \A k \in DOMAIN rows : Agrees(k)

(* The step may read a correction of the publication again, or of its rows, *)
(* and no range in the store withholds the publication.                    *)
Replays(i) ==
  /\ pc = "corrs" /\ pos < Len(corrFile)
  /\ corrFile[pos + 1].kind \in {"deadline", "verdict"} /\ corrFile[pos + 1].id = i
  /\ i \in DOMAIN pubs => ~Withheld(pubs[i])

(* A row whose correction was read before its publication was stored. *)
RegradedEarly(k) == rows[k].orphan /\ rows[k].fixedFor # {}

(* Only corrections.jsonl read again can publish a row against another     *)
(* deadline than its publication's: no line of another file does, whatever *)
(* order they arrive in, no correction of this run, no sync, no error and  *)
(* no restart.                                                             *)
OnlyReplayPublishesStale ==
  [][\A k \in DOMAIN rows' :
       ~Agrees(k)' => \/ k \in DOMAIN rows /\ (~Agrees(k) \/ RegradedEarly(k))
                      \/ Replays(k[1])]_holdVars

(* Nothing the corrector decided is in the tables alone: a closed range, a *)
(* moved deadline and a re-graded row each have their line in              *)
(* corrections.jsonl, so that a database rebuilt from the files reaches    *)
(* them again.                                                             *)
DecisionsOnRecord ==
  /\ \A r \in DOMAIN ranges :
       ranges[r].corrected => \E c \in Range(corrFile) : c.kind = "complete" /\ c.range = r
  /\ \A i \in DOMAIN pubs :
       pubs[i].msu # pubs[i].stamped =>
         \E c \in Range(corrFile) : c.kind = "deadline" /\ c.id = i /\ c.to = pubs[i].msu
  /\ \A k \in DOMAIN rows :
       rows[k].fixedFor # {} =>
         \E c \in Range(corrFile) : c.kind = "verdict" /\ <<c.id, c.point>> = k /\ c.to = rows[k].msu

(* When the corrector closes a range, every publication stored by then and *)
(* covered by it has a deadline no later than the range proves, and every  *)
(* row of theirs is held or drawn against that deadline (rows stored before *)
(* their publication aside).                                               *)
RangeClosesOnlyWhenApplied ==
  [][\A r \in DOMAIN ranges :
       pc = "range" /\ r \in DOMAIN ranges' /\ ranges[r].holds /\ ~ranges'[r].holds =>
         \A i \in Covered(r) :
           /\ pubs[i].msu <= Recomputed(r, i)
           /\ \A k \in RowsOf(i) : rows[k].held \/ rows[k].orphan \/ rows[k].msu <= Recomputed(r, i)]_holdVars

(* A range that was closed never withholds again, and a verified one keeps *)
(* its values, whatever lines are read again; only a rebuilt database      *)
(* starts over.                                                            *)
RangeNeverReopened ==
  [][faults'.rebuild = faults.rebuild =>
       \A r \in DOMAIN ranges :
         /\ r \in DOMAIN ranges'
         /\ ranges[r].corrected => ranges'[r].corrected /\ ~ranges'[r].holds
         /\ ranges[r].resolution = "verified" => ranges'[r].resolution = "verified" /\ ranges'[r].values = ranges[r].values]_holdVars

(* SYSTEM.md:504 "No verdict is published against a deadline the observer  *)
(* cannot vouch for": a publication that is not held has a deadline no     *)
(* later than every closed range over it proves.                           *)
ReleasedDeadlineIsProven ==
  \A i \in DOMAIN pubs, r \in DOMAIN ranges :
    ranges[r].corrected /\ i \in Covered(r) /\ ~pubs[i].held => pubs[i].msu <= Recomputed(r, i)

(* store/uncertainty.go:313 "the flag cannot drift and cannot stick": once *)
(* every range over a publication has closed, each of its rows is released. *)
HoldsEventuallyLift ==
  \A k \in PubIds \X Points :
    (k \in DOMAIN rows /\ Stored(k) /\ rows[k].held)
      ~> (k \in DOMAIN rows /\ (~rows[k].held \/ Withheld(pubs[k[1]])))
=============================================================================
