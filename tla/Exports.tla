------------------------------ MODULE Exports ------------------------------
(***************************************************************************)
(* observer/export: every finished day becomes a tarball of the lines that *)
(* reached the record files for it, with a digest beside it, a signature,  *)
(* and an entry in the index.  Each is a file of its own, replaced         *)
(* atomically; state.json, which says how far the files were read, is the  *)
(* last of them, and a day interrupted before it is built again.           *)
(*                                                                         *)
(* An export stands for its bytes: two builds of one day differ, because   *)
(* the manifest and the tar headers carry the time of the build.           *)
(***************************************************************************)
EXTENDS Naturals, Sequences, FiniteSets, Functions

CONSTANTS
  Files, Capacity,  \* record files, and how many lines of each there may be
  DayLength, ExportHour,  \* a day, and the grace after it before it is exported
  LastDay,
  MaxAhead,         \* by how many days a clock may have stepped ahead
  Keys,             \* signing keys an operator may configure, in turn
  MaxInterrupts     \* builds interrupted, and restarts

ASSUME ExportsAssumption ==
  /\ Capacity \in [Files -> Nat] /\ LastDay \in Nat /\ MaxAhead \in Nat /\ MaxInterrupts \in Nat
  /\ DayLength \in Nat \ {0} /\ ExportHour \in 0 .. DayLength - 1
  /\ 0 \notin Keys

VARIABLES
  instant,
  file,      \* record file -> its lines
  tar, side, sig, \* day -> tarball, .sha256 and .sig in the exports directory
  index,     \* index.json: day -> entry
  keys,      \* signing-keys.json
  saved,     \* state.json
  run,       \* the build in progress
  key,       \* the signer the process was started with
  builds,    \* builds so far
  finished,  \* history: the days whose state was saved
  interrupted

record == <<instant, file>>
exportDir == <<tar, side, sig, index, keys, saved>>
exportVars == <<record, exportDir, run, key, builds, finished, interrupted>>

NoKey == 0
NoDay == 0
Undated == 0
Idle == [at |-> "idle"]
Put(table, d, x) == [e \in DOMAIN table \cup {d} |-> IF e = d THEN x ELSE table[e]]

DayOf(t) == t \div DayLength
Today == DayOf(instant)

----------------------------------------------------------------------------
(* The record.  A build reads it at once: what happens while its files are *)
(* written is what happens after them.                                     *)

NotWriting == run.at \in {"idle", "next"}

Tick ==
  /\ Today <= LastDay /\ NotWriting
  /\ instant' = instant + 1
  /\ UNCHANGED <<file, exportDir, run, key, builds, finished, interrupted>>

(* A line may be dated by a clock that stepped ahead, a little or a lot,   *)
(* or carry no date; a late one is read as that is.                        *)
Dates == {Undated} \cup Today .. Today + MaxAhead

AppendLine(f) ==
  /\ Len(file[f]) < Capacity[f] /\ Today <= LastDay /\ NotWriting
  /\ \E d \in Dates : file' = [file EXCEPT ![f] = @ \o <<[day |-> d, written |-> Today]>>]
  /\ UNCHANGED <<instant, exportDir, run, key, builds, finished, interrupted>>

----------------------------------------------------------------------------
(* One day. *)

(* Mutant: every later date ends it. *)
BelongsToAnyLater(line, day) == line.day > day

(* A line of the next day ends what is read for this one.  One dated even  *)
(* later is dated by a clock that stepped: no export would ever reach it.  *)
BelongsLater(line, day) == line.day = day + 1

Collect(f, day, from) ==
  LET later == {i \in from + 1 .. Len(file[f]) : BelongsLater(file[f][i], day)}
  IN  IF later = {} THEN Len(file[f]) ELSE (CHOOSE i \in later : \A j \in later : i <= j) - 1

Due(day, t) == day + 1 <= DayOf(t) /\ t >= (day + 1) * DayLength + ExportHour

(* A first run builds the newest day that is due, with everything older.   *)
FirstDue(t) == IF saved.last = NoDay THEN DayOf(t - ExportHour) - 1 ELSE saved.last + 1

Export(day) ==
  [day |-> day, build |-> builds + 1, from |-> saved.offsets,
   to |-> [f \in Files |-> Collect(f, day, saved.offsets[f])]]

(* Mutant: the state is written before the files it speaks of. *)
BuildSavesFirst(day, t) ==
  /\ run' = [at |-> "tarball", day |-> day, now |-> t, of |-> Export(day)]
  /\ builds' = builds + 1
  /\ saved' = [last |-> day, offsets |-> Export(day).to]
  /\ UNCHANGED <<record, tar, side, sig, index, keys, key, finished, interrupted>>

Build(day, t) ==
  /\ run' = [at |-> "tarball", day |-> day, now |-> t, of |-> Export(day)]
  /\ builds' = builds + 1
  /\ UNCHANGED <<record, exportDir, key, finished, interrupted>>

BeginRun ==
  /\ run = Idle /\ FirstDue(instant) > NoDay /\ Due(FirstDue(instant), instant)
  /\ Build(FirstDue(instant), instant)

(* Days are built up to yesterday, as of the start of the run. *)
NextDay == run.at = "next" /\ Due(run.day + 1, run.now) /\ Build(run.day + 1, run.now)
EndRun ==
  /\ run.at = "next" /\ ~Due(run.day + 1, run.now)
  /\ run' = Idle
  /\ UNCHANGED <<record, exportDir, key, builds, finished, interrupted>>

Then(step) == run' = [run EXCEPT !.at = step] /\ UNCHANGED <<record, key, builds, interrupted>>

PutTarball ==
  /\ run.at = "tarball"
  /\ tar' = Put(tar, run.day, run.of)
  /\ Then("sidecar") /\ UNCHANGED <<side, sig, index, keys, saved, finished>>

PutSidecar ==
  /\ run.at = "sidecar"
  /\ side' = Put(side, run.day, run.of)
  /\ Then(IF key = NoKey THEN "index" ELSE "key") /\ UNCHANGED <<tar, sig, index, keys, saved, finished>>

(* recordSigningKey: the newest last day first, the key signing now on a tie. *)
Widened ==
  IF \E i \in DOMAIN keys : keys[i].key = key
  THEN [i \in DOMAIN keys |->
          IF keys[i].key = key /\ keys[i].last < run.day THEN [keys[i] EXCEPT !.last = run.day] ELSE keys[i]]
  ELSE keys \o <<[key |-> key, last |-> run.day]>>

(* Mutant: no rule for a tie. *)
NewerByDay(a, b) == a.last > b.last \/ (a.last = b.last /\ a.key < b.key)

Newer(a, b) == a.last > b.last \/ (a.last = b.last /\ a.key = key /\ b.key # key)

(* A stable sort of s takes its elements in the order of place. *)
Sorts(place, s) ==
  \A i, j \in DOMAIN s : i < j =>
    /\ ~Newer(s[place[j]], s[place[i]])
    /\ Newer(s[place[i]], s[place[j]]) \/ place[i] < place[j]

RecordKey ==
  /\ run.at = "key"
  /\ \E place \in Bijection(DOMAIN Widened, DOMAIN Widened) :
       Sorts(place, Widened) /\ keys' = [i \in DOMAIN Widened |-> Widened[place[i]]]
  /\ Then("signature") /\ UNCHANGED <<tar, side, sig, index, saved, finished>>

(* Mutant: a signature that is there is left. *)
PutSignatureOnce ==
  /\ run.at = "signature"
  /\ sig' = IF run.day \in DOMAIN sig THEN sig ELSE Put(sig, run.day, [of |-> run.of, key |-> key])
  /\ Then("index") /\ UNCHANGED <<tar, side, index, keys, saved, finished>>

PutSignature ==
  /\ run.at = "signature"
  /\ sig' = Put(sig, run.day, [of |-> run.of, key |-> key])
  /\ Then("index") /\ UNCHANGED <<tar, side, index, keys, saved, finished>>

PutIndex ==
  /\ run.at = "index"
  /\ index' = Put(index, run.day, [of |-> run.of, key |-> key])
  /\ Then("state") /\ UNCHANGED <<tar, side, sig, keys, saved, finished>>

SaveState ==
  /\ run.at = "state"
  /\ saved' = [last |-> run.day, offsets |-> run.of.to]
  /\ finished' = finished \cup {run.day}
  /\ Then("next") /\ UNCHANGED <<tar, side, sig, index, keys>>

----------------------------------------------------------------------------
(* The process dies, or a write fails and the run returns; it may come     *)
(* back with another key.  Signing is not switched off again.              *)
Interrupt ==
  /\ run # Idle /\ interrupted < MaxInterrupts
  /\ run' = Idle /\ key' = key /\ interrupted' = interrupted + 1
  /\ UNCHANGED <<record, exportDir, builds, finished>>

Restart ==
  /\ interrupted < MaxInterrupts
  /\ run' = Idle /\ key' \in Keys /\ interrupted' = interrupted + 1
  /\ UNCHANGED <<record, exportDir, builds, finished>>

Init ==
  /\ instant = DayLength /\ file = [f \in Files |-> <<>>]
  /\ tar = <<>> /\ side = <<>> /\ sig = <<>> /\ index = <<>> /\ keys = <<>>
  /\ saved = [last |-> NoDay, offsets |-> [f \in Files |-> 0]]
  /\ run = Idle /\ key \in Keys \cup {NoKey} /\ builds = 0 /\ finished = {} /\ interrupted = 0

Next ==
  \/ Tick \/ \E f \in Files : AppendLine(f)
  \/ BeginRun \/ NextDay \/ EndRun
  \/ PutTarball \/ PutSidecar \/ RecordKey \/ PutSignature \/ PutIndex \/ SaveState
  \/ Interrupt \/ Restart

Spec == Init /\ [][Next]_exportVars

----------------------------------------------------------------------------
(* Properties.  A day is finished when its state was saved. *)

(* Every line read is in exactly one finished export, and none behind the  *)
(* offset is in two or in none (export.go, rule: "every line of every      *)
(* source file is in exactly one export").                                 *)
ExactlyOneExport ==
  \A f \in Files : \A i \in 1..Capacity[f] :
    Cardinality({d \in finished : tar[d].from[f] < i /\ i <= tar[d].to[f]}) = (IF i <= saved.offsets[f] THEN 1 ELSE 0)

(* A file is never held up for good: the line a finished export stopped at *)
(* is dated the very next day, so that the next export takes it, whatever  *)
(* the dates before it and however the builds were interrupted (export.go, *)
(* collect: a forward clock step "froze this file's offset").              *)
NoLineIsStuck ==
  \A f \in Files : LET first == saved.offsets[f] + 1 IN
    first \in DOMAIN file[f] /\ file[f][first].written <= saved.last => file[f][first].day = saved.last + 1

(* sentinel-verify-export passes: the digest beside the tarball, the one   *)
(* in the index and the one signed are its own, and the key is published.  *)
Published(k) == \E i \in DOMAIN keys : keys[i].key = k
VerifySignature(d) == sig[d].of = tar[d] /\ Published(sig[d].key)
Passes(d) ==
  /\ side[d] = tar[d] /\ index[d].of = tar[d]
  /\ d \in DOMAIN sig => VerifySignature(d)
  /\ index[d].key # NoKey => d \in DOMAIN sig /\ sig[d].key = index[d].key

(* It passes for every finished day, however often its build was           *)
(* interrupted and by whichever key it was signed first; and at any moment *)
(* the index names no key the directory does not publish.                  *)
ExportsVerify ==
  /\ \A d \in finished : Passes(d)
  /\ \A d \in DOMAIN index : index[d].key # NoKey => Published(index[d].key)

(* The key the API calls current is the one that signed the newest signed  *)
(* export (exports_signing.go), across rotations and rebuilds, while no    *)
(* build is unfinished.                                                    *)
Current == keys[1].key
Signed == {d \in DOMAIN index : index[d].key # NoKey}
CurrentKeySignedNewest ==
  run = Idle /\ Signed # {} /\ (\A d \in DOMAIN tar : d \in finished) =>
    Current = index[CHOOSE d \in Signed : \A e \in Signed : e <= d].key
=============================================================================
