---------------------------- MODULE ParamScanner ----------------------------
(***************************************************************************)
(* The chain scanner's params bookkeeping: internal/scan/scanner.go with   *)
(* internal/scan/store.go. It follows blocks, learns params changes from   *)
(* events, stamps publications with a deadline, re-reads the params from   *)
(* state every RecEvery blocks, records the heights it was blind over      *)
(* (param_uncertainty.jsonl), checkpoints (state.json) and restarts from   *)
(* the last checkpoint.                                                    *)
(*                                                                         *)
(* The chain is external. A block is drawn when the scanner reaches it:    *)
(* nothing in the observer reads a block before that, and a re-scan after  *)
(* a crash finds the same one. It holds at most one params change and one  *)
(* settlement.                                                             *)
(***************************************************************************)
EXTENDS ParamHistory, FiniteSetsExt, SequencesExt

CONSTANTS
  PubIds,            \* publications the chain may settle
  ParamValues,       \* params values: records [timeout, retention]
  StartHeight,       \* the first height scanned; its predecessor is chain[StartHeight - 1]
  MaxHeight,         \* bound: the last height the chain produces
  RecEvery,          \* paramReconcileEvery
  CheckpointEvery,   \* cfg.CheckpointEvery: blocks between checkpoints away from the tip
  EventTx,           \* tx index of a params update
  PubTxs,            \* tx indexes a publication may settle at
  ChangeKinds,       \* the kinds of params change the chain may make, besides none
  FaultKinds,        \* which may happen: "crash" (a restart of the scanner), "read" (a state read
                     \* that fails), "write" (a failed append to param_uncertainty.jsonl), "gap"
                     \* (a block the node cannot serve)
  MaxFaults,         \* bound: how many of them happen in all
  PartialWrites      \* whether a failed append may leave part of its line in the file

ASSUME ScannerAssumption ==
  /\ StartHeight \in Nat /\ StartHeight > 1
  /\ MaxHeight \in Nat /\ RecEvery \in Nat \ {0} /\ CheckpointEvery \in Nat \ {0}
  /\ EventTx \in 0 .. EndOfBlock - 1 /\ PubTxs \subseteq 0 .. EndOfBlock - 1
  /\ ParamValues \subseteq [timeout : Nat, retention : Nat] /\ ParamValues # {}
  /\ ChangeKinds \subseteq {"tx", "finalize", "silent"}
  /\ FaultKinds \subseteq {"crash", "read", "write", "gap"} /\ MaxFaults \in Nat
  /\ PartialWrites \in BOOLEAN

VARIABLES
  chain,        \* external: the blocks so far, indexed by height
  next,         \* the height being processed
  pc,           \* where the scan loop is: "block", "reconcile", "checkpoint"
  hist,         \* s.params
  lastRec,      \* s.lastReconcile (0: never)
  failing,      \* s.reconcileFailingSince (0: the last check read state)
  gaps,         \* s.gaps: heights recorded as a scan gap
  sinceCkpt,    \* blocks since the last checkpoint
  state,        \* state.json
  pubFile,      \* publications.jsonl
  rangeFile,    \* param_uncertainty.jsonl
  torn,         \* a partial line ends param_uncertainty.jsonl
  faults        \* how often each bounded fault has happened, and at which heights a gap

memory == <<next, pc, hist, lastRec, failing, gaps, sinceCkpt>>
scannerVars == <<chain, memory, state, pubFile, rangeFile, torn, faults>>

\* What a reader finds where two lines were joined by a torn write.
BadLine == [kind |-> "bad", from |-> 1, to |-> 1, resolution |-> "", values |-> <<>>]

-----------------------------------------------------------------------------
(* The chain. *)

Settled == UNION {chain[h].pubs : h \in DOMAIN chain}
SettledIds == {p.id : p \in Settled}

(* The params after block h. *)
StateAt(h) == chain[h].params

(* A publication's promise is from after the scan's start: for an older one *)
(* the history has only the settlement's params, a limit the code states.  *)
Settlements(h) ==
  {{}} \cup {{s} : s \in [id : PubIds \ SettledIds, promise : StartHeight + 1 .. h, tx : PubTxs]}

NewBlock ==
  /\ Len(chain) < next /\ Len(chain) < MaxHeight
  /\ LET h == Len(chain) + 1 IN
     \E change \in {"none"} \cup ChangeKinds, v \in ParamValues, settled \in Settlements(h) :
       /\ change = "none" <=> v = StateAt(h - 1)
       /\ chain' = Append(chain, [change |-> change, params |-> v, pubs |-> settled])
  /\ UNCHANGED <<memory, state, pubFile, rangeFile, torn, faults>>

-----------------------------------------------------------------------------
(* processBlock. *)

FaultsLeft == MaxFaults - (faults.crash + faults.read + faults.write + Cardinality(faults.gap))

Fault(name) ==
  /\ name \in FaultKinds /\ FaultsLeft > 0
  /\ faults' = [faults EXCEPT ![name] = @ + 1]

(* The params update a block announces goes into the history before any    *)
(* publication of the block is stamped.                                    *)
Learn(h) ==
  CASE chain[h].change = "tx"       -> AddTxEvent(hist, h, EventTx, chain[h].params)
    [] chain[h].change = "finalize" -> AddFinalizeEvent(hist, h, chain[h].params)
    [] OTHER                        -> hist

Seen == {pubFile[j].id : j \in DOMAIN pubFile}

Stamp(hst, h, s) ==
  [id |-> s.id, promise |-> s.promise, settle |-> h, tx |-> s.tx,
   msu |-> MustServeUntil(hst, s.promise, h, s.tx)]

AfterBlock == pc' = IF next % RecEvery = 0 THEN "reconcile" ELSE "checkpoint"

(* Mutant: a settlement is recorded again when its block is scanned again. *)
ScanAgain ==
  /\ pc = "block" /\ next <= Len(chain)
  /\ hist' = Learn(next)
  /\ pubFile' = pubFile \o SetToSeq({Stamp(hist', next, s) : s \in chain[next].pubs})
  /\ AfterBlock
  /\ UNCHANGED <<chain, next, lastRec, failing, gaps, sinceCkpt, state, rangeFile, torn, faults>>

(* The block is read: its params event is learnt and every settlement not  *)
(* on record already is stamped and appended.                              *)
ScanBlock ==
  /\ pc = "block" /\ next <= Len(chain)
  /\ hist' = Learn(next)
  /\ pubFile' = pubFile \o SetToSeq({Stamp(hist', next, s) : s \in {p \in chain[next].pubs : p.id \notin Seen}})
  /\ AfterBlock
  /\ UNCHANGED <<chain, next, lastRec, failing, gaps, sinceCkpt, state, rangeFile, torn, faults>>

(* The node cannot serve the block: nothing of it is read, and the height  *)
(* is a gap. Or it serves the block and not the validator set at the       *)
(* promise height: the events are read, the publication is not recorded.   *)
ScanGap ==
  /\ pc = "block" /\ next <= Len(chain) /\ "gap" \in FaultKinds /\ FaultsLeft > 0
  /\ \/ hist' = hist
     \/ hist' = Learn(next) /\ \E p \in chain[next].pubs : p.id \notin Seen
  /\ gaps' = gaps \cup {next}
  /\ AfterBlock
  /\ faults' = [faults EXCEPT !.gap = @ \cup {next}]
  /\ UNCHANGED <<chain, next, lastRec, failing, sinceCkpt, state, pubFile, rangeFile, torn>>

-----------------------------------------------------------------------------
(* reconcileParams. *)

(* Mutant: a range takes in the height the check before it read. *)
SinceInclusive == IF lastRec = 0 THEN StartHeight - 1 ELSE lastRec - 1

(* The last check that read state; the scan's start when there was none.   *)
Since == IF lastRec = 0 THEN StartHeight - 1 ELSE lastRec

(* One fsynced line. A partial line already at the end of the file has no  *)
(* newline, so the new one is written onto it and neither can be decoded.  *)
AppendRange(u) ==
  /\ rangeFile' = Append(rangeFile, IF torn THEN BadLine ELSE u)
  /\ torn' = FALSE

(* The append fails. A write the disk cut short has left part of its line. *)
AppendFails ==
  /\ Fault("write")
  /\ torn' \in {torn} \cup (IF PartialWrites THEN {TRUE} ELSE {})
  /\ UNCHANGED rangeFile

(* resolveUncertainty: the params after every height of from-1..to, equal  *)
(* consecutive answers collapsed; or nothing, when one height cannot be    *)
(* read (or the range is longer than one pass may read).                   *)
ProvenValues(from, to) ==
  LET value(h) == [height |-> h, params |-> StateAt(h)]
      upTo[h \in from - 1 .. to] ==
        IF h = from - 1 THEN <<value(h)>>
        ELSE IF StateAt(h) = StateAt(h - 1) THEN upTo[h - 1] ELSE Append(upTo[h - 1], value(h))
  IN  upTo[to]

SilentChange(h, resolution) ==
  [kind |-> "silent_change", from |-> Since + 1, to |-> h, resolution |-> resolution,
   values |-> IF resolution = "verified" THEN ProvenValues(Since + 1, h) ELSE <<>>]

CheckSkipped(h) ==
  [kind |-> "check_skipped", from |-> Since + 1, to |-> h, resolution |-> "", values |-> <<>>]

Reconciled == pc' = "checkpoint" /\ UNCHANGED <<chain, next, gaps, sinceCkpt, state, pubFile>>

(* The state read fails: the marker stays where it is, and the stretch is  *)
(* recorded once per run of failures.                                      *)
ReconcileSkipped ==
  /\ pc = "reconcile"
  /\ IF failing # 0
     THEN Fault("read") /\ UNCHANGED <<rangeFile, torn, failing>>
     ELSE \/ /\ AppendRange(CheckSkipped(next)) /\ failing' = Since + 1
             /\ Fault("read")
          \/ /\ {"read", "write"} \subseteq FaultKinds /\ FaultsLeft > 1
             /\ faults' = [faults EXCEPT !.read = @ + 1, !.write = @ + 1]
             /\ torn' \in {torn} \cup (IF PartialWrites THEN {TRUE} ELSE {})
             /\ UNCHANGED <<rangeFile, failing>>
  /\ Reconciled
  /\ UNCHANGED <<hist, lastRec>>

(* State and history agree at this height. *)
Agrees == At(hist, next, EndOfBlock) # NoEntry /\ At(hist, next, EndOfBlock).params = StateAt(next)

ReconcileAgrees ==
  /\ pc = "reconcile" /\ Agrees
  /\ lastRec' = next /\ failing' = 0
  /\ Reconciled
  /\ UNCHANGED <<hist, rangeFile, torn, faults>>

(* Mutant: the range is recorded and the history is not corrected. *)
DiffersForgotten ==
  /\ pc = "reconcile" /\ ~Agrees
  /\ \E resolution \in {"verified", "unresolvable"} : AppendRange(SilentChange(next, resolution))
  /\ lastRec' = next /\ failing' = 0
  /\ Reconciled
  /\ UNCHANGED <<hist, faults>>

(* They differ: the range is recorded first, and only then do the history  *)
(* and the marker move.                                                    *)
ReconcileDiffers ==
  /\ pc = "reconcile" /\ ~Agrees
  /\ \E resolution \in {"verified", "unresolvable"} :
       LET u == SilentChange(next, resolution) IN
       /\ AppendRange(u)
       /\ hist' = ResolvedHistory(Add(hist, next + 1, -1, "reconcile", StateAt(next)), u.values)
  /\ lastRec' = next /\ failing' = 0
  /\ Reconciled
  /\ UNCHANGED faults

(* Mutant: the history moves although the range is not on record. *)
UnrecordedMovesOn ==
  /\ pc = "reconcile" /\ ~Agrees
  /\ AppendFails
  /\ hist' = Add(hist, next + 1, -1, "reconcile", StateAt(next))
  /\ lastRec' = next /\ failing' = 0
  /\ Reconciled

(* They differ and the record of it cannot be written. *)
ReconcileUnrecorded ==
  /\ pc = "reconcile" /\ ~Agrees
  /\ AppendFails
  /\ failing' = 0
  /\ Reconciled
  /\ UNCHANGED <<hist, lastRec>>

-----------------------------------------------------------------------------
(* The checkpoint and the restart. *)

Snapshot(last) == [last |-> last, hist |-> hist, lastRec |-> lastRec, failing |-> failing, gaps |-> gaps]

(* The block is done. A checkpoint follows every CheckpointEvery blocks, and *)
(* every block at the tip.                                                 *)
Checkpoint ==
  /\ pc = "checkpoint"
  /\ state' = Snapshot(next)
  /\ sinceCkpt' = 0
  /\ next' = next + 1 /\ pc' = "block"
  /\ UNCHANGED <<chain, hist, lastRec, failing, gaps, pubFile, rangeFile, torn, faults>>

(* Away from the tip, a block that is done is only counted. *)
CatchUp ==
  /\ pc = "checkpoint"
  /\ sinceCkpt + 1 < CheckpointEvery
  /\ sinceCkpt' = sinceCkpt + 1
  /\ next' = next + 1 /\ pc' = "block"
  /\ UNCHANGED <<chain, hist, lastRec, failing, gaps, state, pubFile, rangeFile, torn, faults>>

(* The process dies and resumes from state.json; what it appended stays. It *)
(* may die inside an append.                                               *)
Crash ==
  /\ Fault("crash")
  /\ next' = state.last + 1 /\ pc' = "block" /\ sinceCkpt' = 0
  /\ hist' = state.hist /\ lastRec' = state.lastRec /\ failing' = state.failing
  /\ gaps' = state.gaps
  /\ torn' \in {torn} \cup (IF PartialWrites /\ pc = "reconcile" THEN {TRUE} ELSE {})
  /\ UNCHANGED <<chain, state, pubFile, rangeFile>>

-----------------------------------------------------------------------------
Init ==
  /\ \E v \in ParamValues :
       /\ chain = [h \in 1 .. StartHeight - 1 |-> [change |-> "none", params |-> v, pubs |-> {}]]
       /\ hist = NewParamHistory(StartHeight, v)
  /\ next = StartHeight /\ pc = "block"
  /\ lastRec = 0 /\ failing = 0 /\ gaps = {} /\ sinceCkpt = 0
  /\ state = Snapshot(StartHeight - 1)
  /\ pubFile = <<>> /\ rangeFile = <<>> /\ torn = FALSE
  /\ faults = [crash |-> 0, read |-> 0, write |-> 0, gap |-> {}]

Next ==
  \/ NewBlock
  \/ ScanBlock
  \/ ScanGap
  \/ ReconcileSkipped
  \/ ReconcileAgrees
  \/ ReconcileDiffers
  \/ ReconcileUnrecorded
  \/ Checkpoint
  \/ CatchUp
  \/ Crash

Spec == Init /\ [][Next]_scannerVars

-----------------------------------------------------------------------------
(* Properties. *)

SilentRanges == {u \in Range(rangeFile) : u.kind = "silent_change"}

(* The earliest deadline the server could have used: it reads the params of *)
(* a committed block, somewhere between the promise and the settlement.    *)
ServerDeadline(p) == Min({Window(StateAt(k)) : k \in p.promise - 1 .. p.settle - 1})

(* Everything the scanner could have known about the params up to height h *)
(* was announced by an event in a block it read.                           *)
AllAnnounced(h) == \A k \in 1 .. h : chain[k].change # "silent" /\ k \notin faults.gap

(* A value the history took from a state read is backed by a readable line *)
(* of param_uncertainty.jsonl, in memory and in state.json alike: nothing  *)
(* may move past a range until the range is on disk.                       *)
HistoryNeverAheadOfRecord ==
  \A hst \in {hist, state.hist} : \A e \in Range(hst) :
    /\ e.source = "reconcile" => \E u \in SilentRanges : u.to + 1 = e.height
    /\ e.source = "verified" =>
         \E u \in SilentRanges : \E v \in Range(u.values) : v.height = e.height /\ v.params = e.params

(* The block before the promise announced a change in FinalizeBlock and the *)
(* promise's block replaced it: no candidate of the deadline is the value  *)
(* between the two.                                                        *)
ReplacedAtPromise(p) == chain[p.promise - 1].change = "finalize" /\ chain[p.promise].change = "tx"

(* A range over it that could not be read again.  A check reads the state  *)
(* after its block and compares it with the history up to the end of the   *)
(* block, where a FinalizeBlock change is not in force yet: such a range   *)
(* may be on record although every change was announced.                   *)
LeftUnresolved(p) ==
  \E u \in SilentRanges : u.resolution # "verified" /\ Covers(u.from, u.to, p.promise, p.settle)

(* Where every params change was announced, no deadline is later than the  *)
(* earliest one the server could have used, wherever in the promise's      *)
(* interval the upload fell and however the scanner crashed and re-scanned, *)
(* unless the record says the params of that time were not established, and *)
(* the collector withholds what was read.                                  *)
StampNeverLate ==
  \A p \in Range(pubFile) :
    AllAnnounced(p.settle) /\ ~ReplacedAtPromise(p) /\ ~LeftUnresolved(p) => p.msu <= ServerDeadline(p)

(* A settlement is recorded once, however often its block is scanned, and  *)
(* none behind the checkpoint is missing unless its block is a gap.        *)
PublicationsExactlyOnce ==
  /\ \A i, j \in DOMAIN pubFile : pubFile[i].id = pubFile[j].id => i = j
  /\ \A h \in 1 .. state.last : \A s \in chain[h].pubs :
       s.id \in Seen \/ h \in state.gaps

(* A process that has not crashed never records two silent-change ranges   *)
(* that overlap: each range starts past the last check that read state.    *)
RangesDisjointWithoutCrash ==
  faults.crash = 0 =>
    \A i, j \in DOMAIN rangeFile :
      i < j /\ {rangeFile[i].kind, rangeFile[j].kind} = {"silent_change"} => rangeFile[i].to < rangeFile[j].from
=============================================================================
