------------------------- MODULE ParamScannerProofs -------------------------
(***************************************************************************)
(* What holds of the scanner for every chain, every set of publications    *)
(* and every bound on its faults: a settlement is recorded exactly once    *)
(* however often it is scanned, two silent-change ranges of a process that *)
(* never restarted do not overlap, no value from a read of state is ahead  *)
(* of its range on record, and no deadline is stamped too late where every *)
(* change was announced.  And of the pipeline: it runs this scanner, and   *)
(* what the collector has stored are lines of the scanner's files.         *)
(***************************************************************************)
EXTENDS ParamPipeline, ParamHistoryProofs

-----------------------------------------------------------------------------
(* The scanner. *)

IsSeq(s) == s \in Seq(Range(s))

-----------------------------------------------------------------------------
(* Sequences built by appending, and from a set of at most one element. *)

LEMMA AppendToSeq ==
  ASSUME NEW s, IsSeq(s), NEW e
  PROVE  /\ IsSeq(Append(s, e)) /\ Len(s) \in Nat /\ Len(Append(s, e)) = Len(s) + 1
         /\ DOMAIN s = 1 .. Len(s) /\ DOMAIN Append(s, e) = 1 .. Len(s) + 1
         /\ Append(s, e)[Len(s) + 1] = e
         /\ \A j \in 1 .. Len(s) : Append(s, e)[j] = s[j]
         /\ Append(s, e) = s \o <<e>>
<1> DEFINE S == Range(s) \cup {e}
           t == Append(s, e)
<1>1. s \in Seq(S) /\ e \in S
  BY SeqMonotonic DEF IsSeq
<1>2. /\ t \in Seq(S) /\ Len(t) = Len(s) + 1
      /\ \A j \in 1 .. Len(s) : t[j] = s[j]
      /\ t[Len(s) + 1] = e
  BY <1>1, AppendProperties
<1>3. Len(s) \in Nat /\ DOMAIN s = 1 .. Len(s) /\ DOMAIN t = 1 .. Len(s) + 1
  BY <1>1, <1>2, LenProperties
<1>4. Range(t) = S
  BY <1>2, <1>3 DEF Range
<1>5. t = s \o <<e>>
  BY <1>1, AppendIsConcat
<1> QED
  BY <1>2, <1>3, <1>4, <1>5 DEF IsSeq

LEMMA SetToSeqOfNone == SetToSeq({}) = <<>>
<1>1. Cardinality({}) = 0
  BY FS_EmptySet
<1>2. <<>> \in [1 .. 0 -> {}] /\ IsInjective(<<>>)
  BY DEF IsInjective
<1>3. \A f \in [1 .. 0 -> {}] : f = <<>>
  OBVIOUS
<1> QED
  BY <1>1, <1>2, <1>3 DEF SetToSeq

LEMMA SetToSeqOfOne == \A x : SetToSeq({x}) = <<x>>
<1> SUFFICES ASSUME NEW x PROVE SetToSeq({x}) = <<x>>
  OBVIOUS
<1>1. Cardinality({x}) = 1
  BY FS_Singleton
<1>2. <<x>> \in [1 .. 1 -> {x}] /\ IsInjective(<<x>>)
  BY DEF IsInjective
<1>3. \A f \in [1 .. 1 -> {x}] : f = <<x>>
  OBVIOUS
<1> QED
  BY <1>1, <1>2, <1>3 DEF SetToSeq

-----------------------------------------------------------------------------
(* Recorded exactly once. *)

(* What is settled at h is on record, or h is a gap of this set. *)
Recorded(h, gapSet) == \A s \in chain[h].pubs : s.id \in Seen \/ h \in gapSet

(* How far the scan is: the last height that is wholly processed. *)
Processed == IF pc = "block" THEN next - 1 ELSE next

Cursor ==
  /\ IsSeq(chain) /\ IsSeq(pubFile)
  /\ next \in Nat /\ pc \in {"block", "reconcile", "checkpoint"}
  /\ Processed <= Len(chain)
  /\ state.last \in Nat /\ state.last < next

OneSettlementABlock ==
  \A h \in 1 .. Len(chain) : \A s, t \in chain[h].pubs : s = t

NoDuplicate == \A i, j \in DOMAIN pubFile : pubFile[i].id = pubFile[j].id => i = j

(* The inductive invariant of PublicationsExactlyOnce: what memory has done *)
(* is accounted for in memory's gaps, and what the checkpoint has done in  *)
(* the checkpoint's, which is what a restart resumes with.                 *)
OnceInv ==
  /\ Cursor /\ OneSettlementABlock /\ NoDuplicate
  /\ \A h \in 1 .. Processed : Recorded(h, gaps)
  /\ \A h \in 1 .. state.last : Recorded(h, state.gaps)

LEMMA InitOnce == Init => OnceInv
<1> SUFFICES ASSUME Init PROVE OnceInv
  OBVIOUS
<1>1. StartHeight \in Nat /\ StartHeight > 1
  BY ScannerAssumption
<1>2. PICK v \in ParamValues :
        chain = [h \in 1 .. StartHeight - 1 |-> [change |-> "none", params |-> v, pubs |-> {}]]
  BY DEF Init
<1> DEFINE blk == [change |-> "none", params |-> v, pubs |-> {}]
<1>3. blk.pubs = {}
  OBVIOUS
<1> HIDE DEF blk
<1>4. chain \in Seq({blk}) /\ Len(chain) = StartHeight - 1
  BY <1>1, <1>2, IsASeq DEF blk
<1>5. IsSeq(chain)
  <2>1. Range(chain) = {blk}
    <3>1. 1 \in DOMAIN chain /\ \A h \in DOMAIN chain : chain[h] = blk
      BY <1>1, <1>2 DEF blk
    <3> QED
      BY <3>1 DEF Range
  <2> QED
    BY <1>4, <2>1 DEF IsSeq
<1>6. \A h \in 1 .. StartHeight - 1 : chain[h].pubs = {}
  BY <1>2, <1>3 DEF blk
<1>7. pubFile = <<>> /\ IsSeq(pubFile) /\ DOMAIN pubFile = {}
  BY EmptySeq DEF Init, IsSeq
<1>8. next = StartHeight /\ pc = "block" /\ state.last = StartHeight - 1
  BY DEF Init, Snapshot
<1> QED
  BY <1>1, <1>4, <1>5, <1>6, <1>7, <1>8 DEF OnceInv, Cursor, Processed, OneSettlementABlock, NoDuplicate, Recorded

(* The chain grows past what the scan has processed. *)
LEMMA NewBlockOnce ==
  ASSUME OnceInv, NewBlock
  PROVE  OnceInv'
<1> USE DEF OnceInv
<1>1. UNCHANGED <<next, pc, gaps, state, pubFile>> /\ Len(chain) < next
  BY DEF NewBlock, memory
<1>2. PICK blk : chain' = Append(chain, blk) /\ \A s, t \in blk.pubs : s = t
  <2>1. PICK change \in {"none"} \cup ChangeKinds, v \in ParamValues, settled \in Settlements(Len(chain) + 1) :
          chain' = Append(chain, [change |-> change, params |-> v, pubs |-> settled])
    BY DEF NewBlock
  <2>2. \A s, t \in settled : s = t
    BY <2>1 DEF Settlements
  <2> QED
    BY <2>1, <2>2
<1>3. /\ IsSeq(chain') /\ Len(chain) \in Nat /\ Len(chain') = Len(chain) + 1
      /\ chain'[Len(chain) + 1] = blk
      /\ \A h \in 1 .. Len(chain) : chain'[h] = chain[h]
  <2>1. IsSeq(chain)
    BY DEF Cursor
  <2>2. IsSeq(Append(chain, blk)) /\ Len(chain) \in Nat
    BY <2>1, AppendToSeq
  <2>3. Len(Append(chain, blk)) = Len(chain) + 1 /\ Append(chain, blk)[Len(chain) + 1] = blk
    BY <2>1, AppendToSeq
  <2>4. \A h \in 1 .. Len(chain) : Append(chain, blk)[h] = chain[h]
    BY <2>1, AppendToSeq
  <2> QED
    BY <1>2, <2>2, <2>3, <2>4 DEF IsSeq
<1>4. Seen' = Seen /\ Processed' = Processed
  BY <1>1 DEF Seen, Processed
<1>5. Cursor'
  BY <1>1, <1>3, <1>4 DEF Cursor, Processed
<1>6. OneSettlementABlock' /\ NoDuplicate'
  BY <1>1, <1>2, <1>3 DEF OneSettlementABlock, NoDuplicate
<1>7. \A h \in 1 .. Len(chain) : Recorded(h, gaps) => Recorded(h, gaps)'
  BY <1>1, <1>3, <1>4 DEF Recorded
<1>8. \A h \in 1 .. Len(chain) : Recorded(h, state.gaps) => Recorded(h, state.gaps)'
  BY <1>1, <1>3, <1>4 DEF Recorded
<1> QED
  BY <1>1, <1>3, <1>4, <1>5, <1>6, <1>7, <1>8 DEF Cursor, Processed

(* A scanned block appends its settlement unless it is on record. *)
LEMMA ScanBlockAppends ==
  ASSUME OnceInv, ScanBlock
  PROVE  \/ pubFile' = pubFile /\ \A s \in chain[next].pubs : s.id \in Seen
         \/ \E s \in chain[next].pubs : \E line :
              /\ s.id \notin Seen /\ line.id = s.id /\ line = Stamp(hist', next, s)
              /\ pubFile' = Append(pubFile, line)
<1> DEFINE fresh == {p \in chain[next].pubs : p.id \notin Seen}
           stamp(s) == Stamp(hist', next, s)
           lines == {stamp(s) : s \in fresh}
<1>1. pubFile' = pubFile \o SetToSeq(lines)
  BY DEF ScanBlock
<1>2. \A s : stamp(s).id = s.id
  BY DEF Stamp
<1> HIDE DEF stamp
<1>3. CASE fresh = {}
  <2>1. lines = {}
    BY <1>3
  <2>2. pubFile' = pubFile
    BY <1>1, <2>1, SetToSeqOfNone, ConcatEmptySeq DEF OnceInv, Cursor, IsSeq
  <2> QED
    BY <1>3, <2>2
<1>4. CASE fresh # {}
  <2>1. PICK s \in fresh : TRUE
    BY <1>4
  <2>2. next \in 1 .. Len(chain)
    BY LenProperties DEF ScanBlock, OnceInv, Cursor, IsSeq
  <2>3. lines = {stamp(s)}
    BY <2>1, <2>2 DEF OnceInv, OneSettlementABlock
  <2>4. pubFile' = Append(pubFile, stamp(s))
    <3>1. Append(pubFile, stamp(s)) = pubFile \o <<stamp(s)>>
      BY AppendToSeq DEF OnceInv, Cursor
    <3> HIDE DEF lines
    <3> QED
      BY <1>1, <2>3, <3>1, SetToSeqOfOne
  <2>5. stamp(s) = Stamp(hist', next, s)
    BY DEF stamp
  <2> QED
    BY <1>2, <2>1, <2>4, <2>5
<1> QED
  BY <1>3, <1>4

LEMMA ScanBlockOnce ==
  ASSUME OnceInv, ScanBlock
  PROVE  OnceInv'
<1> USE DEF OnceInv
<1>1. /\ UNCHANGED <<chain, next, gaps, state>> /\ pc = "block" /\ next <= Len(chain)
      /\ pc' \in {"reconcile", "checkpoint"}
  BY DEF ScanBlock, AfterBlock
<1>2. Processed = next - 1 /\ Processed' = next
  BY <1>1 DEF Processed
<1>3. /\ IsSeq(pubFile') /\ NoDuplicate' /\ Seen \subseteq Seen'
      /\ \A s \in chain[next].pubs : s.id \in Seen'
  <2>1. CASE pubFile' = pubFile /\ \A s \in chain[next].pubs : s.id \in Seen
    BY <2>1 DEF Cursor, NoDuplicate, Seen
  <2>2. ASSUME NEW s \in chain[next].pubs, NEW line, s.id \notin Seen, line.id = s.id,
               pubFile' = Append(pubFile, line)
        PROVE  /\ IsSeq(pubFile') /\ NoDuplicate' /\ Seen \subseteq Seen'
               /\ \A t \in chain[next].pubs : t.id \in Seen'
    <3>1. IsSeq(pubFile)
      BY DEF Cursor
    <3>2. IsSeq(pubFile') /\ Len(pubFile) \in Nat
      BY <2>2, <3>1, AppendToSeq DEF IsSeq
    <3>3. DOMAIN pubFile = 1 .. Len(pubFile) /\ DOMAIN pubFile' = 1 .. Len(pubFile) + 1
      BY <2>2, <3>1, AppendToSeq
    <3>4. pubFile'[Len(pubFile) + 1] = line
      BY <2>2, <3>1, AppendToSeq
    <3>5. \A j \in 1 .. Len(pubFile) : pubFile'[j] = pubFile[j]
      BY <2>2, <3>1, AppendToSeq
    <3>6. \A j \in 1 .. Len(pubFile) : pubFile[j].id # line.id
      BY <2>2, <3>3 DEF Seen
    <3>7. NoDuplicate'
      BY <3>2, <3>3, <3>4, <3>5, <3>6 DEF NoDuplicate
    <3>8. Seen \subseteq Seen' /\ line.id \in Seen'
      BY <3>2, <3>3, <3>4, <3>5 DEF Seen
    <3>9. next \in 1 .. Len(chain)
      BY <1>1, LenProperties DEF Cursor, IsSeq
    <3> QED
      BY <2>2, <3>2, <3>7, <3>8, <3>9 DEF OneSettlementABlock
  <2> QED
    BY <2>1, <2>2, ScanBlockAppends
<1>4. Cursor' /\ OneSettlementABlock'
  BY <1>1, <1>2, <1>3 DEF Cursor, OneSettlementABlock, IsSeq
<1>5. \A h : Recorded(h, gaps) => Recorded(h, gaps)'
  BY <1>1, <1>3 DEF Recorded
<1>6. \A h : Recorded(h, state.gaps) => Recorded(h, state.gaps)'
  BY <1>1, <1>3 DEF Recorded
<1>7. Recorded(next, gaps)'
  BY <1>1, <1>3 DEF Recorded
<1> QED
  BY <1>1, <1>2, <1>3, <1>4, <1>5, <1>6, <1>7 DEF Cursor

(* A gap is accounted for as one. *)
LEMMA ScanGapOnce ==
  ASSUME OnceInv, ScanGap
  PROVE  OnceInv'
<1> USE DEF OnceInv
<1>1. /\ UNCHANGED <<chain, next, state, pubFile>> /\ pc = "block" /\ next <= Len(chain)
      /\ pc' \in {"reconcile", "checkpoint"} /\ gaps' = gaps \cup {next}
  BY DEF ScanGap, AfterBlock
<1>2. Processed = next - 1 /\ Processed' = next
  BY <1>1 DEF Processed
<1>3. Cursor' /\ OneSettlementABlock' /\ NoDuplicate' /\ Seen' = Seen
  BY <1>1, <1>2 DEF Cursor, OneSettlementABlock, NoDuplicate, Seen, IsSeq
<1>4. \A h : Recorded(h, state.gaps) => Recorded(h, state.gaps)'
  BY <1>1, <1>3 DEF Recorded
<1>5. \A h \in 1 .. Processed' : Recorded(h, gaps)'
  <2>1. \A h \in 1 .. Processed' : h \in 1 .. Processed \/ h = next
    BY <1>2 DEF Cursor
  <2> QED
    BY <1>1, <1>3, <2>1 DEF Recorded
<1> QED
  BY <1>1, <1>3, <1>4, <1>5

LEMMA ReconcileOnce ==
  ASSUME OnceInv, ReconcileSkipped \/ ReconcileAgrees \/ ReconcileDiffers \/ ReconcileUnrecorded
  PROVE  OnceInv'
<1> USE DEF OnceInv
<1>1. UNCHANGED <<chain, next, gaps, state, pubFile>> /\ pc = "reconcile" /\ pc' = "checkpoint"
  BY DEF ReconcileSkipped, ReconcileAgrees, ReconcileDiffers, ReconcileUnrecorded, Reconciled
<1>2. Processed' = Processed /\ Seen' = Seen
  BY <1>1 DEF Processed, Seen
<1> QED
  BY <1>1, <1>2 DEF Cursor, OneSettlementABlock, NoDuplicate, Recorded, IsSeq

(* A checkpoint is taken of what has been done; without one the next block *)
(* is begun.                                                               *)
LEMMA NextHeightOnce ==
  ASSUME OnceInv, Checkpoint \/ CatchUp
  PROVE  OnceInv'
<1> USE DEF OnceInv
<1>1. /\ UNCHANGED <<chain, gaps, pubFile>> /\ pc = "checkpoint" /\ next' = next + 1 /\ pc' = "block"
      /\ \/ state' = state
         \/ state'.last = next /\ state'.gaps = gaps
  BY DEF Checkpoint, CatchUp, Snapshot
<1>2. Processed = next /\ Processed' = next /\ Seen' = Seen
  BY <1>1 DEF Processed, Seen, Cursor
<1>3. Cursor' /\ OneSettlementABlock' /\ NoDuplicate'
  BY <1>1, <1>2 DEF Cursor, OneSettlementABlock, NoDuplicate, IsSeq
<1>4. \A h, g : Recorded(h, g) => Recorded(h, g)'
  BY <1>1, <1>2 DEF Recorded
<1>5. \A h \in 1 .. Processed' : Recorded(h, gaps)'
  BY <1>1, <1>2 DEF Recorded
<1>6. \A h \in 1 .. state'.last : Recorded(h, state.gaps)'
  BY <1>1, <1>2 DEF Recorded
<1> QED
  BY <1>3, <1>5, <1>6

(* A restart resumes behind the checkpoint with the checkpoint's gaps. *)
LEMMA CrashOnce ==
  ASSUME OnceInv, Crash
  PROVE  OnceInv'
<1> USE DEF OnceInv
<1>1. /\ UNCHANGED <<chain, state, pubFile>>
      /\ next' = state.last + 1 /\ pc' = "block" /\ gaps' = state.gaps
  BY DEF Crash
<1>2. Processed' = state.last /\ Seen' = Seen /\ state.last <= Processed
  BY <1>1 DEF Processed, Seen, Cursor
<1>3. Cursor' /\ OneSettlementABlock' /\ NoDuplicate'
  <2>1. Len(chain) \in Nat
    BY LenProperties DEF Cursor, IsSeq
  <2> QED
    BY <1>1, <1>2, <2>1 DEF Cursor, OneSettlementABlock, NoDuplicate, IsSeq, Processed
<1> QED
  BY <1>1, <1>2, <1>3 DEF Recorded

LEMMA OnceInvKept ==
  ASSUME OnceInv, [Next]_scannerVars
  PROVE  OnceInv'
<1>1. CASE NewBlock
  BY <1>1, NewBlockOnce
<1>2. CASE ScanBlock
  BY <1>2, ScanBlockOnce
<1>3. CASE ScanGap
  BY <1>3, ScanGapOnce
<1>4. CASE ReconcileSkipped \/ ReconcileAgrees \/ ReconcileDiffers \/ ReconcileUnrecorded
  BY <1>4, ReconcileOnce
<1>5. CASE Checkpoint \/ CatchUp
  BY <1>5, NextHeightOnce
<1>6. CASE Crash
  BY <1>6, CrashOnce
<1>7. CASE UNCHANGED scannerVars
  <2>1. UNCHANGED <<chain, next, pc, gaps, state, pubFile>>
    BY <1>7 DEF scannerVars, memory
  <2> QED
    BY <2>1 DEF OnceInv, Cursor, OneSettlementABlock, NoDuplicate, Recorded, Processed, Seen, IsSeq
<1> QED
  BY <1>1, <1>2, <1>3, <1>4, <1>5, <1>6, <1>7 DEF Next

(* A settlement is on record once, and everything settled behind the       *)
(* checkpoint is on record or in one of the checkpoint's gaps, whatever    *)
(* the scanner crashed between and however often it scanned a block.       *)
THEOREM PublicationsExactlyOnceAlways == Spec => []PublicationsExactlyOnce
<1>1. OnceInv /\ [Next]_scannerVars => OnceInv'
  BY OnceInvKept
<1>2. OnceInv => PublicationsExactlyOnce
  BY DEF OnceInv, NoDuplicate, Recorded, PublicationsExactlyOnce
<1> QED
  BY <1>1, <1>2, InitOnce, PTL DEF Spec

-----------------------------------------------------------------------------
(* Ranges do not overlap without a restart. *)

Silent(j) == rangeFile[j].kind = "silent_change"

CrashesCounted ==
  /\ faults = [crash |-> faults.crash, read |-> faults.read, write |-> faults.write, gap |-> faults.gap]
  /\ faults.crash \in Nat

MarkerInPlace == IF pc = "checkpoint" THEN lastRec <= next ELSE lastRec < next

MarkerPastRanges == \A j \in DOMAIN rangeFile : Silent(j) => rangeFile[j].to \in 1 .. lastRec

Disjoint == \A i, j \in DOMAIN rangeFile : i < j /\ Silent(i) /\ Silent(j) => rangeFile[i].to < rangeFile[j].from

(* The inductive invariant of RangesDisjointWithoutCrash: the marker is at *)
(* or past the end of every range this process recorded, and behind the    *)
(* height a check is about to read.                                        *)
DisjointInv ==
  /\ lastRec \in Nat /\ next \in Nat /\ next > 0
  /\ IsSeq(rangeFile)
  /\ state.last \in Nat /\ state.lastRec \in Nat
  /\ CrashesCounted
  /\ faults.crash = 0 => MarkerInPlace /\ MarkerPastRanges /\ Disjoint

LEMMA InitDisjoint == Init => DisjointInv
<1> SUFFICES ASSUME Init PROVE DisjointInv
  OBVIOUS
<1>1. /\ rangeFile = <<>> /\ DOMAIN rangeFile = {} /\ lastRec = 0 /\ next = StartHeight /\ pc = "block"
      /\ faults = [crash |-> 0, read |-> 0, write |-> 0, gap |-> {}]
  BY DEF Init
<1>2. IsSeq(rangeFile)
  BY <1>1, EmptySeq DEF IsSeq
<1>3. state.last = StartHeight - 1 /\ state.lastRec = 0
  BY DEF Init, Snapshot
<1> QED
  BY <1>1, <1>2, <1>3, ScannerAssumption
     DEF DisjointInv, CrashesCounted, MarkerInPlace, MarkerPastRanges, Disjoint

(* A step that records no range. *)
LEMMA NoRangeRecorded ==
  ASSUME DisjointInv, rangeFile' = rangeFile, CrashesCounted', faults'.crash = faults.crash,
         next' \in Nat, next' > 0, lastRec' \in Nat, lastRec <= lastRec',
         state'.last \in Nat, state'.lastRec \in Nat, MarkerInPlace => MarkerInPlace'
  PROVE  DisjointInv'
<1> USE DEF DisjointInv
<1>1. IsSeq(rangeFile')
  OBVIOUS
<1>2. Disjoint' = Disjoint
  BY DEF Disjoint, Silent
<1>3. MarkerPastRanges => MarkerPastRanges'
  BY DEF MarkerPastRanges, Silent
<1> QED
  BY <1>1, <1>2, <1>3 DEF IsSeq

(* A check that finds a difference records the heights after the marker and *)
(* moves the marker to their end.                                          *)
LEMMA ReconcileDiffersDisjoint ==
  ASSUME DisjointInv, ReconcileDiffers
  PROVE  DisjointInv'
<1> USE DEF DisjointInv
<1>1. /\ UNCHANGED <<next, faults, state>> /\ lastRec' = next /\ pc = "reconcile" /\ pc' = "checkpoint"
  BY DEF ReconcileDiffers, Reconciled
<1>2. PICK line : /\ rangeFile' = Append(rangeFile, line)
                  /\ line.kind = "silent_change" => line.from = Since + 1 /\ line.to = next
  <2>1. PICK resolution \in {"verified", "unresolvable"} : AppendRange(SilentChange(next, resolution))
    BY DEF ReconcileDiffers
  <2>2. SilentChange(next, resolution).from = Since + 1 /\ SilentChange(next, resolution).to = next
    BY DEF SilentChange
  <2>3. BadLine.kind # "silent_change"
    BY DEF BadLine
  <2> QED
    BY <2>1, <2>2, <2>3 DEF AppendRange
<1>3. IsSeq(Append(rangeFile, line)) /\ Len(rangeFile) \in Nat
  BY AppendToSeq
<1>4. DOMAIN rangeFile = 1 .. Len(rangeFile) /\ DOMAIN Append(rangeFile, line) = 1 .. Len(rangeFile) + 1
  BY AppendToSeq
<1>5. Append(rangeFile, line)[Len(rangeFile) + 1] = line
  BY AppendToSeq
<1>6. \A j \in 1 .. Len(rangeFile) : Append(rangeFile, line)[j] = rangeFile[j]
  BY AppendToSeq
<1>7. IsSeq(rangeFile') /\ CrashesCounted'
  BY <1>1, <1>2, <1>3 DEF IsSeq, CrashesCounted
<1>8. ASSUME faults.crash = 0
      PROVE  MarkerInPlace' /\ MarkerPastRanges' /\ Disjoint'
  <2>1. MarkerInPlace'
    BY <1>1 DEF MarkerInPlace
  <2>2. lastRec < next
    BY <1>1, <1>8 DEF MarkerInPlace
  <2>3. MarkerPastRanges'
    BY <1>1, <1>2, <1>3, <1>4, <1>5, <1>6, <1>8, <2>2 DEF MarkerPastRanges, Silent
  <2>4. Disjoint'
    <3> SUFFICES ASSUME NEW i \in DOMAIN rangeFile', NEW j \in DOMAIN rangeFile', i < j, Silent(i)', Silent(j)'
                 PROVE  rangeFile'[i].to < rangeFile'[j].from
      BY DEF Disjoint
    <3>1. i \in 1 .. Len(rangeFile) /\ rangeFile'[i] = rangeFile[i]
      BY <1>2, <1>3, <1>4, <1>6
    <3>2. CASE j \in 1 .. Len(rangeFile)
      BY <1>2, <1>4, <1>6, <1>8, <3>1, <3>2 DEF Disjoint, Silent
    <3>3. CASE j = Len(rangeFile) + 1
      <4>1. rangeFile'[j].from = Since + 1
        BY <1>2, <1>5, <3>3 DEF Silent
      <4>2. rangeFile'[i].to \in 1 .. lastRec
        BY <1>4, <1>8, <3>1 DEF Silent, MarkerPastRanges
      <4>3. Since = lastRec
        BY <4>2 DEF Since
      <4> QED
        BY <4>1, <4>2, <4>3
    <3> QED
      BY <1>2, <1>3, <1>4, <3>2, <3>3
  <2> QED
    BY <2>1, <2>3, <2>4
<1> QED
  BY <1>1, <1>7, <1>8

(* A failed read records a stretch of another kind and leaves the marker. *)
LEMMA ReconcileSkippedDisjoint ==
  ASSUME DisjointInv, ReconcileSkipped
  PROVE  DisjointInv'
<1> USE DEF DisjointInv
<1>1. UNCHANGED <<next, lastRec, state>> /\ pc = "reconcile" /\ pc' = "checkpoint"
  BY DEF ReconcileSkipped, Reconciled
<1>2. faults'.crash = faults.crash /\ CrashesCounted'
  BY DEF ReconcileSkipped, Fault, CrashesCounted
<1>3. MarkerInPlace => MarkerInPlace'
  BY <1>1 DEF MarkerInPlace
<1>4. \/ rangeFile' = rangeFile
      \/ \E line : rangeFile' = Append(rangeFile, line) /\ line.kind # "silent_change"
  <2>1. CheckSkipped(next).kind # "silent_change" /\ BadLine.kind # "silent_change"
    BY DEF CheckSkipped, BadLine
  <2> QED
    BY <2>1 DEF ReconcileSkipped, AppendRange
<1>5. CASE rangeFile' = rangeFile
  BY <1>1, <1>2, <1>3, <1>5, NoRangeRecorded
<1>6. ASSUME NEW line, rangeFile' = Append(rangeFile, line), line.kind # "silent_change"
      PROVE  DisjointInv'
  <2>1. IsSeq(Append(rangeFile, line)) /\ Len(rangeFile) \in Nat
    BY AppendToSeq
  <2>2. DOMAIN rangeFile = 1 .. Len(rangeFile) /\ DOMAIN Append(rangeFile, line) = 1 .. Len(rangeFile) + 1
    BY AppendToSeq
  <2>3. Append(rangeFile, line)[Len(rangeFile) + 1] = line
    BY AppendToSeq
  <2>4. \A j \in 1 .. Len(rangeFile) : Append(rangeFile, line)[j] = rangeFile[j]
    BY AppendToSeq
  <2>5. \A j \in DOMAIN rangeFile' : Silent(j)' => j \in DOMAIN rangeFile /\ rangeFile'[j] = rangeFile[j] /\ Silent(j)
    BY <1>6, <2>1, <2>2, <2>3, <2>4 DEF Silent
  <2>6. (Disjoint => Disjoint') /\ (MarkerPastRanges => MarkerPastRanges')
    BY <1>1, <2>5 DEF Disjoint, MarkerPastRanges
  <2>7. IsSeq(rangeFile')
    BY <1>6, <2>1 DEF IsSeq
  <2> QED
    BY <1>1, <1>2, <1>3, <2>6, <2>7
<1> QED
  BY <1>4, <1>5, <1>6

(* A restart is counted; the invariant asks nothing more of it. *)
LEMMA CrashDisjoint ==
  ASSUME DisjointInv, Crash
  PROVE  DisjointInv'
<1> USE DEF DisjointInv
<1>1. /\ UNCHANGED <<state, rangeFile>> /\ next' = state.last + 1 /\ lastRec' = state.lastRec
      /\ faults' = [faults EXCEPT !["crash"] = @ + 1]
  BY DEF Crash, Fault
<1>2. faults.crash \in Nat /\ faults = [crash |-> faults.crash, read |-> faults.read, write |-> faults.write, gap |-> faults.gap]
  BY DEF CrashesCounted
<1>3. faults' = [crash |-> faults.crash + 1, read |-> faults.read, write |-> faults.write, gap |-> faults.gap]
  BY <1>1, <1>2
<1>4. faults'.crash = faults.crash + 1
  BY <1>3
<1>5. faults' = [crash |-> faults'.crash, read |-> faults'.read, write |-> faults'.write, gap |-> faults'.gap]
  BY <1>3
<1>6. CrashesCounted' /\ faults'.crash # 0
  BY <1>2, <1>4, <1>5 DEF CrashesCounted
<1> QED
  BY <1>1, <1>6 DEF IsSeq

LEMMA DisjointInvKept ==
  ASSUME DisjointInv, [Next]_scannerVars
  PROVE  DisjointInv'
<1> USE DEF DisjointInv
<1>1. CASE NewBlock \/ ScanBlock \/ UNCHANGED scannerVars
  <2>1. UNCHANGED <<next, lastRec, state, rangeFile, faults>>
    BY <1>1 DEF NewBlock, ScanBlock, scannerVars, memory
  <2>4. pc' = pc \/ (pc = "block" /\ pc' \in {"reconcile", "checkpoint"})
    BY <1>1 DEF NewBlock, ScanBlock, AfterBlock, scannerVars, memory
  <2>2. CrashesCounted' /\ faults'.crash = faults.crash
    BY <2>1 DEF CrashesCounted
  <2>3. MarkerInPlace => MarkerInPlace'
    BY <2>1, <2>4 DEF MarkerInPlace
  <2> QED
    BY <2>1, <2>2, <2>3, NoRangeRecorded
<1>2. CASE ScanGap
  <2>1. /\ UNCHANGED <<next, lastRec, state, rangeFile>> /\ pc = "block" /\ pc' \in {"reconcile", "checkpoint"}
        /\ faults' = [faults EXCEPT !.gap = @ \cup {next}]
    BY <1>2 DEF ScanGap, AfterBlock
  <2>2. CrashesCounted' /\ faults'.crash = faults.crash
    BY <2>1 DEF CrashesCounted
  <2> QED
    BY <2>1, <2>2, NoRangeRecorded DEF MarkerInPlace
<1>3. CASE ReconcileSkipped
  BY <1>3, ReconcileSkippedDisjoint
<1>4. CASE ReconcileAgrees
  <2>1. UNCHANGED <<next, state, rangeFile, faults>> /\ lastRec' = next /\ pc = "reconcile" /\ pc' = "checkpoint"
    BY <1>4 DEF ReconcileAgrees, Reconciled
  <2>2. IsSeq(rangeFile') /\ CrashesCounted'
    BY <2>1 DEF IsSeq, CrashesCounted
  <2>3. ASSUME faults.crash = 0
        PROVE  MarkerInPlace' /\ MarkerPastRanges' /\ Disjoint'
    BY <2>1, <2>3 DEF MarkerInPlace, MarkerPastRanges, Disjoint, Silent
  <2> QED
    BY <2>1, <2>2, <2>3
<1>5. CASE ReconcileDiffers
  BY <1>5, ReconcileDiffersDisjoint
<1>6. CASE ReconcileUnrecorded
  <2>1. /\ UNCHANGED <<next, lastRec, state, rangeFile>> /\ pc = "reconcile" /\ pc' = "checkpoint"
        /\ faults' = [faults EXCEPT !["write"] = @ + 1]
    BY <1>6 DEF ReconcileUnrecorded, AppendFails, Reconciled, Fault
  <2>2. CrashesCounted' /\ faults'.crash = faults.crash
    BY <2>1 DEF CrashesCounted
  <2> QED
    BY <2>1, <2>2, NoRangeRecorded DEF MarkerInPlace
<1>7. CASE Checkpoint \/ CatchUp
  <2>1. /\ UNCHANGED <<lastRec, rangeFile, faults>> /\ next' = next + 1 /\ pc = "checkpoint" /\ pc' = "block"
        /\ state' = state \/ (state'.last = next /\ state'.lastRec = lastRec)
    BY <1>7 DEF Checkpoint, CatchUp, Snapshot
  <2> QED
    BY <2>1, NoRangeRecorded DEF MarkerInPlace, CrashesCounted
<1>8. CASE Crash
  BY <1>8, CrashDisjoint
<1> QED
  BY <1>1, <1>2, <1>3, <1>4, <1>5, <1>6, <1>7, <1>8 DEF Next

(* A process that has not restarted never records two silent-change ranges *)
(* that overlap, however its reads and its appends fail.                   *)
THEOREM RangesDisjointAlways == Spec => []RangesDisjointWithoutCrash
<1>1. DisjointInv /\ [Next]_scannerVars => DisjointInv'
  BY DisjointInvKept
<1>2. DisjointInv => RangesDisjointWithoutCrash
  BY DEF DisjointInv, Disjoint, Silent, RangesDisjointWithoutCrash
<1> QED
  BY <1>1, <1>2, InitDisjoint, PTL DEF Spec
-----------------------------------------------------------------------------
(* What resolving a range reads. *)

(* One entry for the start and for every height the params changed at, up   *)
(* to h.                                                                   *)
ReadUpTo(values, from, h) ==
  LET L == Len(values)
  IN  /\ L \in Nat \ {0} /\ values \in Seq([height : Nat, params : Values])
      /\ \A m \in 1 .. L : values[m].height \in from - 1 .. h /\ values[m].params = StateAt(values[m].height)
      /\ \A a, b \in 1 .. L : a < b => values[a].height < values[b].height
      /\ values[1].height = from - 1
      /\ values[L].params = StateAt(h)
      /\ \A k \in from .. h : StateAt(k) # StateAt(k - 1) => \E m \in 1 .. L : values[m].height = k

LEMMA ProvenValuesAre ==
  ASSUME NEW from \in Nat, NEW to \in Nat, 1 <= from, from <= to + 1,
         \A h \in from - 1 .. to : StateAt(h) \in Values
  PROVE  ReadUpTo(ProvenValues(from, to), from, to)
<1> DEFINE first == from - 1
           value(h) == [height |-> h, params |-> StateAt(h)]
           body(f, h) == IF h = first THEN <<value(h)>>
                         ELSE IF StateAt(h) = StateAt(h - 1) THEN f[h - 1] ELSE Append(f[h - 1], value(h))
           Reads(f, h) == f = [k \in first .. h |-> body(f, k)]
           T == {h \in first .. to : \A f : ~Reads(f, h)}
<1>1. first \in Nat /\ first <= to /\ from = first + 1
  OBVIOUS
<1> HIDE DEF first, value
<1>2. T = {}
  <2> SUFFICES ASSUME T # {} PROVE FALSE
    OBVIOUS
  <2>1. PICK h \in T : \A k \in T : h <= k
    <3>1. T \in SUBSET Nat
      BY <1>1
    <3> HIDE DEF T
    <3> QED
      BY <3>1, Smallest
  <2>2. h \in first .. to /\ \A f : ~Reads(f, h)
    OBVIOUS
  <2>3. CASE h = first
    <3> DEFINE f == [k \in first .. first |-> <<value(k)>>]
    <3>1. f = [k \in first .. first |-> body(f, k)]
      BY <1>1
    <3> QED
      BY <2>2, <2>3, <3>1
  <2>4. CASE h # first
    <3>1. h - 1 \in first .. to /\ ~(h <= h - 1) /\ h \in Nat
      BY <1>1, <2>2, <2>4
    <3>2. PICK f : Reads(f, h - 1)
      BY <2>1, <3>1
    <3> DEFINE g == [k \in first .. h |-> IF k = h THEN body(f, h) ELSE f[k]]
    <3>3. \A k \in first .. h : g[k] = body(g, k)
      <4>1. g[h] = body(f, h) /\ g[h - 1] = f[h - 1] /\ h # first
        BY <1>1, <2>2, <2>4, <3>1
      <4>2. ASSUME NEW k \in first .. h - 1 PROVE g[k] = body(g, k)
        <5>1. g[k] = f[k]
          BY <1>1, <2>2, <3>1
        <5>3. f[k] = body(f, k)
          <6> HIDE DEF g
          <6> QED
            BY <3>2
        <5>2. k # first => g[k - 1] = f[k - 1]
          BY <1>1, <2>2, <3>1
        <5> HIDE DEF g
        <5> QED
          BY <5>1, <5>2, <5>3
      <4>3. \A k \in first .. h : k = h \/ k \in first .. h - 1
        BY <1>1, <3>1
      <4> HIDE DEF g
      <4> QED
        BY <4>1, <4>2, <4>3
    <3>4. g = [k \in first .. h |-> g[k]]
      OBVIOUS
    <3> HIDE DEF g
    <3>5. Reads(g, h)
      BY <3>3, <3>4
    <3> QED
      BY <2>2, <3>5
  <2> QED
    BY <2>3, <2>4
<1> DEFINE up == CHOOSE f : Reads(f, to)
<1>3. Reads(up, to)
  <2>1. to \in first .. to
    BY <1>1
  <2>2. \E f : Reads(f, to)
    BY <1>2, <2>1
  <2> QED
    BY <2>2
<1>4. ProvenValues(from, to) = up[to]
  BY DEF ProvenValues, first, value
<1> HIDE DEF up
<1>5. \A h \in first .. to : up[h] = body(up, h)
  BY <1>3
<1> DEFINE right(h) == ReadUpTo(up[h], from, h)
           U == {h \in first .. to : ~right(h)}
<1>6. ASSUME NEW h \in first .. to
      PROVE  value(h) \in [height : Nat, params : Values] /\ value(h).height = h /\ value(h).params = StateAt(h)
  BY <1>1 DEF value, first
<1>7. right(first)
  <2>1. first \in first .. to /\ up[first] = <<value(first)>>
    <3>1. first \in first .. to
      BY <1>1
    <3>2. up[first] = body(up, first)
      BY <1>5, <3>1
    <3> QED
      BY <3>1, <3>2
  <2>2. up[first] \in Seq([height : Nat, params : Values]) /\ Len(up[first]) = 1 /\ up[first][1] = value(first)
    BY <1>6, <2>1
  <2> QED
    BY <1>1, <1>6, <2>1, <2>2 DEF ReadUpTo
<1>8. ASSUME NEW h \in first + 1 .. to, right(h - 1) PROVE right(h)
  <2> DEFINE s == up[h - 1]
             L == Len(s)
  <2>1. h \in first .. to /\ h - 1 \in first .. to /\ h # first /\ h \in Nat
    BY <1>1
  <2>2. up[h] = IF StateAt(h) = StateAt(h - 1) THEN s ELSE Append(s, value(h))
    BY <1>5, <2>1
  <2>3. /\ L \in Nat \ {0} /\ s \in Seq([height : Nat, params : Values])
        /\ \A m \in 1 .. L : s[m].height \in first .. h - 1 /\ s[m].params = StateAt(s[m].height)
        /\ \A a, b \in 1 .. L : a < b => s[a].height < s[b].height
        /\ s[1].height = first
        /\ s[L].params = StateAt(h - 1)
        /\ \A k \in from .. h - 1 : StateAt(k) # StateAt(k - 1) => \E m \in 1 .. L : s[m].height = k
    BY <1>8 DEF ReadUpTo, first
  <2>4. \A k \in from .. h : k = h \/ k \in from .. h - 1
    BY <1>1, <2>1
  <2>5. \A k \in first .. h - 1 : k \in first .. h /\ k < h
    BY <1>1, <2>1
  <2> HIDE DEF right, s
  <2>6. CASE StateAt(h) = StateAt(h - 1)
    BY <1>1, <2>2, <2>3, <2>4, <2>5, <2>6 DEF right, ReadUpTo, first
  <2>7. CASE StateAt(h) # StateAt(h - 1)
    <3> DEFINE t == Append(s, value(h))
    <3>1. /\ t \in Seq([height : Nat, params : Values]) /\ Len(t) = L + 1
          /\ \A m \in 1 .. L : t[m] = s[m]
          /\ t[L + 1] = value(h)
      BY <1>6, <2>1, <2>3, AppendProperties
    <3>2. \A m \in 1 .. L + 1 : m \in 1 .. L \/ m = L + 1
      BY <2>3
    <3>3. h \in first .. h /\ L + 1 \in 1 .. L + 1 /\ \A m \in 1 .. L : m \in 1 .. L + 1
      BY <1>1, <2>1, <2>3
    <3> HIDE DEF t
    <3>4. \A m \in 1 .. L + 1 : t[m].height \in first .. h /\ t[m].params = StateAt(t[m].height)
      <4> SUFFICES ASSUME NEW m \in 1 .. L + 1
                   PROVE  t[m].height \in first .. h /\ t[m].params = StateAt(t[m].height)
        OBVIOUS
      <4>1. CASE m \in 1 .. L
        BY <1>6, <2>1, <2>3, <2>5, <3>1, <3>3, <4>1
      <4>2. CASE m = L + 1
        BY <1>6, <2>1, <2>3, <2>5, <3>1, <3>3, <4>2
      <4> QED
        BY <3>2, <4>1, <4>2
    <3>5. \A a, b \in 1 .. L + 1 : a < b => t[a].height < t[b].height
      <4> SUFFICES ASSUME NEW a \in 1 .. L + 1, NEW b \in 1 .. L + 1, a < b PROVE t[a].height < t[b].height
        OBVIOUS
      <4>1. a \in 1 .. L
        BY <2>3, <3>2
      <4>2. CASE b \in 1 .. L
        BY <2>3, <3>1, <4>1, <4>2
      <4>3. CASE b = L + 1
        <5>1. t[b].height = h /\ t[a] = s[a]
          BY <1>6, <2>1, <3>1, <4>1, <4>3
        <5>2. s[a].height < h
          BY <2>3, <2>5, <4>1
        <5> QED
          BY <5>1, <5>2
      <4> QED
        BY <3>2, <4>2, <4>3
    <3>6. t[1].height = first /\ t[L + 1].params = StateAt(h)
      <4>1. 1 \in 1 .. L
        BY <2>3
      <4> QED
        BY <1>6, <2>1, <2>3, <3>1, <4>1
    <3>7. \A k \in from .. h : StateAt(k) # StateAt(k - 1) => \E m \in 1 .. L + 1 : t[m].height = k
      <4>1. t[L + 1].height = h
        BY <1>6, <2>1, <3>1
      <4> QED
        BY <2>3, <2>4, <3>1, <3>3, <4>1
    <3>8. up[h] = t /\ L + 1 \in Nat \ {0}
      BY <2>2, <2>3, <2>7 DEF t
    <3> QED
      BY <3>1, <3>4, <3>5, <3>6, <3>7, <3>8 DEF right, ReadUpTo, first
  <2> QED
    BY <2>6, <2>7
<1>9. U = {}
  <2> SUFFICES ASSUME U # {} PROVE FALSE
    OBVIOUS
  <2>1. U \in SUBSET Nat
    BY <1>1
  <2>2. PICK h \in U : \A k \in U : h <= k
    <3> HIDE DEF U
    <3> QED
      BY <2>1, Smallest
  <2>3. h \in first .. to /\ ~right(h)
    OBVIOUS
  <2> HIDE DEF right
  <2>4. h \in first + 1 .. to /\ h - 1 \in first .. to /\ ~(h <= h - 1)
    BY <1>1, <1>7, <2>3
  <2>5. right(h - 1)
    BY <2>2, <2>4
  <2> QED
    BY <1>8, <2>3, <2>4, <2>5
<1> HIDE DEF right
<1>10. right(to)
  BY <1>1, <1>9
<1> QED
  BY <1>4, <1>10 DEF right


(* The last entry from a height or before it holds the params of the height. *)
LEMMA LastRead ==
  ASSUME NEW values, NEW from \in Nat, NEW to \in Nat, 1 <= from, ReadUpTo(values, from, to),
         NEW k \in from - 1 .. to
  PROVE  \E m \in 1 .. Len(values) :
           /\ values[m].height <= k /\ \A l \in m + 1 .. Len(values) : k < values[l].height
           /\ values[m].params = StateAt(k) /\ values[m].height \in from - 1 .. k
           /\ k = from - 1 \/ StateAt(k) # StateAt(k - 1) => values[m].height = k
<1> DEFINE L == Len(values)
           at(m) == values[m].height
           T == {n \in 0 .. L - 1 : at(L - n) <= k}
<1>1. /\ L \in Nat \ {0}
      /\ \A m \in 1 .. L : at(m) \in from - 1 .. to /\ values[m].params = StateAt(at(m))
      /\ \A a, b \in 1 .. L : a < b => at(a) < at(b)
      /\ at(1) = from - 1
      /\ \A j \in from .. to : StateAt(j) # StateAt(j - 1) => \E m \in 1 .. L : at(m) = j
  BY DEF ReadUpTo
<1> HIDE DEF L, at
<1>2. T \in SUBSET Nat /\ L - 1 \in T
  <2>1. L - 1 \in 0 .. L - 1 /\ L - (L - 1) = 1 /\ from - 1 <= k
    BY <1>1
  <2> QED
    BY <1>1, <2>1
<1>3. PICK n \in T : \A x \in T : n <= x
  <2> HIDE DEF T
  <2> QED
    BY <1>2, Smallest
<1> DEFINE m == L - n
<1>4. n \in 0 .. L - 1 /\ m \in 1 .. L /\ at(m) <= k
  BY <1>1, <1>3
<1>5. ASSUME NEW l \in m + 1 .. L PROVE k < at(l)
  <2> DEFINE x == L - l
  <2>1. x \in 0 .. L - 1 /\ x < n /\ L - x = l /\ l \in 1 .. L
    BY <1>1, <1>4
  <2>2. x \notin T
    BY <1>1, <1>3, <2>1
  <2>3. ~(at(l) <= k)
    <3>1. x \in T <=> at(L - x) <= k
      BY <2>1
    <3> HIDE DEF T
    <3> QED
      BY <2>1, <2>2, <3>1
  <2>4. at(l) \in Int /\ k \in Int
    BY <1>1, <2>1
  <2> QED
    BY <2>3, <2>4
<1> HIDE DEF T, m
<1>6. at(m) \in from - 1 .. k /\ at(m) \in Nat /\ from - 1 \in Nat /\ k \in Nat
  BY <1>1, <1>4
<1>7. ASSUME NEW j \in at(m) + 1 .. k PROVE StateAt(j) = StateAt(j - 1)
  <2> SUFFICES ASSUME StateAt(j) # StateAt(j - 1) PROVE FALSE
    OBVIOUS
  <2>1. j \in from .. to /\ at(m) < j /\ j <= k
    BY <1>6
  <2>2. PICK l \in 1 .. L : at(l) = j
    BY <1>1, <2>1
  <2>3. l <= m
    BY <1>1, <1>4, <1>5, <2>1, <2>2
  <2>4. at(l) <= at(m)
    <3>1. l = m \/ l < m
      BY <1>1, <1>4, <2>3
    <3> QED
      BY <1>1, <1>4, <1>6, <3>1
  <2> QED
    BY <1>6, <2>1, <2>2, <2>4
<1>8. StateAt(k) = StateAt(at(m))
  <2> DEFINE U == {j \in at(m) .. k : StateAt(j) # StateAt(at(m))}
  <2>1. U = {}
    <3> SUFFICES ASSUME U # {} PROVE FALSE
      OBVIOUS
    <3>1. U \in SUBSET Nat
      BY <1>6
    <3>2. PICK j \in U : \A x \in U : j <= x
      <4> HIDE DEF U
      <4> QED
        BY <3>1, Smallest
    <3>3. j \in at(m) .. k /\ StateAt(j) # StateAt(at(m))
      OBVIOUS
    <3>4. j - 1 \in at(m) .. k /\ ~(j <= j - 1) /\ j \in at(m) + 1 .. k
      BY <1>6, <3>3
    <3>5. StateAt(j - 1) = StateAt(at(m))
      BY <3>2, <3>4
    <3> QED
      BY <1>7, <3>3, <3>4, <3>5
  <2>2. k \in at(m) .. k
    BY <1>6
  <2> QED
    BY <2>1, <2>2
<1>9. ASSUME k = from - 1 \/ StateAt(k) # StateAt(k - 1) PROVE at(m) = k
  <2>1. CASE k = from - 1
    BY <1>6, <2>1
  <2>2. CASE StateAt(k) # StateAt(k - 1)
    <3>1. k \notin at(m) + 1 .. k
      BY <1>7, <2>2
    <3> QED
      BY <1>6, <3>1
  <2> QED
    BY <1>9, <2>1, <2>2
<1> QED
  BY <1>1, <1>4, <1>5, <1>6, <1>8, <1>9 DEF L, at

(* A history with a range put in holds the params of a height of the range, *)
(* unless an entry from after the last change in the range stands there;   *)
(* before the range it is what it was.                                     *)
Holds(hst, k, v) == At(hst, k, EndOfBlock) # NoEntry /\ At(hst, k, EndOfBlock).params = v

Overtakes(prior, k, from, to) ==
  /\ At(prior, k, EndOfBlock) # NoEntry
  /\ \E h \in from - 1 .. k :
       /\ Past(At(prior, k, EndOfBlock), h, -1)
       /\ k = from - 1 \/ StateAt(k) # StateAt(k - 1) => h = k

LEMMA ResolvedRange ==
  ASSUME NEW prior, IsHistory(prior), NEW from \in Nat, NEW to \in Nat, 1 <= from, from <= to,
         \A h \in from - 1 .. to : StateAt(h) \in Values
  PROVE  LET g == ResolvedHistory(prior, ProvenValues(from, to))
         IN  /\ IsHistory(g)
             /\ Range(prior) \subseteq Range(g)
             /\ \A e \in Range(g) : e \in Range(prior) \/ \E h \in from - 1 .. to :
                  /\ e = EntryAt(h, -1, StateAt(h), "verified")
                  /\ \E v \in Range(ProvenValues(from, to)) : v.height = h /\ v.params = StateAt(h)
             /\ \A k \in Nat : k < from - 1 => At(g, k, EndOfBlock) = At(prior, k, EndOfBlock)
             /\ \A k \in from - 1 .. to :
                  Holds(g, k, StateAt(k)) \/ (At(g, k, EndOfBlock) = At(prior, k, EndOfBlock) /\ Overtakes(prior, k, from, to))
             /\ Holds(g, to + 1, StateAt(to)) \/ At(g, to + 1, EndOfBlock) = At(prior, to + 1, EndOfBlock)
<1> DEFINE values == ProvenValues(from, to)
           L == Len(values)
           g == ResolvedHistory(prior, values)
<1>1. ReadUpTo(values, from, to)
  BY ProvenValuesAre
<1> HIDE DEF values
<1>2. /\ L \in Nat \ {0} /\ values \in Seq([height : Nat, params : Values])
      /\ \A m \in 1 .. L : values[m].height \in from - 1 .. to /\ values[m].params = StateAt(values[m].height)
      /\ \A a, b \in 1 .. L : a < b => values[a].height < values[b].height
      /\ values[1].height = from - 1
      /\ values[L].params = StateAt(to)
  BY <1>1 DEF ReadUpTo
<1>3. AreValues(values)
  BY <1>2 DEF AreValues
<1>4. /\ IsHistory(g)
      /\ Range(prior) \subseteq Range(g)
      /\ \A e \in Range(g) : e \in Range(prior) \/ \E m \in 1 .. L : e = ValueEntry(values, m)
  BY <1>3, ResolvedIs
<1>5. \A k \in Nat : InForceAt(g, prior, values, L, k)
  BY <1>2, <1>3, ResolvedInForce
<1> HIDE DEF g, L
<1>6. ASSUME NEW m \in 1 .. L
      PROVE  \E h \in from - 1 .. to :
               /\ ValueEntry(values, m) = EntryAt(h, -1, StateAt(h), "verified")
               /\ \E v \in Range(values) : v.height = h /\ v.params = StateAt(h)
  <2>1. values[m] \in Range(values)
    BY <1>2 DEF L, Range
  <2> QED
    BY <1>2, <2>1 DEF ValueEntry
<1>7. ASSUME NEW k \in Nat, k < from - 1 PROVE At(g, k, EndOfBlock) = At(prior, k, EndOfBlock)
  <2>1. \A m \in 1 .. L : k < values[m].height
    BY <1>2, <1>7
  <2> QED
    BY <1>5, <2>1 DEF InForceAt
<1>8. ASSUME NEW k \in from - 1 .. to
      PROVE  Holds(g, k, StateAt(k)) \/ (At(g, k, EndOfBlock) = At(prior, k, EndOfBlock) /\ Overtakes(prior, k, from, to))
  <2>1. PICK m \in 1 .. L :
          /\ values[m].height <= k /\ \A l \in m + 1 .. L : k < values[l].height
          /\ values[m].params = StateAt(k) /\ values[m].height \in from - 1 .. k
          /\ k = from - 1 \/ StateAt(k) # StateAt(k - 1) => values[m].height = k
    BY <1>1, LastRead DEF L
  <2>2. k \in Nat
    OBVIOUS
  <2>3. /\ At(g, k, EndOfBlock) # NoEntry
        /\ \/ At(g, k, EndOfBlock).params = values[m].params
           \/ At(g, k, EndOfBlock) = At(prior, k, EndOfBlock) /\ Past(At(prior, k, EndOfBlock), values[m].height, -1)
    BY <1>5, <2>1, <2>2 DEF InForceAt
  <2> QED
    BY <2>1, <2>3 DEF Holds, Overtakes
<1>9. Holds(g, to + 1, StateAt(to)) \/ At(g, to + 1, EndOfBlock) = At(prior, to + 1, EndOfBlock)
  <2>1. L \in 1 .. L /\ values[L].height <= to + 1 /\ to + 1 \in Nat /\ L + 1 .. L = {}
    BY <1>2
  <2>2. InForceAt(g, prior, values, L, to + 1)
    BY <1>5, <2>1
  <2> QED
    BY <1>2, <2>1, <2>2 DEF InForceAt, Holds
<1> QED
  BY <1>4, <1>6, <1>7, <1>8, <1>9 DEF g, values


-----------------------------------------------------------------------------
(* The history never moves ahead of the record. *)

ChainInv ==
  /\ StartHeight - 1 <= Len(chain)
  /\ \A h \in 1 .. Len(chain) :
       /\ chain[h].params \in Values /\ chain[h].change \in {"none", "tx", "finalize", "silent"}
       /\ \A s \in chain[h].pubs : s.promise \in StartHeight + 1 .. h /\ s.tx \in 0 .. EndOfBlock - 1
  /\ \A h \in 2 .. Len(chain) : chain[h].change = "none" <=> StateAt(h) = StateAt(h - 1)

(* A history of the blocks up to P: in key order, no entry from after the  *)
(* block that follows, and none from inside a block that changed nothing.  *)
Kept(hst, P) ==
  /\ IsHistory(hst)
  /\ \A e \in Range(hst) : By(e, P + 1, -1) /\ (e.tx # -1 => e.height \in 1 .. P /\ chain[e.height].change = "tx")

Backed(hst) ==
  \A e \in Range(hst) :
    /\ e.source = "reconcile" => \E u \in SilentRanges : u.to + 1 = e.height
    /\ e.source = "verified" =>
         \E u \in SilentRanges : \E v \in Range(u.values) : v.height = e.height /\ v.params = e.params

Marker(last, P) == last \in Nat /\ last <= P /\ (last # 0 => StartHeight <= last)

(* The inductive invariant of HistoryNeverAheadOfRecord.  What is true of   *)
(* memory is true of state.json, which is what a restart resumes with.     *)
HistoryInv ==
  /\ Cursor /\ ChainInv /\ IsSeq(rangeFile) /\ torn = FALSE
  /\ StartHeight - 1 <= state.last
  /\ Kept(hist, Processed) /\ Backed(hist) /\ Marker(lastRec, Processed)
  /\ Kept(state.hist, state.last) /\ Backed(state.hist) /\ Marker(state.lastRec, state.last)
  /\ pc = "reconcile" => lastRec < next

LEMMA ProcessedTypes ==
  ASSUME HistoryInv
  PROVE  /\ next \in Nat /\ Processed \in Nat /\ Processed <= Len(chain) /\ Len(chain) \in Nat
         /\ StartHeight \in Nat /\ StartHeight > 1 /\ StartHeight - 1 <= Processed
         /\ state.last \in Nat /\ state.last <= Processed
         /\ \A h \in 1 .. Len(chain) : StateAt(h) \in Values
<1>1. Len(chain) \in Nat
  BY LenProperties DEF HistoryInv, Cursor, IsSeq
<1> QED
  BY <1>1, ScannerAssumption DEF HistoryInv, ChainInv, Cursor, Processed, StateAt

LEMMA InitHistory == Init => HistoryInv
<1> SUFFICES ASSUME Init PROVE HistoryInv
  OBVIOUS
<1>1. StartHeight \in Nat /\ StartHeight > 1 /\ ParamValues \subseteq Values
  BY ScannerAssumption DEF Values
<1>2. PICK v \in ParamValues :
        /\ chain = [h \in 1 .. StartHeight - 1 |-> [change |-> "none", params |-> v, pubs |-> {}]]
        /\ hist = NewParamHistory(StartHeight, v)
  BY DEF Init
<1>3. /\ next = StartHeight /\ pc = "block" /\ lastRec = 0 /\ rangeFile = <<>> /\ torn = FALSE
      /\ state.last = StartHeight - 1 /\ state.hist = hist /\ state.lastRec = 0
  BY DEF Init, Snapshot
<1>4. Cursor
  BY InitOnce DEF OnceInv
<1>5. DOMAIN chain = 1 .. StartHeight - 1 /\ Len(chain) = StartHeight - 1
  <2>1. DOMAIN chain = 1 .. StartHeight - 1 /\ chain \in Seq(Range(chain))
    BY <1>2, <1>4 DEF Cursor, IsSeq
  <2>2. Len(chain) \in Nat /\ DOMAIN chain = 1 .. Len(chain)
    BY <2>1, LenProperties
  <2> QED
    BY <1>1, <2>1, <2>2
<1>6. ChainInv
  <2>1. \A h \in 1 .. StartHeight - 1 : chain[h].params = v /\ chain[h].change = "none" /\ chain[h].pubs = {}
    BY <1>2
  <2>2. v \in Values
    BY <1>1
  <2> QED
    BY <1>1, <1>5, <2>1, <2>2 DEF ChainInv, StateAt
<1>7. /\ IsHistory(hist)
      /\ \A e \in Range(hist) : e.height = StartHeight /\ e.tx = -1 /\ e.source = "seed"
  <2> DEFINE e == EntryAt(StartHeight, -1, v, "seed")
  <2>1. e \in Entry /\ e.height = StartHeight /\ e.tx = -1 /\ e.source = "seed"
    BY <1>1 DEF EntryAt, Entry, Sources
  <2> HIDE DEF e
  <2>2. hist = <<e>>
    BY <1>2 DEF NewParamHistory, e
  <2>3. hist \in Seq(Entry) /\ Len(hist) = 1 /\ hist[1] = e
    BY <2>1, <2>2
  <2>4. IsHistory(hist)
    BY <2>3 DEF IsHistory
  <2> QED
    BY <2>1, <2>2, <2>4 DEF Range
<1>8. IsSeq(rangeFile)
  BY <1>3, EmptySeq DEF IsSeq
<1>9. Processed = StartHeight - 1
  BY <1>3 DEF Processed
<1>10. Kept(hist, StartHeight - 1) /\ Backed(hist)
  BY <1>1, <1>7 DEF Kept, Backed, By, KeyLess
<1>11. Marker(0, StartHeight - 1)
  BY <1>1 DEF Marker
<1> QED
  BY <1>1, <1>3, <1>4, <1>6, <1>8, <1>9, <1>10, <1>11 DEF HistoryInv

(* What does not change with the chain growing and lines being appended. *)
LEMMA KeptOn ==
  ASSUME HistoryInv, NEW hst, NEW P \in Nat, NEW Q \in Nat, P <= Q, P <= Len(chain), Kept(hst, P),
         \A h \in 1 .. Len(chain) : chain'[h] = chain[h]
  PROVE  Kept(hst, Q)'
<1>1. Len(chain) \in Nat
  BY ProcessedTypes
<1>2. ASSUME NEW e \in Range(hst), By(e, P + 1, -1) PROVE By(e, Q + 1, -1)
  <2>1. e.height \in Nat /\ e.tx \in Int
    BY HistoryTypes DEF Kept, Entry
  <2> QED
    BY <1>2, <2>1 DEF By, KeyLess
<1>3. ASSUME NEW e \in Range(hst), e.tx # -1 PROVE e.height \in 1 .. Q /\ chain'[e.height].change = "tx"
  <2>1. e.height \in 1 .. P /\ chain[e.height].change = "tx"
    BY <1>3 DEF Kept
  <2> QED
    BY <1>1, <2>1
<1> QED
  BY <1>2, <1>3 DEF Kept

LEMMA BackedOn ==
  ASSUME NEW hst, Backed(hst), SilentRanges \subseteq SilentRanges'
  PROVE  Backed(hst)'
BY DEF Backed


LEMMA EntryIs ==
  ASSUME NEW h, NEW i, NEW v, NEW src
  PROVE  /\ EntryAt(h, i, v, src).height = h /\ EntryAt(h, i, v, src).tx = i
         /\ EntryAt(h, i, v, src).params = v /\ EntryAt(h, i, v, src).source = src
BY DEF EntryAt

(* What the history learns from a block. *)
LEMMA LearnIs ==
  ASSUME HistoryInv, pc = "block", next <= Len(chain)
  PROVE  /\ IsHistory(Learn(next)) /\ Range(hist) \subseteq Range(Learn(next))
         /\ \A e \in Range(Learn(next)) : e \in Range(hist) \/
              /\ e.source \in {"event", "finalize"} /\ By(e, next + 1, -1)
              /\ e.tx # -1 => e.height = next /\ chain[next].change = "tx"
<1>1. next \in Nat /\ next > 0 /\ next \in 1 .. Len(chain)
  BY ProcessedTypes DEF Processed
<1>2. IsHistory(hist) /\ chain[next].params \in Values
  BY <1>1 DEF HistoryInv, Kept, ChainInv
<1>3. /\ EventTx + 1 \in Nat /\ EventTx + 1 \in Int /\ next + 1 \in Nat /\ -1 \in Int
      /\ "event" \in Sources /\ "finalize" \in Sources
  BY <1>1, ScannerAssumption, EndOfBlockAssumption DEF Sources
<1>4. CASE chain[next].change = "tx"
  <2> DEFINE e == EntryAt(next, EventTx + 1, chain[next].params, "event")
             g == Add(hist, next, EventTx + 1, "event", chain[next].params)
  <2>1. Learn(next) = g
    BY <1>4 DEF Learn, AddTxEvent
  <2>2. IsHistory(g) /\ Range(hist) \subseteq Range(g) /\ Range(g) \subseteq Range(hist) \cup {e}
    BY <1>1, <1>2, <1>3, AddIs
  <2>3. e.height = next /\ e.tx = EventTx + 1 /\ e.source = "event"
    BY EntryIs
  <2>4. By(e, next + 1, -1)
    BY <1>1, <1>3, <2>3 DEF By, KeyLess
  <2> HIDE DEF e, g
  <2> QED
    BY <1>4, <2>1, <2>2, <2>3, <2>4
<1>5. CASE chain[next].change = "finalize"
  <2> DEFINE e == EntryAt(next + 1, -1, chain[next].params, "finalize")
             g == Add(hist, next + 1, -1, "finalize", chain[next].params)
  <2>1. Learn(next) = g
    BY <1>5 DEF Learn, AddFinalizeEvent
  <2>2. IsHistory(g) /\ Range(hist) \subseteq Range(g) /\ Range(g) \subseteq Range(hist) \cup {e}
    BY <1>1, <1>2, <1>3, AddIs
  <2>3. e.height = next + 1 /\ e.tx = -1 /\ e.source = "finalize"
    BY EntryIs
  <2>4. By(e, next + 1, -1)
    BY <1>1, <1>3, <2>3 DEF By, KeyLess
  <2> HIDE DEF e, g
  <2> QED
    BY <1>5, <2>1, <2>2, <2>3, <2>4
<1>6. CASE chain[next].change \notin {"tx", "finalize"}
  BY <1>2, <1>6 DEF Learn
<1> QED
  BY <1>4, <1>5, <1>6

(* What a check that found a difference makes of the history. *)
LEMMA DiffersIs ==
  ASSUME HistoryInv, pc = "reconcile", NEW resolution \in {"verified", "unresolvable"}, NEW u, u = SilentChange(next, resolution),
         NEW g, g = ResolvedHistory(Add(hist, next + 1, -1, "reconcile", StateAt(next)), u.values)
  PROVE  /\ IsHistory(g) /\ Range(hist) \subseteq Range(g)
         /\ \A e \in Range(g) : e \in Range(hist) \/
              /\ By(e, next + 1, -1) /\ e.tx = -1
              /\ \/ e.source = "reconcile" /\ u.to + 1 = e.height
                 \/ e.source = "verified" /\ \E v \in Range(u.values) : v.height = e.height /\ v.params = e.params
<1> DEFINE prior == Add(hist, next + 1, -1, "reconcile", StateAt(next))
           r == EntryAt(next + 1, -1, StateAt(next), "reconcile")
<1>1. /\ next \in Nat /\ next \in 1 .. Len(chain) /\ Len(chain) \in Nat /\ lastRec < next /\ lastRec \in Nat
      /\ StartHeight \in Nat /\ StartHeight > 1 /\ StartHeight - 1 < next
      /\ \A h \in 1 .. Len(chain) : StateAt(h) \in Values
  <2>1. Processed = next
    BY DEF Processed
  <2>2. lastRec < next /\ lastRec \in Nat
    BY DEF HistoryInv, Marker
  <2>3. StartHeight - 1 <= state.last /\ state.last < next /\ state.last \in Nat
    BY DEF HistoryInv, Cursor
  <2> QED
    BY <2>1, <2>2, <2>3, ProcessedTypes
<1>2. /\ Since \in Nat /\ Since + 1 \in Nat /\ 1 <= Since /\ Since + 1 <= next /\ (Since + 1) - 1 = Since
      /\ \A h \in Since .. next : h \in 1 .. Len(chain) /\ StateAt(h) \in Values
  BY <1>1 DEF Since
<1>3. IsHistory(hist) /\ StateAt(next) \in Values /\ next + 1 \in Nat /\ -1 \in Int /\ "reconcile" \in Sources
  BY <1>1 DEF HistoryInv, Kept, Sources
<1>4. IsHistory(prior) /\ Range(hist) \subseteq Range(prior) /\ Range(prior) \subseteq Range(hist) \cup {r}
  BY <1>3, AddIs
<1>5. By(r, next + 1, -1) /\ r.tx = -1 /\ r.source = "reconcile" /\ r.height = next + 1
  BY <1>1, EntryIs DEF By, KeyLess
<1>6. u.to = next /\ u.values = IF resolution = "verified" THEN ProvenValues(Since + 1, next) ELSE <<>>
  BY DEF SilentChange
<1> HIDE DEF prior, r
<1>7. CASE resolution = "verified"
  <2>1. g = ResolvedHistory(prior, ProvenValues(Since + 1, next)) /\ u.values = ProvenValues(Since + 1, next)
    BY <1>6, <1>7 DEF prior
  <2>2. /\ IsHistory(g) /\ Range(prior) \subseteq Range(g)
        /\ \A e \in Range(g) : e \in Range(prior) \/ \E h \in Since .. next :
             /\ e = EntryAt(h, -1, StateAt(h), "verified")
             /\ \E v \in Range(ProvenValues(Since + 1, next)) : v.height = h /\ v.params = StateAt(h)
    BY <1>1, <1>2, <1>4, <2>1, ResolvedRange
  <2>3. ASSUME NEW e \in Range(g), e \notin Range(prior)
        PROVE  /\ By(e, next + 1, -1) /\ e.tx = -1
               /\ e.source = "verified" /\ \E v \in Range(u.values) : v.height = e.height /\ v.params = e.params
    <3>1. PICK h \in Since .. next :
             /\ e = EntryAt(h, -1, StateAt(h), "verified")
             /\ \E v \in Range(ProvenValues(Since + 1, next)) : v.height = h /\ v.params = StateAt(h)
      BY <2>2, <2>3
    <3>2. e.height = h /\ e.tx = -1 /\ e.source = "verified" /\ e.params = StateAt(h)
      BY <3>1, EntryIs
    <3>3. By(e, next + 1, -1)
      BY <1>1, <1>2, <3>2 DEF By, KeyLess
    <3> QED
      BY <2>1, <3>1, <3>2, <3>3
  <2> QED
    BY <1>4, <1>5, <1>6, <2>2, <2>3
<1>8. CASE resolution # "verified"
  <2>1. g = ResolvedHistory(prior, <<>>)
    BY <1>6, <1>8 DEF prior
  <2>2. AreValues(<<>>) /\ 1 .. Len(<<>>) = {}
    BY DEF AreValues
  <2>3. IsHistory(g) /\ Range(prior) \subseteq Range(g) /\ \A e \in Range(g) : e \in Range(prior)
    BY <1>4, <2>1, <2>2, ResolvedIs
  <2> QED
    BY <1>4, <1>5, <1>6, <2>3
<1> QED
  BY <1>7, <1>8


(* A step that keeps what is on record and leaves state.json alone. *)
LEMMA HistoryMoves ==
  ASSUME HistoryInv, Cursor', ChainInv', \A h \in 1 .. Len(chain) : chain'[h] = chain[h],
         IsSeq(rangeFile)', torn' = FALSE, SilentRanges \subseteq SilentRanges', state' = state,
         Kept(hist, Processed)', Backed(hist)', Marker(lastRec, Processed)', (pc = "reconcile" => lastRec < next)'
  PROVE  HistoryInv'
<1>1. state.last \in Nat /\ state.last <= Len(chain)
  BY ProcessedTypes
<1>2. Kept(state.hist, state.last) /\ Backed(state.hist) /\ Marker(state.lastRec, state.last) /\ StartHeight - 1 <= state.last
  BY DEF HistoryInv
<1> DEFINE hst == state.hist
           P == state.last
<1>3. state'.hist = state.hist /\ state'.last = state.last /\ state'.lastRec = state.lastRec
  OBVIOUS
<1>4. PICK x, y : x = state.hist /\ y = state.last
  OBVIOUS
<1>5. Kept(x, y)'
  BY <1>1, <1>2, <1>4, KeptOn
<1>6. Backed(x)'
  BY <1>2, <1>4, BackedOn
<1>7. Kept(state.hist, state.last)' /\ Backed(state.hist)'
  BY <1>3, <1>4, <1>5, <1>6 DEF Kept, Backed
<1> QED
  BY <1>2, <1>3, <1>7 DEF HistoryInv, Marker

(* A step that leaves the history where it is. *)
LEMMA HistoryStays ==
  ASSUME HistoryInv, Cursor', ChainInv', \A h \in 1 .. Len(chain) : chain'[h] = chain[h],
         IsSeq(rangeFile)', torn' = FALSE, SilentRanges \subseteq SilentRanges', state' = state,
         hist' = hist, Processed <= Processed', Processed' \in Nat,
         Marker(lastRec, Processed)', (pc = "reconcile" => lastRec < next)'
  PROVE  HistoryInv'
<1>1. Processed \in Nat /\ Processed <= Len(chain) /\ Kept(hist, Processed) /\ Backed(hist)
  BY ProcessedTypes DEF HistoryInv
<1>2. PICK x, y, z : x = hist /\ y = Processed /\ z = Processed'
  OBVIOUS
<1>3. Kept(x, z)' /\ Backed(x)'
  BY <1>1, <1>2, KeptOn, BackedOn
<1>4. Kept(hist, Processed)' /\ Backed(hist)'
  BY <1>2, <1>3 DEF Kept, Backed
<1> QED
  BY <1>4, HistoryMoves

LEMMA BlockDrawn ==
  ASSUME NewBlock
  PROVE  \E change \in {"none"} \cup ChangeKinds, v \in ParamValues, settled \in Settlements(Len(chain) + 1) :
           /\ (change = "none" <=> v = StateAt(Len(chain) + 1 - 1))
           /\ chain' = Append(chain, [change |-> change, params |-> v, pubs |-> settled])
BY DEF NewBlock

LEMMA NewBlockHistory ==
  ASSUME HistoryInv, Cursor', NewBlock
  PROVE  HistoryInv'
<1>1. /\ UNCHANGED <<next, pc, hist, lastRec, state, rangeFile, torn>> /\ Len(chain) < next /\ pc \in {"block", "reconcile", "checkpoint"}
  BY DEF NewBlock, memory, HistoryInv, Cursor
<1>2. /\ next \in Nat /\ Processed \in Nat /\ Processed <= Len(chain) /\ Len(chain) \in Nat
      /\ StartHeight \in Nat /\ StartHeight > 1 /\ StartHeight - 1 <= Processed
  BY ProcessedTypes
<1>3. PICK change \in {"none"} \cup ChangeKinds, v \in ParamValues, settled \in Settlements(Len(chain) + 1) :
        /\ (change = "none" <=> v = StateAt(Len(chain) + 1 - 1))
        /\ chain' = Append(chain, [change |-> change, params |-> v, pubs |-> settled])
  BY BlockDrawn
<1> DEFINE blk == [change |-> change, params |-> v, pubs |-> settled]
           h == Len(chain) + 1
<1>4. /\ Len(chain') = Len(chain) + 1 /\ chain'[h] = blk
      /\ \A k \in 1 .. Len(chain) : chain'[k] = chain[k]
  BY <1>3, AppendToSeq DEF HistoryInv, Cursor
<1>5. /\ blk.params \in Values /\ blk.change \in {"none", "tx", "finalize", "silent"}
      /\ \A s \in blk.pubs : s.promise \in StartHeight + 1 .. h /\ s.tx \in 0 .. EndOfBlock - 1
      /\ blk.change = change /\ blk.params = v
  BY ScannerAssumption DEF Values, Settlements
<1> HIDE DEF blk
<1>6. \A k \in 1 .. Len(chain) + 1 : k = h \/ k \in 1 .. Len(chain)
  BY <1>2
<1>7. ChainInv'
  <2>1. StartHeight - 1 <= Len(chain')
    BY <1>2, <1>4 DEF HistoryInv, ChainInv
  <2>2. ASSUME NEW k \in 1 .. Len(chain')
        PROVE  /\ chain'[k].params \in Values /\ chain'[k].change \in {"none", "tx", "finalize", "silent"}
               /\ \A s \in chain'[k].pubs : s.promise \in StartHeight + 1 .. k /\ s.tx \in 0 .. EndOfBlock - 1
    <3>1. CASE k = h
      BY <1>4, <1>5, <3>1
    <3>2. CASE k \in 1 .. Len(chain)
      BY <1>4, <3>2 DEF HistoryInv, ChainInv
    <3> QED
      BY <1>4, <1>6, <3>1, <3>2
  <2>3. ASSUME NEW k \in 2 .. Len(chain') PROVE (chain[k].change = "none" <=> StateAt(k) = StateAt(k - 1))'
    <3>1. CASE k = h
      <4>1. k - 1 = Len(chain) /\ k - 1 \in 1 .. Len(chain) /\ Len(chain) + 1 - 1 = Len(chain)
        BY <1>2, <3>1
      <4> QED
        BY <1>3, <1>4, <1>5, <3>1, <4>1 DEF StateAt
    <3>2. CASE k \in 1 .. Len(chain)
      <4>1. k \in 2 .. Len(chain) /\ k - 1 \in 1 .. Len(chain)
        BY <1>2, <3>2
      <4>2. chain[k].change = "none" <=> StateAt(k) = StateAt(k - 1)
        BY <4>1 DEF HistoryInv, ChainInv
      <4> QED
        BY <1>4, <3>2, <4>1, <4>2 DEF StateAt
    <3>3. k \in 1 .. Len(chain) + 1
      BY <1>2, <1>4
    <3> QED
      BY <1>6, <3>1, <3>2, <3>3
  <2> QED
    BY <2>1, <2>2, <2>3 DEF ChainInv
<1>8. Processed' = Processed /\ SilentRanges' = SilentRanges
  BY <1>1 DEF Processed, SilentRanges
<1>9. IsSeq(rangeFile)' /\ torn' = FALSE /\ Marker(lastRec, Processed)' /\ (pc = "reconcile" => lastRec < next)'
  BY <1>1, <1>8 DEF HistoryInv, IsSeq, Marker
<1>10. Processed <= Processed' /\ Processed' \in Nat
  BY <1>2, <1>8
<1>11. hist' = hist /\ state' = state /\ SilentRanges \subseteq SilentRanges'
  BY <1>1, <1>8
<1> QED
  BY <1>4, <1>7, <1>9, <1>10, <1>11, HistoryStays


(* A range goes on record as it is where no line before it was cut short. *)
LEMMA RangeAppended ==
  ASSUME IsSeq(rangeFile), torn = FALSE, NEW u, AppendRange(u)
  PROVE  /\ IsSeq(rangeFile)' /\ torn' = FALSE /\ SilentRanges \subseteq SilentRanges'
         /\ u.kind = "silent_change" => u \in SilentRanges'
<1>1. rangeFile' = Append(rangeFile, u) /\ torn' = FALSE
  BY DEF AppendRange
<1>2. /\ IsSeq(Append(rangeFile, u)) /\ Len(rangeFile) \in Nat
      /\ DOMAIN rangeFile = 1 .. Len(rangeFile) /\ DOMAIN Append(rangeFile, u) = 1 .. Len(rangeFile) + 1
      /\ Append(rangeFile, u)[Len(rangeFile) + 1] = u
      /\ \A j \in 1 .. Len(rangeFile) : Append(rangeFile, u)[j] = rangeFile[j]
  <2>1. PICK s : s = rangeFile
    OBVIOUS
  <2>2. IsSeq(s)
    BY <2>1
  <2>3. /\ IsSeq(Append(s, u)) /\ Len(s) \in Nat
        /\ DOMAIN s = 1 .. Len(s) /\ DOMAIN Append(s, u) = 1 .. Len(s) + 1
    BY <2>2, AppendToSeq
  <2>4. Append(s, u)[Len(s) + 1] = u /\ \A j \in 1 .. Len(s) : Append(s, u)[j] = s[j]
    BY <2>2, AppendToSeq
  <2> QED
    BY <2>1, <2>3, <2>4
<1>3. Range(rangeFile) \subseteq Range(rangeFile') /\ u \in Range(rangeFile')
  <2>1. Len(rangeFile) + 1 \in 1 .. Len(rangeFile) + 1 /\ \A j \in 1 .. Len(rangeFile) : j \in 1 .. Len(rangeFile) + 1
    BY <1>2
  <2> QED
    BY <1>1, <1>2, <2>1 DEF Range
<1> QED
  BY <1>1, <1>2, <1>3 DEF SilentRanges, IsSeq

LEMMA BlockDoneHistory ==
  ASSUME HistoryInv, Cursor', ScanBlock \/ ScanGap
  PROVE  HistoryInv'
<1>1. /\ pc = "block" /\ next <= Len(chain) /\ UNCHANGED <<chain, next, lastRec, state, rangeFile, torn>>
      /\ pc' \in {"reconcile", "checkpoint"} /\ (hist' = Learn(next) \/ hist' = hist)
  BY DEF ScanBlock, ScanGap, AfterBlock
<1>2. /\ next \in Nat /\ Processed \in Nat /\ Processed = next - 1 /\ next > 0 /\ Processed' = next
      /\ SilentRanges' = SilentRanges
  BY <1>1, ProcessedTypes DEF Processed, SilentRanges
<1>3. Marker(lastRec, Processed)' /\ (pc = "reconcile" => lastRec < next)'
  BY <1>1, <1>2 DEF HistoryInv, Marker
<1>4. ChainInv' /\ IsSeq(rangeFile)' /\ torn' = FALSE
  BY <1>1 DEF HistoryInv, ChainInv, StateAt, IsSeq
<1>5. CASE hist' = hist
  <2>1. /\ \A h \in 1 .. Len(chain) : chain'[h] = chain[h]
        /\ state' = state /\ SilentRanges \subseteq SilentRanges' /\ Processed <= Processed' /\ Processed' \in Nat
    BY <1>1, <1>2
  <2> QED
    BY <1>3, <1>4, <1>5, <2>1, HistoryStays
<1>6. CASE hist' = Learn(next)
  <2>1. PICK g : g = hist'
    OBVIOUS
  <2>2. /\ IsHistory(g)
        /\ \A e \in Range(g) : e \in Range(hist) \/
             /\ e.source \in {"event", "finalize"} /\ By(e, next + 1, -1)
             /\ e.tx # -1 => e.height = next /\ chain[next].change = "tx"
    BY <1>1, <1>6, <2>1, LearnIs
  <2>3. Kept(hist, Processed) /\ Backed(hist)
    BY DEF HistoryInv
  <2>4. Kept(g, next)
    <3>1. ASSUME NEW e \in Range(hist) PROVE By(e, next + 1, -1) /\ (e.tx # -1 => e.height \in 1 .. next /\ chain[e.height].change = "tx")
      <4>1. e.height \in Nat /\ e.tx \in Int
        BY <2>3, HistoryTypes DEF Kept, Entry
      <4>2. By(e, Processed + 1, -1) /\ (e.tx # -1 => e.height \in 1 .. Processed /\ chain[e.height].change = "tx")
        BY <2>3 DEF Kept
      <4> QED
        BY <1>2, <4>1, <4>2 DEF By, KeyLess
    <3>2. next \in 1 .. next
      BY <1>2
    <3> QED
      BY <2>2, <3>1, <3>2 DEF Kept
  <2>5. Backed(g)
    BY <2>2, <2>3 DEF Backed
  <2>6. Kept(hist, Processed)' /\ Backed(hist)'
    <3>1. PICK z : z = next
      OBVIOUS
    <3>2. Kept(g, z)' /\ Backed(g)'
      BY <1>1, <1>2, <2>4, <2>5, <3>1 DEF Kept, Backed
    <3>3. hist' = g /\ Processed' = z
      BY <1>2, <2>1, <3>1
    <3> QED
      BY <3>2, <3>3 DEF Kept, Backed
  <2>7. \A h \in 1 .. Len(chain) : chain'[h] = chain[h]
    BY <1>1
  <2>8. state' = state /\ SilentRanges \subseteq SilentRanges'
    BY <1>1, <1>2
  <2> QED
    BY <1>3, <1>4, <2>6, <2>7, <2>8, HistoryMoves
<1> QED
  BY <1>1, <1>5, <1>6

(* A check that moves no history. *)
LEMMA CheckedHistory ==
  ASSUME PartialWrites = FALSE, HistoryInv, Cursor', ReconcileSkipped \/ ReconcileAgrees \/ ReconcileUnrecorded
  PROVE  HistoryInv'
<1>1. /\ pc = "reconcile" /\ pc' = "checkpoint" /\ UNCHANGED <<chain, next, state, hist>>
      /\ lastRec' = lastRec \/ lastRec' = next
  BY DEF ReconcileSkipped, ReconcileAgrees, ReconcileUnrecorded, Reconciled
<1>2. IsSeq(rangeFile)' /\ torn' = FALSE /\ SilentRanges \subseteq SilentRanges'
  <2>1. IsSeq(rangeFile) /\ torn = FALSE
    BY DEF HistoryInv
  <2>2. \/ rangeFile' = rangeFile /\ torn' \in {torn} \cup (IF PartialWrites THEN {TRUE} ELSE {})
        \/ AppendRange(CheckSkipped(next))
    BY DEF ReconcileSkipped, ReconcileAgrees, ReconcileUnrecorded, AppendFails
  <2>3. CASE rangeFile' = rangeFile /\ torn' \in {torn} \cup (IF PartialWrites THEN {TRUE} ELSE {})
    BY <2>1, <2>3 DEF IsSeq, SilentRanges
  <2>4. CASE AppendRange(CheckSkipped(next))
    BY <2>1, <2>4, RangeAppended
  <2> QED
    BY <2>2, <2>3, <2>4
<1>3. ChainInv' /\ \A h \in 1 .. Len(chain) : chain'[h] = chain[h]
  BY <1>1 DEF HistoryInv, ChainInv, StateAt
<1>4. /\ next \in Nat /\ Processed \in Nat /\ Processed = next /\ Processed' = next /\ StartHeight - 1 <= next /\ StartHeight \in Nat
      /\ lastRec < next
  BY <1>1, ProcessedTypes DEF Processed, HistoryInv
<1>5. Marker(lastRec, Processed)' /\ (pc = "reconcile" => lastRec < next)'
  <2>1. StartHeight <= next
    BY <1>1, <1>4 DEF HistoryInv, Cursor, Processed
  <2> QED
    BY <1>1, <1>4, <2>1 DEF HistoryInv, Marker
<1>6. hist' = hist /\ state' = state /\ Processed <= Processed' /\ Processed' \in Nat
  BY <1>1, <1>4
<1> QED
  BY <1>2, <1>3, <1>5, <1>6, HistoryStays


(* The range is on record before the history takes its values. *)
LEMMA DiffersHistory ==
  ASSUME HistoryInv, Cursor', ReconcileDiffers
  PROVE  HistoryInv'
<1>1. /\ pc = "reconcile" /\ pc' = "checkpoint" /\ UNCHANGED <<chain, next, state>> /\ lastRec' = next
  BY DEF ReconcileDiffers, Reconciled
<1>2. PICK resolution \in {"verified", "unresolvable"} :
         /\ AppendRange(SilentChange(next, resolution))
         /\ hist' = ResolvedHistory(Add(hist, next + 1, -1, "reconcile", StateAt(next)), SilentChange(next, resolution).values)
  BY DEF ReconcileDiffers
<1>3. PICK u : u = SilentChange(next, resolution)
  OBVIOUS
<1>4. PICK g : g = hist'
  OBVIOUS
<1>5. /\ IsHistory(g) /\ Range(hist) \subseteq Range(g)
      /\ \A e \in Range(g) : e \in Range(hist) \/
           /\ By(e, next + 1, -1) /\ e.tx = -1
           /\ \/ e.source = "reconcile" /\ u.to + 1 = e.height
              \/ e.source = "verified" /\ \E v \in Range(u.values) : v.height = e.height /\ v.params = e.params
  BY <1>1, <1>2, <1>3, <1>4, DiffersIs
<1>6. IsSeq(rangeFile)' /\ torn' = FALSE /\ SilentRanges \subseteq SilentRanges' /\ u \in SilentRanges'
  <2>1. u.kind = "silent_change"
    BY <1>3 DEF SilentChange
  <2>2. IsSeq(rangeFile) /\ torn = FALSE /\ AppendRange(u)
    BY <1>2, <1>3 DEF HistoryInv
  <2> QED
    BY <2>1, <2>2, RangeAppended
<1>7. /\ next \in Nat /\ Processed = next /\ Processed' = next /\ StartHeight - 1 <= next /\ StartHeight \in Nat
      /\ lastRec < next /\ next <= Len(chain)
  BY <1>1, ProcessedTypes DEF Processed, HistoryInv
<1>8. ChainInv' /\ \A h \in 1 .. Len(chain) : chain'[h] = chain[h]
  BY <1>1 DEF HistoryInv, ChainInv, StateAt
<1>9. Marker(lastRec, Processed)' /\ (pc = "reconcile" => lastRec < next)'
  <2>1. StartHeight <= next
    BY <1>1, <1>7 DEF HistoryInv, Cursor, Processed
  <2> QED
    BY <1>1, <1>7, <2>1 DEF Marker
<1>10. PICK z : z = next
  OBVIOUS
<1>11. Kept(g, z)'
  <2>1. Kept(g, next)
    BY <1>5, <1>7 DEF Kept, HistoryInv
  <2> QED
    BY <1>1, <1>10, <2>1 DEF Kept
<1>12. Backed(g)'
  <2>1. Backed(hist)
    BY DEF HistoryInv
  <2>2. ASSUME NEW e \in Range(g), e.source = "reconcile" PROVE \E w \in SilentRanges' : w.to + 1 = e.height
    <3>1. CASE e \in Range(hist)
      BY <1>6, <2>1, <2>2, <3>1 DEF Backed
    <3>2. CASE e \notin Range(hist)
      BY <1>5, <1>6, <2>2, <3>2
    <3> QED
      BY <3>1, <3>2
  <2>3. ASSUME NEW e \in Range(g), e.source = "verified"
        PROVE  \E w \in SilentRanges' : \E v \in Range(w.values) : v.height = e.height /\ v.params = e.params
    <3>1. CASE e \in Range(hist)
      BY <1>6, <2>1, <2>3, <3>1 DEF Backed
    <3>2. CASE e \notin Range(hist)
      BY <1>5, <1>6, <2>3, <3>2
    <3> QED
      BY <3>1, <3>2
  <2> QED
    BY <2>2, <2>3 DEF Backed
<1>13. Kept(hist, Processed)' /\ Backed(hist)'
  <2>1. hist' = g /\ Processed' = z
    BY <1>4, <1>7, <1>10
  <2> QED
    BY <1>11, <1>12, <2>1 DEF Kept, Backed
<1>14. state' = state
  BY <1>1
<1> QED
  BY <1>6, <1>8, <1>9, <1>13, <1>14, HistoryMoves

(* A checkpoint writes what memory holds; without one the next block begins. *)
LEMMA NextHeightHistory ==
  ASSUME HistoryInv, Cursor', Checkpoint \/ CatchUp
  PROVE  HistoryInv'
<1>1. /\ pc = "checkpoint" /\ pc' = "block" /\ next' = next + 1 /\ UNCHANGED <<chain, hist, lastRec, rangeFile, torn>>
      /\ \/ state' = state
         \/ state'.last = next /\ state'.hist = hist /\ state'.lastRec = lastRec
  BY DEF Checkpoint, CatchUp, Snapshot
<1>2. /\ next \in Nat /\ Processed = next /\ Processed' = next /\ SilentRanges' = SilentRanges
      /\ StartHeight - 1 <= next
  BY <1>1, ProcessedTypes DEF Processed, SilentRanges
<1>3. PICK x, z : x = hist /\ z = next
  OBVIOUS
<1>4. Kept(x, z)' /\ Backed(x)' /\ Marker(lastRec, z)
  BY <1>1, <1>2, <1>3 DEF HistoryInv, Kept, Backed
<1>5. hist' = x /\ Processed' = z
  BY <1>1, <1>2, <1>3
<1>6. Kept(hist, Processed)' /\ Backed(hist)' /\ Marker(lastRec, Processed)'
  BY <1>1, <1>4, <1>5 DEF Kept, Backed, Marker
<1>7. ChainInv' /\ IsSeq(rangeFile)' /\ torn' = FALSE
  BY <1>1 DEF HistoryInv, ChainInv, StateAt, IsSeq
<1>8. CASE state' = state
  <2>1. \A h \in 1 .. Len(chain) : chain'[h] = chain[h]
    BY <1>1
  <2>2. (pc = "reconcile" => lastRec < next)' /\ SilentRanges \subseteq SilentRanges'
    BY <1>1, <1>2
  <2> QED
    BY <1>6, <1>7, <1>8, <2>1, <2>2, HistoryMoves
<1>9. CASE state'.last = next /\ state'.hist = hist /\ state'.lastRec = lastRec
  <2>1. state'.hist = x /\ state'.last = z
    BY <1>3, <1>9
  <2>2. Kept(state.hist, state.last)' /\ Backed(state.hist)'
    BY <1>4, <2>1 DEF Kept, Backed
  <2>3. Marker(state.lastRec, state.last)' /\ StartHeight - 1 <= state'.last
    BY <1>2, <1>3, <1>4, <1>9 DEF Marker
  <2> QED
    BY <1>1, <1>6, <1>7, <2>2, <2>3 DEF HistoryInv
<1> QED
  BY <1>1, <1>8, <1>9

LEMMA CrashHistory ==
  ASSUME PartialWrites = FALSE, HistoryInv, Cursor', Crash
  PROVE  HistoryInv'
<1>1. /\ pc' = "block" /\ next' = state.last + 1 /\ UNCHANGED <<chain, state, rangeFile>>
      /\ hist' = state.hist /\ lastRec' = state.lastRec /\ torn' = torn
  BY DEF Crash
<1>2. state.last \in Nat /\ Processed' = state.last /\ SilentRanges' = SilentRanges
  BY <1>1, ProcessedTypes DEF Processed, SilentRanges
<1>3. PICK x, z : x = state.hist /\ z = state.last
  OBVIOUS
<1>4. Kept(x, z)' /\ Backed(x)'
  BY <1>1, <1>2, <1>3 DEF HistoryInv, Kept, Backed
<1>5. hist' = x /\ Processed' = z /\ state'.hist = x /\ state'.last = z
  BY <1>1, <1>2, <1>3
<1>6. Kept(hist, Processed)' /\ Backed(hist)' /\ Kept(state.hist, state.last)' /\ Backed(state.hist)'
  BY <1>4, <1>5 DEF Kept, Backed
<1>7. Marker(lastRec, Processed)' /\ Marker(state.lastRec, state.last)' /\ StartHeight - 1 <= state'.last
  BY <1>1, <1>2 DEF HistoryInv, Marker
<1>8. ChainInv' /\ IsSeq(rangeFile)' /\ torn' = FALSE
  BY <1>1 DEF HistoryInv, ChainInv, StateAt, IsSeq
<1> QED
  BY <1>1, <1>6, <1>7, <1>8 DEF HistoryInv

LEMMA HistoryInvKept ==
  ASSUME PartialWrites = FALSE, HistoryInv, Cursor', [Next]_scannerVars
  PROVE  HistoryInv'
<1>1. CASE NewBlock
  BY <1>1, NewBlockHistory
<1>2. CASE ScanBlock \/ ScanGap
  BY <1>2, BlockDoneHistory
<1>3. CASE ReconcileSkipped \/ ReconcileAgrees \/ ReconcileUnrecorded
  BY <1>3, CheckedHistory
<1>4. CASE ReconcileDiffers
  BY <1>4, DiffersHistory
<1>5. CASE Checkpoint \/ CatchUp
  BY <1>5, NextHeightHistory
<1>6. CASE Crash
  BY <1>6, CrashHistory
<1>7. CASE UNCHANGED scannerVars
  <2>1. UNCHANGED <<chain, next, pc, hist, lastRec, state, rangeFile, torn>>
    BY <1>7 DEF scannerVars, memory
  <2>2. Processed' = Processed /\ SilentRanges' = SilentRanges
    BY <2>1 DEF Processed, SilentRanges
  <2> QED
    BY <2>1, <2>2 DEF HistoryInv, ChainInv, StateAt, IsSeq, Kept, Backed, Marker
<1> QED
  BY <1>1, <1>2, <1>3, <1>4, <1>5, <1>6, <1>7 DEF Next

LEMMA HistoryInvAlways ==
  ASSUME PartialWrites = FALSE
  PROVE  Spec => [](OnceInv /\ HistoryInv)
<1>1. OnceInv /\ HistoryInv /\ [Next]_scannerVars => (OnceInv /\ HistoryInv)'
  BY OnceInvKept, HistoryInvKept DEF OnceInv
<1>2. Init => OnceInv /\ HistoryInv
  BY InitOnce, InitHistory
<1> QED
  BY <1>1, <1>2, PTL DEF Spec

(* Where no failed append leaves part of a line behind, no value the       *)
(* history took from a read of state, in memory or in state.json, is ahead *)
(* of the range on disk it came from, however the appends failed and       *)
(* wherever the scanner died.                                              *)
THEOREM HistoryNeverAhead ==
  ASSUME PartialWrites = FALSE
  PROVE  Spec => []HistoryNeverAheadOfRecord
<1>1. HistoryInv => HistoryNeverAheadOfRecord
  BY DEF HistoryInv, Backed, HistoryNeverAheadOfRecord
<1> QED
  BY <1>1, HistoryInvAlways, PTL


-----------------------------------------------------------------------------
(* No deadline is stamped too late. *)

(* The value after block k waits in the history for the next block. *)
Waiting(hst, k) == \E e \in Range(hst) : e.height = k + 1 /\ e.tx = -1 /\ e.params = StateAt(k)

UnresolvedTo(k, known) ==
  \E u \in known : u.resolution # "verified" /\ u.from \in Nat /\ u.from <= u.to /\ u.to = k

(* Where every change up to P was announced, the history ends with the     *)
(* params after block P; it holds those after every block before, or, of a *)
(* change in FinalizeBlock, has them for the next block; and such a value  *)
(* is in force at the end of its block or of the next one, unless a tx of  *)
(* that one replaced it or a range that ends there was never resolved.     *)
Follows(hst, P, known) ==
  /\ Holds(hst, P + 1, StateAt(P))
  /\ \A k \in StartHeight .. P : Holds(hst, k, StateAt(k)) \/ (chain[k].change = "finalize" /\ Waiting(hst, k))
  /\ \A k \in StartHeight .. P :
       chain[k].change = "finalize" /\ ~(k + 1 <= P /\ chain[k + 1].change = "tx") =>
         Holds(hst, k, StateAt(k)) \/ Holds(hst, k + 1, StateAt(k)) \/ UnresolvedTo(k + 1, known)

(* The last check that read state left its value in the history, or an     *)
(* unresolved range that ends with it.                                     *)
Checked(hst, last, known) == last # 0 => Holds(hst, last, StateAt(last)) \/ UnresolvedTo(last, known)

Announced(hst, P, last, known) == AllAnnounced(P) => Follows(hst, P, known) /\ Checked(hst, last, known)

NotLate(p) ==
  AllAnnounced(p.settle) /\ ~ReplacedAtPromise(p) /\ ~LeftUnresolved(p) => p.msu <= ServerDeadline(p)

OnChain(p) ==
  /\ p.settle \in 1 .. Len(chain) /\ p.promise \in StartHeight + 1 .. p.settle
  /\ p.tx \in 0 .. EndOfBlock - 1

(* The inductive invariant of StampNeverLate, together with HistoryInv. *)
StampInv ==
  /\ Announced(hist, Processed, lastRec, SilentRanges)
  /\ Announced(state.hist, state.last, state.lastRec, SilentRanges)
  /\ \A p \in Range(pubFile) : OnChain(p) /\ NotLate(p)

(* From the block after the last one on, the last entry is in force. *)
LEMMA AtTheEnd ==
  ASSUME NEW hst, NEW P \in Nat, Kept(hst, P), NEW v, Holds(hst, P + 1, v), NEW k \in Nat, P + 1 <= k
  PROVE  /\ At(hst, k, EndOfBlock) = At(hst, P + 1, EndOfBlock) /\ By(At(hst, k, EndOfBlock), P + 1, -1)
         /\ Holds(hst, k, v) /\ At(hst, P + 1, -1) = At(hst, P + 1, EndOfBlock)
<1> DEFINE last == At(hst, P + 1, EndOfBlock)
           e == At(hst, k, EndOfBlock)
<1>1. /\ EndOfBlock \in Nat /\ EndOfBlock \in Int /\ P + 1 \in Int /\ k \in Int /\ -1 \in Int /\ IsHistory(hst)
  BY EndOfBlockAssumption DEF Kept
<1>2. last # NoEntry /\ last.params = v
  BY DEF Holds
<1>3. last \in Range(hst)
  BY <1>1, <1>2, AtIs
<1>4. last \in Entry /\ last.height \in Nat /\ last.tx \in Int /\ By(last, P + 1, -1)
  BY <1>1, <1>3, HistoryTypes DEF Kept, Entry
<1> HIDE DEF last
<1>5. By(last, k, EndOfBlock) /\ By(last, P + 1, EndOfBlock)
  BY <1>1, <1>4 DEF By, KeyLess
<1>6. e # NoEntry
  BY <1>1, <1>3, <1>5, AtIs
<1>7. e \in Range(hst)
  BY <1>1, <1>6, AtIs
<1>8. e \in Entry /\ e.height \in Nat /\ e.tx \in Int /\ By(e, P + 1, -1)
  BY <1>1, <1>7, HistoryTypes DEF Kept, Entry
<1> HIDE DEF e
<1>9. By(e, P + 1, EndOfBlock) /\ ~KeyLess(k, EndOfBlock, P + 1, EndOfBlock) /\ ~KeyLess(P + 1, EndOfBlock, P + 1, -1)
  BY <1>1, <1>8 DEF By, KeyLess
<1>10. last = e
  BY <1>1, <1>6, <1>9, AtSame DEF e, last
<1>11. At(hst, P + 1, -1) = last
  BY <1>1, <1>2, <1>4, <1>9, AtSame DEF last
<1> QED
  BY <1>2, <1>8, <1>10, <1>11 DEF e, last, Holds


(* What is in force once a block whose change was announced has been learnt. *)
LEMMA LearnInForce ==
  ASSUME HistoryInv, pc = "block", next <= Len(chain), chain[next].change # "silent",
         Holds(hist, next, StateAt(next - 1)), NEW g, g = Learn(next)
  PROVE  /\ \A k \in Nat : k < next => At(g, k, EndOfBlock) = At(hist, k, EndOfBlock)
         /\ chain[next].change # "tx" => At(g, next, EndOfBlock) = At(hist, next, EndOfBlock)
         /\ chain[next].change # "finalize" => Holds(g, next, StateAt(next))
         /\ chain[next].change = "finalize" => Waiting(g, next)
         /\ Holds(g, next + 1, StateAt(next))
<1> DEFINE P == next - 1
           v == StateAt(next)
<1>1. /\ next \in Nat /\ P \in Nat /\ P + 1 = next /\ Processed = P /\ next \in 2 .. Len(chain) /\ next \in 1 .. Len(chain)
      /\ next + 1 \in Nat /\ next + 1 \in Int /\ P + 1 <= next + 1 /\ P + 1 <= next
  BY ProcessedTypes DEF Processed
<1>2. /\ IsHistory(hist) /\ v \in Values /\ v = chain[next].params /\ Kept(hist, P)
      /\ chain[next].change \in {"none", "tx", "finalize"} /\ (chain[next].change = "none" <=> v = StateAt(P))
  BY <1>1 DEF HistoryInv, Kept, ChainInv, StateAt
<1>3. /\ EndOfBlock \in Nat /\ EndOfBlock \in Int /\ EventTx + 1 \in Int /\ EventTx + 1 \in Nat /\ EventTx + 1 <= EndOfBlock
      /\ -1 \in Int /\ "event" \in Sources /\ "finalize" \in Sources
  BY EndOfBlockAssumption, ScannerAssumption DEF Sources
<1> HIDE DEF v, P
<1>4. \A k \in Nat : P + 1 <= k =>
        /\ By(At(hist, k, EndOfBlock), P + 1, -1) /\ Holds(hist, k, StateAt(P)) /\ At(hist, P + 1, -1) = At(hist, P + 1, EndOfBlock)
        /\ At(hist, k, EndOfBlock) = At(hist, P + 1, EndOfBlock)
  <2>1. Holds(hist, P + 1, StateAt(P))
    BY <1>1 DEF P
  <2> QED
    BY <1>1, <1>2, <2>1, AtTheEnd
<1>5. \A k \in Nat : P + 1 <= k =>
        At(hist, k, EndOfBlock).height \in Nat /\ At(hist, k, EndOfBlock).tx \in Int
  <2> SUFFICES ASSUME NEW k \in Nat, P + 1 <= k PROVE At(hist, k, EndOfBlock).height \in Nat /\ At(hist, k, EndOfBlock).tx \in Int
    OBVIOUS
  <2>1. At(hist, k, EndOfBlock) # NoEntry
    BY <1>4 DEF Holds
  <2>2. At(hist, k, EndOfBlock) \in Entry
    BY <1>2, <1>3, <2>1, AtIs
  <2> QED
    BY <2>2 DEF Entry
<1>6. CASE chain[next].change = "none"
  <2>1. g = hist /\ v = StateAt(P)
    BY <1>2, <1>6 DEF Learn
  <2>2. Holds(hist, next, StateAt(P)) /\ Holds(hist, next + 1, StateAt(P))
    BY <1>1, <1>4
  <2> QED
    BY <1>6, <2>1, <2>2 DEF v
<1>7. CASE chain[next].change = "tx"
  <2> DEFINE i == EventTx + 1
  <2>1. g = Add(hist, next, i, "event", v)
    BY <1>2, <1>7 DEF Learn, AddTxEvent
  <2> HIDE DEF i
  <2>2. SameBefore(g, hist, next, i) /\ InForceFrom(g, hist, next, i, v)
    BY <1>1, <1>2, <1>3, <2>1, AddIs DEF i
  <2>3. ASSUME NEW k \in Nat, k < next PROVE At(g, k, EndOfBlock) = At(hist, k, EndOfBlock)
    <3>1. KeyLess(k, EndOfBlock, next, i) /\ k \in Int
      BY <1>1, <2>3 DEF KeyLess
    <3> QED
      BY <1>3, <2>2, <3>1 DEF SameBefore
  <2>4. ASSUME NEW k \in Nat, next <= k PROVE Holds(g, k, v)
    <3>1. ~KeyLess(k, EndOfBlock, next, i) /\ k \in Int
      BY <1>1, <1>3, <2>4 DEF KeyLess, i
    <3>2. ~Past(At(hist, k, EndOfBlock), next, i)
      <4>1. By(At(hist, k, EndOfBlock), next, -1) /\ At(hist, k, EndOfBlock).height \in Nat /\ At(hist, k, EndOfBlock).tx \in Int
        BY <1>1, <1>4, <1>5, <2>4
      <4>2. i \in Nat
        BY <1>3 DEF i
      <4> HIDE DEF At
      <4> QED
        BY <1>1, <4>1, <4>2 DEF By, Past, KeyLess
    <3> QED
      BY <1>3, <2>2, <3>1, <3>2 DEF InForceFrom, Holds
  <2> QED
    BY <1>1, <1>7, <2>3, <2>4 DEF v
<1>8. CASE chain[next].change = "finalize"
  <2>1. g = Add(hist, next + 1, -1, "finalize", v)
    BY <1>2, <1>8 DEF Learn, AddFinalizeEvent
  <2>2. SameBefore(g, hist, next + 1, -1) /\ InForceFrom(g, hist, next + 1, -1, v)
    BY <1>1, <1>2, <1>3, <2>1, AddIs
  <2>3. ASSUME NEW k \in Nat, k <= next PROVE At(g, k, EndOfBlock) = At(hist, k, EndOfBlock)
    <3>1. KeyLess(k, EndOfBlock, next + 1, -1) /\ k \in Int
      BY <1>1, <2>3 DEF KeyLess
    <3> QED
      BY <1>3, <2>2, <3>1 DEF SameBefore
  <2>4. Holds(g, next + 1, v)
    <3>1. ~KeyLess(next + 1, EndOfBlock, next + 1, -1)
      BY <1>1, <1>3 DEF KeyLess
    <3>2. ~Past(At(hist, next + 1, EndOfBlock), next + 1, -1)
      <4>1. By(At(hist, next + 1, EndOfBlock), next, -1) /\ At(hist, next + 1, EndOfBlock).height \in Nat /\ At(hist, next + 1, EndOfBlock).tx \in Int
        BY <1>1, <1>4, <1>5
      <4> QED
        BY <1>1, <4>1 DEF By, Past, KeyLess
    <3> QED
      BY <1>1, <1>3, <2>2, <3>1, <3>2 DEF InForceFrom, Holds
  <2>5. Waiting(g, next)
    <3> DEFINE e == EntryAt(next + 1, -1, v, "finalize")
               old == At(hist, next + 1, EndOfBlock)
    <3>1. By(old, next, -1) /\ old.height \in Nat /\ old.tx \in Int /\ old # NoEntry /\ old.params = StateAt(P)
      BY <1>1, <1>4, <1>5 DEF Holds
    <3> HIDE DEF old
    <3>2. By(old, next + 1, -1) /\ ~KeyLess(next + 1, EndOfBlock, next + 1, -1)
      BY <1>1, <1>3, <3>1 DEF By, KeyLess
    <3>3. At(hist, next + 1, -1) = old
      BY <1>1, <1>2, <1>3, <3>1, <3>2, AtSame DEF old
    <3>4. StateAt(P) # v
      BY <1>2, <1>8
    <3>5. e \in Range(g)
      BY <1>1, <1>2, <1>3, <2>1, <3>1, <3>3, <3>4, AddPutsIn
    <3>6. e.height = next + 1 /\ e.tx = -1 /\ e.params = v
      BY EntryIs
    <3> QED
      BY <3>5, <3>6 DEF Waiting, v
  <2> QED
    BY <1>1, <1>8, <2>3, <2>4, <2>5 DEF v
<1> QED
  BY <1>2, <1>6, <1>7, <1>8

LEMMA LearnFollows ==
  ASSUME HistoryInv, pc = "block", next <= Len(chain), AllAnnounced(next), NEW known,
         Announced(hist, Processed, lastRec, known), NEW g, g = Learn(next)
  PROVE  Follows(g, next, known) /\ Checked(g, lastRec, known)
<1> DEFINE P == next - 1
<1>1. /\ next \in Nat /\ P \in Nat /\ P + 1 = next /\ Processed = P /\ next \in 1 .. Len(chain)
      /\ StartHeight \in Nat /\ lastRec \in Nat /\ lastRec < next
  <2>1. Marker(lastRec, Processed)
    BY DEF HistoryInv
  <2>2. Processed = P /\ next \in Nat /\ P \in Nat /\ next <= Len(chain) /\ Len(chain) \in Nat /\ StartHeight \in Nat
    BY ProcessedTypes DEF Processed
  <2> QED
    BY <2>1, <2>2 DEF Marker
<1>2. chain[next].change # "silent" /\ AllAnnounced(P)
  BY <1>1 DEF AllAnnounced
<1>3. Follows(hist, P, known) /\ Checked(hist, lastRec, known)
  BY <1>1, <1>2 DEF Announced
<1>4. Holds(hist, next, StateAt(next - 1))
  BY <1>1, <1>3 DEF Follows
<1>5. /\ \A k \in Nat : k < next => At(g, k, EndOfBlock) = At(hist, k, EndOfBlock)
      /\ chain[next].change # "tx" => At(g, next, EndOfBlock) = At(hist, next, EndOfBlock)
      /\ chain[next].change # "finalize" => Holds(g, next, StateAt(next))
      /\ chain[next].change = "finalize" => Waiting(g, next)
      /\ Holds(g, next + 1, StateAt(next))
  BY <1>2, <1>4, LearnInForce
<1>6. \A k \in Nat : \A v : k < next => (Holds(g, k, v) <=> Holds(hist, k, v))
  BY <1>5 DEF Holds
<1>7. Range(hist) \subseteq Range(g)
  BY LearnIs
<1> HIDE DEF P
<1>8. Checked(g, lastRec, known)
  BY <1>1, <1>3, <1>6 DEF Checked
<1>9. ASSUME NEW k \in StartHeight .. next PROVE Holds(g, k, StateAt(k)) \/ (chain[k].change = "finalize" /\ Waiting(g, k))
  <2>1. CASE k = next
    BY <1>5, <2>1
  <2>2. CASE k # next
    <3>1. k \in StartHeight .. P /\ k \in Nat /\ k < next
      BY <1>1, <2>2
    <3>2. Holds(hist, k, StateAt(k)) \/ (chain[k].change = "finalize" /\ Waiting(hist, k))
      BY <1>3, <3>1 DEF Follows
    <3> QED
      BY <1>6, <1>7, <3>1, <3>2 DEF Waiting
  <2> QED
    BY <2>1, <2>2
<1>10. ASSUME NEW k \in StartHeight .. next, chain[k].change = "finalize", ~(k + 1 <= next /\ chain[k + 1].change = "tx")
       PROVE  Holds(g, k, StateAt(k)) \/ Holds(g, k + 1, StateAt(k)) \/ UnresolvedTo(k + 1, known)
  <2>1. CASE k = next
    BY <1>5, <2>1
  <2>2. CASE k = P
    <3>1. k + 1 = next /\ chain[next].change # "tx"
      BY <1>1, <1>10, <2>2
    <3>2. Holds(g, next, StateAt(k)) <=> Holds(hist, next, StateAt(k))
      BY <1>5, <3>1 DEF Holds
    <3> QED
      BY <1>1, <1>4, <2>2, <3>1, <3>2 DEF P
  <2>3. CASE k # next /\ k # P
    <3>1. k \in StartHeight .. P /\ k \in Nat /\ k < next /\ k + 1 \in Nat /\ k + 1 < next /\ k + 1 <= P
      BY <1>1, <2>3
    <3>2. Holds(hist, k, StateAt(k)) \/ Holds(hist, k + 1, StateAt(k)) \/ UnresolvedTo(k + 1, known)
      BY <1>1, <1>3, <1>10, <3>1 DEF Follows
    <3> QED
      BY <1>6, <3>1, <3>2
  <2> QED
    BY <2>1, <2>2, <2>3
<1> QED
  BY <1>5, <1>8, <1>9, <1>10 DEF Follows


(* A check that found a difference where every change was announced leaves  *)
(* a history that still follows the chain: what differed is a change in    *)
(* FinalizeBlock, which the history has for the next block.                *)
LEMMA DiffersFollows ==
  ASSUME HistoryInv, pc = "reconcile", ~Agrees, AllAnnounced(next), NEW known,
         Announced(hist, Processed, lastRec, known),
         NEW resolution \in {"verified", "unresolvable"}, NEW u, u = SilentChange(next, resolution),
         NEW g, g = ResolvedHistory(Add(hist, next + 1, -1, "reconcile", StateAt(next)), u.values)
  PROVE  Follows(g, next, known \cup {u}) /\ Checked(g, next, known \cup {u})
<1> DEFINE R == known \cup {u}
<1>1. /\ next \in Nat /\ next \in 1 .. Len(chain) /\ Len(chain) \in Nat /\ lastRec < next /\ lastRec \in Nat
      /\ StartHeight \in Nat /\ StartHeight > 1 /\ StartHeight <= next /\ Processed = next
      /\ (lastRec # 0 => StartHeight <= lastRec)
      /\ \A h \in 1 .. Len(chain) : StateAt(h) \in Values
  <2>1. Processed = next
    BY DEF Processed
  <2>2. lastRec < next /\ lastRec \in Nat /\ (lastRec # 0 => StartHeight <= lastRec)
    BY DEF HistoryInv, Marker
  <2>3. StartHeight - 1 <= state.last /\ state.last < next /\ state.last \in Nat
    BY DEF HistoryInv, Cursor
  <2> QED
    BY <2>1, <2>2, <2>3, ProcessedTypes
<1>2. /\ Since \in Nat /\ Since + 1 \in Nat /\ 1 <= Since + 1 /\ 1 <= Since /\ Since + 1 <= next /\ (Since + 1) - 1 = Since
      /\ (Since < StartHeight => Since = StartHeight - 1) /\ (StartHeight <= Since => lastRec = Since /\ lastRec # 0)
      /\ \A h \in Since .. next : h \in 1 .. Len(chain) /\ StateAt(h) \in Values
  BY <1>1 DEF Since
<1>3. /\ IsHistory(hist) /\ Kept(hist, next) /\ EndOfBlock \in Nat /\ EndOfBlock \in Int
  BY <1>1, EndOfBlockAssumption DEF HistoryInv, Kept
<1>4. /\ Holds(hist, next + 1, StateAt(next))
      /\ \A k \in StartHeight .. next : Holds(hist, k, StateAt(k)) \/ (chain[k].change = "finalize" /\ Waiting(hist, k))
      /\ \A k \in StartHeight .. next :
           chain[k].change = "finalize" /\ ~(k + 1 <= next /\ chain[k + 1].change = "tx") =>
             Holds(hist, k, StateAt(k)) \/ Holds(hist, k + 1, StateAt(k)) \/ UnresolvedTo(k + 1, known)
      /\ Checked(hist, lastRec, known)
  BY <1>1 DEF Announced, Follows
<1>5. Add(hist, next + 1, -1, "reconcile", StateAt(next)) = hist
  <2>1. At(hist, next + 1, -1) = At(hist, next + 1, EndOfBlock)
    <3>1. next + 1 \in Nat /\ next + 1 <= next + 1
      BY <1>1
    <3> QED
      BY <1>1, <1>3, <1>4, <3>1, AtTheEnd
  <2>2. next + 1 \in Int /\ -1 \in Int
    BY <1>1
  <2> QED
    BY <1>3, <1>4, <2>1, <2>2, AddRepeat DEF Holds
<1>6. /\ u.from = Since + 1 /\ u.to = next /\ u.resolution = resolution
      /\ u.values = IF resolution = "verified" THEN ProvenValues(Since + 1, next) ELSE <<>>
  BY DEF SilentChange
<1>7. \A k : UnresolvedTo(k, known) => UnresolvedTo(k, R)
  BY DEF UnresolvedTo
<1>8. CASE resolution = "unresolvable"
  <2>1. g = hist
    BY <1>5, <1>6, <1>8, ResolvedNone
  <2>2. UnresolvedTo(next, R)
    BY <1>2, <1>6, <1>8 DEF UnresolvedTo
  <2> HIDE DEF R
  <2>3. Follows(hist, next, R)
    BY <1>4, <1>7 DEF Follows
  <2> QED
    BY <2>1, <2>2, <2>3 DEF Checked, R
<1>9. CASE resolution = "verified"
  <2>1. /\ Range(hist) \subseteq Range(g)
        /\ \A k \in Nat : k < Since => At(g, k, EndOfBlock) = At(hist, k, EndOfBlock)
        /\ \A k \in Since .. next :
             Holds(g, k, StateAt(k)) \/ (At(g, k, EndOfBlock) = At(hist, k, EndOfBlock) /\ Overtakes(hist, k, Since + 1, next))
        /\ Holds(g, next + 1, StateAt(next)) \/ At(g, next + 1, EndOfBlock) = At(hist, next + 1, EndOfBlock)
    <3>1. g = ResolvedHistory(hist, ProvenValues(Since + 1, next))
      BY <1>5, <1>6, <1>9
    <3> QED
      BY <1>1, <1>2, <1>3, <3>1, ResolvedRange
  <2> HIDE DEF R
  <2>2. ASSUME NEW k \in StartHeight .. next, Since <= k, chain[k].change = "finalize" PROVE Holds(g, k, StateAt(k))
    <3> SUFFICES ASSUME ~Holds(g, k, StateAt(k)) PROVE FALSE
      OBVIOUS
    <3>1. k \in Since .. next /\ k \in Nat /\ k \in 2 .. Len(chain)
      BY <1>1, <1>2, <2>2
    <3> DEFINE e == At(hist, k, EndOfBlock)
    <3>2. Overtakes(hist, k, Since + 1, next)
      BY <2>1, <3>1
    <3>3. StateAt(k) # StateAt(k - 1)
      <4>1. chain[k].change = "none" <=> StateAt(k) = StateAt(k - 1)
        BY <3>1 DEF HistoryInv, ChainInv
      <4> QED
        BY <2>2, <4>1
    <3>4. e # NoEntry /\ Past(e, k, -1)
      BY <3>2, <3>3 DEF Overtakes
    <3>5. e \in Range(hist) /\ e \in Entry /\ By(e, k, EndOfBlock)
      BY <1>3, <3>1, <3>4, AtIs
    <3>6. e.height \in Nat /\ e.tx \in Int
      BY <3>5 DEF Entry
    <3>7. e.tx # -1 => chain[e.height].change = "tx"
      BY <1>3, <3>5 DEF Kept
    <3> HIDE DEF e
    <3>8. e.height = k /\ e.tx # -1
      BY <3>1, <3>4, <3>5, <3>6 DEF By, Past, KeyLess
    <3> QED
      BY <2>2, <3>7, <3>8
  <2>3. \A k \in Nat : \A v : k < Since => (Holds(g, k, v) <=> Holds(hist, k, v))
    BY <2>1 DEF Holds
  <2>4. \A k \in Since .. next : Holds(g, k, StateAt(k)) \/ \A v : Holds(g, k, v) <=> Holds(hist, k, v)
    BY <2>1 DEF Holds
  <2>5. Holds(g, next + 1, StateAt(next))
    BY <1>4, <2>1 DEF Holds
  <2>6. ASSUME NEW k \in StartHeight .. next PROVE Holds(g, k, StateAt(k)) \/ (chain[k].change = "finalize" /\ Waiting(g, k))
    <3>1. Waiting(hist, k) => Waiting(g, k)
      BY <2>1 DEF Waiting
    <3>2. k \in Nat /\ (k < Since \/ k \in Since .. next)
      BY <1>1, <1>2
    <3> QED
      BY <1>4, <2>3, <2>4, <3>1, <3>2
  <2>7. ASSUME NEW k \in StartHeight .. next, chain[k].change = "finalize", ~(k + 1 <= next /\ chain[k + 1].change = "tx")
        PROVE  Holds(g, k, StateAt(k)) \/ Holds(g, k + 1, StateAt(k)) \/ UnresolvedTo(k + 1, R)
    <3>1. k \in Nat /\ k + 1 \in Nat
      BY <1>1
    <3>2. Holds(hist, k, StateAt(k)) \/ Holds(hist, k + 1, StateAt(k)) \/ UnresolvedTo(k + 1, known)
      BY <1>4, <2>7
    <3>3. CASE Since <= k
      BY <2>2, <2>7, <3>3
    <3>4. CASE k + 1 < Since
      <4>1. k < Since
        BY <1>2, <3>1, <3>4
      <4> QED
        BY <1>7, <2>3, <3>1, <3>2, <3>4, <4>1
    <3>5. CASE k + 1 = Since
      <4>1. k < Since /\ Since \in Since .. next /\ StartHeight <= Since /\ lastRec = Since /\ lastRec # 0
        BY <1>1, <1>2, <3>1, <3>5
      <4>2. Holds(hist, Since, StateAt(Since)) \/ UnresolvedTo(Since, known)
        BY <1>4, <4>1 DEF Checked
      <4>3. CASE UnresolvedTo(Since, known)
        BY <1>7, <3>5, <4>3
      <4>4. CASE Holds(hist, k, StateAt(k))
        BY <2>3, <3>1, <4>1, <4>4
      <4>5. CASE Holds(hist, Since, StateAt(Since)) /\ Holds(hist, Since, StateAt(k))
        <5>1. StateAt(Since) = StateAt(k)
          BY <4>5 DEF Holds
        <5>2. Holds(g, Since, StateAt(Since))
          BY <2>4, <4>1, <4>5
        <5> QED
          BY <3>5, <5>1, <5>2
      <4> QED
        BY <1>7, <3>2, <3>5, <4>2, <4>3, <4>4, <4>5
    <3> QED
      BY <1>2, <3>1, <3>3, <3>4, <3>5
  <2>8. Checked(g, next, R)
    <3>1. ~Holds(hist, next, StateAt(next))
      BY DEF Agrees, Holds
    <3>2. next \in StartHeight .. next /\ Since <= next
      BY <1>1, <1>2
    <3>3. chain[next].change = "finalize"
      BY <1>4, <3>1, <3>2
    <3> QED
      BY <2>2, <3>2, <3>3 DEF Checked
  <2>9. Follows(g, next, R)
    BY <2>5, <2>6, <2>7 DEF Follows
  <2> QED
    BY <2>8, <2>9 DEF R
<1> QED
  BY <1>8, <1>9


LEMMA WindowIs == \A v \in Values : Window(v) \in Nat
<1> SUFFICES ASSUME NEW v \in Values PROVE Window(v) \in Nat
  OBVIOUS
<1>1. v.timeout \in Nat /\ v.retention \in Nat
  BY DEF Values
<1> QED
  BY <1>1 DEF Window

(* Whatever block's params the server read, the history offers them as a   *)
(* candidate.                                                              *)
LEMMA Offered ==
  ASSUME HistoryInv, NEW P \in 1 .. Len(chain), NEW g, Kept(g, P), Follows(g, P, SilentRanges),
         NEW p, p.settle = P, p.promise \in StartHeight + 1 .. P, p.tx \in 0 .. EndOfBlock - 1,
         ~ReplacedAtPromise(p), ~LeftUnresolved(p), NEW k \in p.promise - 1 .. P - 1
  PROVE  \E e \in Candidates(g, p.promise, P, p.tx) : e.params = StateAt(k)
<1> DEFINE b == p.promise
           C == Candidates(g, b, P, p.tx)
           e == At(g, k, EndOfBlock)
<1>1. /\ P \in Nat /\ b \in Nat /\ k \in Nat /\ k \in Int /\ b \in Int /\ b <= P /\ StartHeight \in Nat /\ StartHeight > 1
      /\ k \in StartHeight .. P /\ b - 1 <= k /\ k < P
  BY ProcessedTypes
<1>2. /\ EndOfBlock \in Nat /\ EndOfBlock \in Int /\ p.tx \in Nat /\ IsHistory(g)
  BY EndOfBlockAssumption DEF Kept
<1>3. /\ Holds(g, k, StateAt(k)) \/ (chain[k].change = "finalize" /\ Waiting(g, k))
      /\ chain[k].change = "finalize" /\ ~(k + 1 <= P /\ chain[k + 1].change = "tx") =>
           Holds(g, k, StateAt(k)) \/ Holds(g, k + 1, StateAt(k)) \/ UnresolvedTo(k + 1, SilentRanges)
  BY <1>1 DEF Follows
<1> HIDE DEF C, b
<1>4. /\ \A v : Holds(g, b - 1, v) \/ Holds(g, b, v) => \E c \in C : c.params = v
      /\ \A c \in Range(g) : ~KeyLess(c.height, c.tx, b, EndOfBlock) /\ ~KeyLess(P, p.tx, c.height, c.tx) => c \in C
  BY DEF Candidates, Holds, C, b
<1>5. CASE k = b - 1
  <2>1. k + 1 = b
    BY <1>1, <1>5
  <2>2. ASSUME UnresolvedTo(b, SilentRanges) PROVE FALSE
    <3>1. PICK u \in SilentRanges : u.resolution # "verified" /\ u.from \in Nat /\ u.from <= u.to /\ u.to = b
      BY <2>2 DEF UnresolvedTo
    <3>2. PICK j \in DOMAIN rangeFile : u = rangeFile[j]
      BY <3>1 DEF SilentRanges, Range
    <3>3. Covers(u.from, u.to, p.promise, p.settle)
      <4>1. b - 1 <= u.to
        BY <1>1, <3>1
      <4>2. P >= u.from
        BY <1>1, <3>1
      <4> QED
        BY <4>1, <4>2 DEF Covers, b
    <3> QED
      BY <3>1, <3>3 DEF LeftUnresolved
  <2>3. chain[k].change = "finalize" => chain[b].change # "tx"
    BY <1>5 DEF ReplacedAtPromise, b
  <2>4. Holds(g, k, StateAt(k)) \/ Holds(g, b, StateAt(k))
    BY <1>3, <2>1, <2>2, <2>3
  <2> QED
    BY <1>4, <1>5, <2>4 DEF C, b
<1>6. CASE k # b - 1
  <2>1. b <= k
    BY <1>1, <1>6
  <2>2. CASE Holds(g, k, StateAt(k))
    <3>1. e # NoEntry /\ e.params = StateAt(k)
      BY <2>2 DEF Holds
    <3>2. e \in Range(g) /\ e \in Entry /\ By(e, k, EndOfBlock)
      BY <1>1, <1>2, <3>1, AtIs
    <3>3. e.height \in Nat /\ e.tx \in Int
      BY <3>2 DEF Entry
    <3>4. CASE By(e, b, EndOfBlock)
      <4>1. ~KeyLess(k, EndOfBlock, b, EndOfBlock)
        BY <1>1, <1>2, <2>1 DEF KeyLess
      <4>2. At(g, b, EndOfBlock) = e
        BY <1>1, <1>2, <3>1, <3>4, <4>1, AtSame
      <4>3. Holds(g, b, StateAt(k))
        BY <3>1, <4>2 DEF Holds
      <4> QED
        BY <1>4, <4>3 DEF C, b
    <3>5. CASE ~By(e, b, EndOfBlock)
      <4> HIDE DEF e
      <4>1. ~KeyLess(e.height, e.tx, b, EndOfBlock)
        BY <1>1, <1>2, <3>3, <3>5 DEF By, KeyLess
      <4>2. ~KeyLess(P, p.tx, e.height, e.tx)
        BY <1>1, <1>2, <3>2, <3>3 DEF By, KeyLess
      <4> QED
        BY <1>4, <3>1, <3>2, <4>1, <4>2 DEF C, b
    <3> QED
      BY <3>4, <3>5
  <2>3. CASE Waiting(g, k)
    <3>1. PICK c \in Range(g) : c.height = k + 1 /\ c.tx = -1 /\ c.params = StateAt(k)
      BY <2>3 DEF Waiting
    <3>2. ~KeyLess(c.height, c.tx, b, EndOfBlock) /\ ~KeyLess(P, p.tx, c.height, c.tx)
      BY <1>1, <1>2, <2>1, <3>1 DEF KeyLess
    <3> QED
      BY <1>4, <3>1, <3>2 DEF C, b
  <2> QED
    BY <1>3, <2>2, <2>3
<1> QED
  BY <1>5, <1>6

LEMMA StampedInTime ==
  ASSUME HistoryInv, NEW P \in 1 .. Len(chain), NEW g, Kept(g, P), AllAnnounced(P) => Follows(g, P, SilentRanges),
         NEW s \in chain[P].pubs, NEW p, p = Stamp(g, P, s)
  PROVE  OnChain(p) /\ NotLate(p)
<1>1. p.promise = s.promise /\ p.settle = P /\ p.tx = s.tx /\ p.msu = MustServeUntil(g, s.promise, P, s.tx)
  BY DEF Stamp
<1>2. s.promise \in StartHeight + 1 .. P /\ s.tx \in 0 .. EndOfBlock - 1
  BY DEF HistoryInv, ChainInv
<1>3. OnChain(p)
  BY <1>1, <1>2 DEF OnChain
<1>4. ASSUME AllAnnounced(P), ~ReplacedAtPromise(p), ~LeftUnresolved(p)
      PROVE  p.msu <= ServerDeadline(p)
  <2> DEFINE S == {Window(StateAt(k)) : k \in p.promise - 1 .. p.settle - 1}
             C == Candidates(g, p.promise, P, p.tx)
             W == {Window(c.params) : c \in C}
  <2>1. /\ P \in Nat /\ p.promise \in Nat /\ p.promise <= P /\ p.promise >= 2 /\ p.promise \in Int /\ p.promise - 1 \in Int
        /\ p.promise - 1 \in p.promise - 1 .. p.settle - 1
        /\ \A k \in p.promise - 1 .. p.settle - 1 : k \in 1 .. Len(chain) /\ k \in p.promise - 1 .. P - 1
        /\ p.tx \in Int /\ EndOfBlock \in Int /\ P \in Int
    <3>1. p.promise = s.promise /\ p.settle = P /\ p.tx = s.tx /\ s.promise \in StartHeight + 1 .. P /\ s.tx \in 0 .. EndOfBlock - 1
      BY <1>1, <1>2
    <3>2. Len(chain) \in Nat /\ StartHeight \in Nat /\ StartHeight > 1 /\ EndOfBlock \in Nat /\ P \in Nat /\ P <= Len(chain)
      BY ProcessedTypes, EndOfBlockAssumption
    <3>3. p.promise \in Nat /\ p.promise <= P /\ p.promise >= 2 /\ p.tx \in Int /\ p.settle = P
      BY <3>1, <3>2
    <3>4. \A k \in p.promise - 1 .. p.settle - 1 : k \in 1 .. Len(chain) /\ k \in p.promise - 1 .. P - 1
      BY <3>2, <3>3
    <3>5. p.promise - 1 \in p.promise - 1 .. p.settle - 1
      BY <3>2, <3>3
    <3> QED
      BY <3>2, <3>3, <3>4, <3>5
  <2>2. \A k \in p.promise - 1 .. p.settle - 1 : Window(StateAt(k)) \in Nat
    BY <2>1, ProcessedTypes, WindowIs
  <2>3. S \in SUBSET Nat /\ S # {}
    BY <2>1, <2>2
  <2>4. \A c \in C : c \in Entry
    <3>1. IsHistory(g)
      BY DEF Kept
    <3>2. \A c \in Range(g) : c \in Entry
      BY <3>1, HistoryTypes
    <3>3. /\ At(g, P, p.tx) # NoEntry => At(g, P, p.tx) \in Entry
          /\ At(g, p.promise - 1, EndOfBlock) # NoEntry => At(g, p.promise - 1, EndOfBlock) \in Entry
          /\ At(g, p.promise, EndOfBlock) # NoEntry => At(g, p.promise, EndOfBlock) \in Entry
      BY <2>1, <3>1, AtIs
    <3> QED
      BY <3>2, <3>3 DEF Candidates
  <2>5. \A c \in C : Window(c.params) \in Nat
    <3>1. \A c \in Entry : c.params \in Values
      BY DEF Entry
    <3> HIDE DEF C
    <3> QED
      BY <2>4, <3>1, WindowIs
  <2>6. PICK k \in p.promise - 1 .. p.settle - 1 : Min(S) = Window(StateAt(k))
    <3>1. Min(S) \in S
      <4> HIDE DEF S
      <4> QED
        BY <2>3, MinIs
    <3> QED
      BY <3>1
  <2>7. PICK c \in C : c.params = StateAt(k)
    <3>1. /\ k \in p.promise - 1 .. P - 1 /\ p.promise \in StartHeight + 1 .. P /\ p.tx \in 0 .. EndOfBlock - 1
          /\ p.settle = P /\ Follows(g, P, SilentRanges)
      BY <1>1, <1>2, <1>4, <2>1
    <3> QED
      BY <1>4, <3>1, Offered
  <2>8. W \in SUBSET Nat /\ Window(StateAt(k)) \in W
    <3> HIDE DEF C
    <3> QED
      BY <2>5, <2>7
  <2>9. Min(W) <= Window(StateAt(k))
    <3> HIDE DEF W
    <3> QED
      BY <2>8, MinIs
  <2>10. p.msu = Min(W)
    BY <1>1 DEF MustServeUntil
  <2>11. ServerDeadline(p) = Min(S)
    BY DEF ServerDeadline
  <2> QED
    BY <2>6, <2>9, <2>10, <2>11
<1> QED
  BY <1>1, <1>3, <1>4 DEF NotLate


LEMMA InitStamp == Init => StampInv
<1> SUFFICES ASSUME Init PROVE StampInv
  OBVIOUS
<1>1. StartHeight \in Nat /\ StartHeight > 1 /\ StartHeight \in Int /\ EndOfBlock \in Nat /\ EndOfBlock \in Int
  BY ScannerAssumption, EndOfBlockAssumption
<1>2. PICK v \in ParamValues :
        /\ chain = [h \in 1 .. StartHeight - 1 |-> [change |-> "none", params |-> v, pubs |-> {}]]
        /\ hist = NewParamHistory(StartHeight, v)
  BY DEF Init
<1>3. /\ next = StartHeight /\ pc = "block" /\ lastRec = 0 /\ pubFile = <<>>
      /\ state.last = StartHeight - 1 /\ state.hist = hist /\ state.lastRec = 0
  BY DEF Init, Snapshot
<1>4. Processed = StartHeight - 1
  BY <1>3 DEF Processed
<1>5. Holds(hist, StartHeight, StateAt(StartHeight - 1))
  <2> DEFINE e == EntryAt(StartHeight, -1, v, "seed")
  <2>1. e.height = StartHeight /\ e.tx = -1 /\ e.params = v
    BY EntryIs
  <2> HIDE DEF e
  <2>2. hist = <<e>> /\ Range(<<e>>) = {e}
    BY <1>2 DEF NewParamHistory, e, Range
  <2>3. IsHistory(hist)
    BY InitHistory DEF HistoryInv, Kept
  <2>4. By(e, StartHeight, EndOfBlock)
    BY <1>1, <2>1 DEF By, KeyLess
  <2>5. At(hist, StartHeight, EndOfBlock) # NoEntry
    BY <1>1, <2>2, <2>3, <2>4, AtIs
  <2>6. At(hist, StartHeight, EndOfBlock) \in Range(hist)
    BY <1>1, <2>3, <2>5, AtIs
  <2>7. At(hist, StartHeight, EndOfBlock) = e
    BY <2>2, <2>6
  <2>8. StateAt(StartHeight - 1) = v
    BY <1>1, <1>2 DEF StateAt
  <2> QED
    BY <2>1, <2>5, <2>7, <2>8 DEF Holds
<1>6. ASSUME NEW known PROVE Announced(hist, StartHeight - 1, 0, known)
  <2>1. StartHeight - 1 + 1 = StartHeight /\ StartHeight .. StartHeight - 1 = {}
    BY <1>1
  <2> QED
    BY <1>5, <2>1 DEF Announced, Follows, Checked
<1>7. Range(pubFile) = {}
  BY <1>3 DEF Range
<1> QED
  BY <1>3, <1>4, <1>6, <1>7 DEF StampInv

(* What was said of the blocks up to P stays so with the chain growing,    *)
(* more ranges on record and more gaps.                                    *)
LEMMA AnnouncedOn ==
  ASSUME HistoryInv, NEW x, NEW P \in 1 .. Len(chain), NEW last \in 0 .. P, NEW known, Announced(x, P, last, known),
         \A h \in 1 .. Len(chain) : chain'[h] = chain[h], known \subseteq SilentRanges', faults.gap \subseteq faults'.gap
  PROVE  Announced(x, P, last, SilentRanges)'
<1> SUFFICES ASSUME AllAnnounced(P)' PROVE (Follows(x, P, SilentRanges) /\ Checked(x, last, SilentRanges))'
  BY DEF Announced
<1>1. Len(chain) \in Nat /\ StartHeight \in Nat /\ StartHeight > 1 /\ StartHeight - 1 <= Len(chain)
  BY ProcessedTypes DEF HistoryInv, ChainInv
<1>2. AllAnnounced(P)
  BY <1>1 DEF AllAnnounced
<1>3. Follows(x, P, known) /\ Checked(x, last, known)
  BY <1>2 DEF Announced
<1>4. \A k \in 1 .. P : chain'[k] = chain[k] /\ StateAt(k)' = StateAt(k)
  BY <1>1 DEF StateAt
<1>5. \A k : UnresolvedTo(k, known) => UnresolvedTo(k, SilentRanges)'
  BY DEF UnresolvedTo
<1>6. \A k, v : Holds(x, k, v)' <=> Holds(x, k, v)
  BY DEF Holds
<1>7. P \in Nat /\ P \in 1 .. P /\ \A k \in StartHeight .. P : k \in 1 .. P
  BY <1>1
<1>8. Holds(x, P + 1, StateAt(P))'
  BY <1>3, <1>4, <1>6, <1>7 DEF Follows
<1>9. ASSUME NEW k \in StartHeight .. P
      PROVE  (Holds(x, k, StateAt(k)) \/ (chain[k].change = "finalize" /\ Waiting(x, k)))'
  <2>1. Waiting(x, k) => Waiting(x, k)'
    BY <1>4, <1>7 DEF Waiting
  <2> QED
    BY <1>3, <1>4, <1>6, <1>7, <2>1 DEF Follows
<1>10. ASSUME NEW k \in StartHeight .. P, chain'[k].change = "finalize", ~(k + 1 <= P /\ chain'[k + 1].change = "tx")
       PROVE  Holds(x, k, StateAt(k))' \/ Holds(x, k + 1, StateAt(k))' \/ UnresolvedTo(k + 1, SilentRanges)'
  <2>1. k + 1 <= P => k + 1 \in 1 .. P
    BY <1>1
  <2>2. chain[k].change = "finalize" /\ ~(k + 1 <= P /\ chain[k + 1].change = "tx")
    BY <1>4, <1>7, <1>10, <2>1
  <2>3. Holds(x, k, StateAt(k)) \/ Holds(x, k + 1, StateAt(k)) \/ UnresolvedTo(k + 1, known)
    BY <1>3, <2>2 DEF Follows
  <2>4. StateAt(k)' = StateAt(k)
    BY <1>4, <1>7
  <2> QED
    BY <1>5, <1>6, <2>3, <2>4
<1>11. Checked(x, last, SilentRanges)'
  <2>1. last # 0 => last \in 1 .. P
    BY <1>7
  <2> QED
    BY <1>3, <1>4, <1>5, <1>6, <2>1 DEF Checked
<1>12. Follows(x, P, SilentRanges)'
  BY <1>8, <1>9, <1>10 DEF Follows
<1> QED
  BY <1>11, <1>12

LEMMA NotLateOn ==
  ASSUME HistoryInv, NEW p, OnChain(p), NotLate(p), Len(chain) <= Len(chain'), Len(chain') \in Nat,
         \A h \in 1 .. Len(chain) : chain'[h] = chain[h], SilentRanges \subseteq SilentRanges', faults.gap \subseteq faults'.gap
  PROVE  OnChain(p)' /\ NotLate(p)'
<1>1. Len(chain) \in Nat /\ StartHeight \in Nat /\ StartHeight > 1
  BY ProcessedTypes
<1>2. /\ p.settle \in 1 .. Len(chain) /\ p.promise \in StartHeight + 1 .. p.settle
      /\ p.promise \in 1 .. Len(chain) /\ p.promise - 1 \in 1 .. Len(chain)
      /\ \A k \in p.promise - 1 .. p.settle - 1 : k \in 1 .. Len(chain)
      /\ \A k \in 1 .. p.settle : k \in 1 .. Len(chain)
  BY <1>1 DEF OnChain
<1>3. OnChain(p)'
  BY <1>1, <1>2 DEF OnChain
<1>4. AllAnnounced(p.settle)' => AllAnnounced(p.settle)
  BY <1>2 DEF AllAnnounced
<1>5. ReplacedAtPromise(p)' <=> ReplacedAtPromise(p)
  BY <1>2 DEF ReplacedAtPromise
<1>6. LeftUnresolved(p) => LeftUnresolved(p)'
  BY DEF LeftUnresolved
<1>7. ServerDeadline(p)' = ServerDeadline(p)
  <2>1. \A k \in p.promise - 1 .. p.settle - 1 : StateAt(k)' = StateAt(k)
    BY <1>2 DEF StateAt
  <2>2. {Window(StateAt(k)') : k \in p.promise - 1 .. p.settle - 1} = {Window(StateAt(k)) : k \in p.promise - 1 .. p.settle - 1}
    BY <2>1
  <2> QED
    BY <2>2 DEF ServerDeadline
<1> QED
  BY <1>3, <1>4, <1>5, <1>6, <1>7 DEF NotLate

LEMMA GapsGrow ==
  ASSUME DisjointInv, [Next]_scannerVars
  PROVE  /\ faults.gap \subseteq faults'.gap
         /\ ScanGap => next \in faults'.gap
<1>1. faults = [crash |-> faults.crash, read |-> faults.read, write |-> faults.write, gap |-> faults.gap]
  BY DEF DisjointInv, CrashesCounted
<1>2. /\ \A name \in {"crash", "read", "write"} : Fault(name) => faults'.gap = faults.gap
      /\ faults' = [faults EXCEPT !.read = @ + 1, !.write = @ + 1] => faults'.gap = faults.gap
  BY <1>1 DEF Fault
<1>3. ScanGap => faults'.gap = faults.gap \cup {next}
  BY <1>1 DEF ScanGap
<1>4. \/ faults' = faults \/ ScanGap
      \/ \E name \in {"crash", "read", "write"} : Fault(name)
      \/ faults' = [faults EXCEPT !.read = @ + 1, !.write = @ + 1]
  BY DEF Next, NewBlock, ScanBlock, ReconcileSkipped, ReconcileAgrees, ReconcileDiffers, ReconcileUnrecorded,
         AppendFails, Checkpoint, CatchUp, Crash, scannerVars
<1> QED
  BY <1>2, <1>3, <1>4

(* A step that leaves state.json where it is. *)
LEMMA StampMoves ==
  ASSUME HistoryInv, StampInv, HistoryInv', Len(chain) <= Len(chain'), \A h \in 1 .. Len(chain) : chain'[h] = chain[h],
         SilentRanges \subseteq SilentRanges', faults.gap \subseteq faults'.gap, state' = state,
         Announced(hist, Processed, lastRec, SilentRanges)',
         \A p \in Range(pubFile') : p \in Range(pubFile) \/ (OnChain(p) /\ NotLate(p))'
  PROVE  StampInv'
<1>1. /\ state.last \in 1 .. Len(chain) /\ state.lastRec \in 0 .. state.last /\ Len(chain') \in Nat
  <2>1. /\ state.last \in Nat /\ state.last <= Processed /\ Processed \in Nat /\ Processed <= Len(chain) /\ Len(chain) \in Nat
        /\ StartHeight - 1 <= state.last /\ StartHeight \in Nat /\ StartHeight > 1
    BY ProcessedTypes DEF HistoryInv
  <2>2. Len(chain') \in Nat
    <3>1. IsSeq(chain')
      BY DEF HistoryInv, Cursor, IsSeq
    <3> QED
      BY <3>1, LenProperties DEF IsSeq
  <2>3. state.lastRec \in Nat /\ state.lastRec <= state.last
    BY DEF HistoryInv, Marker
  <2> QED
    BY <2>1, <2>2, <2>3
<1>2. PICK x, P, last, R : x = state.hist /\ P = state.last /\ last = state.lastRec /\ R = SilentRanges
  OBVIOUS
<1>3. Announced(x, P, last, R)
  BY <1>2 DEF StampInv
<1>4. Announced(x, P, last, SilentRanges)'
  BY <1>1, <1>2, <1>3, AnnouncedOn
<1>5. Announced(state.hist, state.last, state.lastRec, SilentRanges)'
  BY <1>2, <1>4 DEF Announced, Follows, Checked, AllAnnounced, Holds, Waiting
<1>6. ASSUME NEW p \in Range(pubFile') PROVE (OnChain(p) /\ NotLate(p))'
  <2>1. CASE p \in Range(pubFile)
    <3>1. OnChain(p) /\ NotLate(p)
      BY <2>1 DEF StampInv
    <3> QED
      BY <1>1, <3>1, NotLateOn
  <2>2. CASE p \notin Range(pubFile)
    BY <2>2
  <2> QED
    BY <2>1, <2>2
<1> QED
  BY <1>5, <1>6 DEF StampInv

(* A step after which the scan, the history and the marker are where they  *)
(* were.                                                                   *)
LEMMA StampStays ==
  ASSUME HistoryInv, StampInv, HistoryInv', Len(chain) <= Len(chain'), \A h \in 1 .. Len(chain) : chain'[h] = chain[h],
         SilentRanges \subseteq SilentRanges', faults.gap \subseteq faults'.gap, state' = state,
         hist' = hist, Processed' = Processed, lastRec' = lastRec, pubFile' = pubFile
  PROVE  StampInv'
<1>1. Processed \in 1 .. Len(chain) /\ lastRec \in 0 .. Processed
  <2>1. Processed \in Nat /\ Processed <= Len(chain) /\ Len(chain) \in Nat /\ StartHeight - 1 <= Processed /\ StartHeight \in Nat /\ StartHeight > 1
    BY ProcessedTypes
  <2>2. lastRec \in Nat /\ lastRec <= Processed
    BY DEF HistoryInv, Marker
  <2> QED
    BY <2>1, <2>2
<1>2. PICK x, P, last, R : x = hist /\ P = Processed /\ last = lastRec /\ R = SilentRanges
  OBVIOUS
<1>3. Announced(x, P, last, R)
  BY <1>2 DEF StampInv
<1>4. Announced(x, P, last, SilentRanges)'
  BY <1>1, <1>2, <1>3, AnnouncedOn
<1>5. hist' = x /\ Processed' = P /\ lastRec' = last
  BY <1>2
<1>6. Announced(hist, Processed, lastRec, SilentRanges)'
  BY <1>4, <1>5 DEF Announced, Follows, Checked, AllAnnounced, Holds, Waiting
<1>7. \A p \in Range(pubFile') : p \in Range(pubFile)
  OBVIOUS
<1> QED
  BY <1>6, <1>7, StampMoves

(* The same of a check that found the history to agree. *)
LEMMA AgreesStamp ==
  ASSUME HistoryInv, StampInv, HistoryInv', faults.gap \subseteq faults'.gap, ReconcileAgrees
  PROVE  StampInv'
<1>1. /\ pc = "reconcile" /\ pc' = "checkpoint" /\ Agrees /\ lastRec' = next
      /\ UNCHANGED <<chain, next, state, pubFile, hist, rangeFile>>
  BY DEF ReconcileAgrees, Reconciled
<1>2. /\ Processed = next /\ Processed' = next /\ next \in 1 .. Len(chain) /\ Len(chain) <= Len(chain')
      /\ SilentRanges' = SilentRanges /\ next \in 0 .. next
  <2>1. Processed \in Nat /\ Processed <= Len(chain) /\ Len(chain) \in Nat /\ StartHeight - 1 <= Processed /\ StartHeight \in Nat /\ StartHeight > 1
    BY ProcessedTypes
  <2> QED
    BY <1>1, <2>1 DEF Processed, SilentRanges
<1>3. Announced(hist, next, next, SilentRanges)
  BY <1>1, <1>2 DEF StampInv, Announced, Checked, Agrees, Holds
<1>4. PICK x, P, R : x = hist /\ P = next /\ R = SilentRanges
  OBVIOUS
<1>5. Announced(x, P, P, SilentRanges)'
  <2>1. \A h \in 1 .. Len(chain) : chain'[h] = chain[h]
    BY <1>1
  <2>2. Announced(x, P, P, R) /\ R \subseteq SilentRanges'
    BY <1>2, <1>3, <1>4
  <2> QED
    BY <1>2, <1>4, <2>1, <2>2, AnnouncedOn
<1>6. hist' = x /\ Processed' = P /\ lastRec' = P
  BY <1>1, <1>2, <1>4
<1>7. Announced(hist, Processed, lastRec, SilentRanges)'
  BY <1>5, <1>6 DEF Announced, Follows, Checked, AllAnnounced, Holds, Waiting
<1>8. /\ \A p \in Range(pubFile') : p \in Range(pubFile)
      /\ \A h \in 1 .. Len(chain) : chain'[h] = chain[h]
      /\ state' = state
  BY <1>1
<1> QED
  BY <1>2, <1>7, <1>8, StampMoves

(* And of one that found it to differ. *)
LEMMA DiffersStamp ==
  ASSUME HistoryInv, StampInv, HistoryInv', faults.gap \subseteq faults'.gap, ReconcileDiffers
  PROVE  StampInv'
<1>1. /\ pc = "reconcile" /\ pc' = "checkpoint" /\ ~Agrees /\ lastRec' = next /\ UNCHANGED <<chain, next, state, pubFile>>
  BY DEF ReconcileDiffers, Reconciled
<1>2. PICK resolution \in {"verified", "unresolvable"} :
         /\ AppendRange(SilentChange(next, resolution))
         /\ hist' = ResolvedHistory(Add(hist, next + 1, -1, "reconcile", StateAt(next)), SilentChange(next, resolution).values)
  BY DEF ReconcileDiffers
<1>3. PICK u : u = SilentChange(next, resolution)
  OBVIOUS
<1>4. PICK x, P, R : x = hist' /\ P = next /\ R = SilentRanges \cup {u}
  OBVIOUS
<1>5. /\ Processed = next /\ Processed' = next /\ next \in 1 .. Len(chain) /\ Len(chain) <= Len(chain') /\ next \in 0 .. next
  <2>1. Processed \in Nat /\ Processed <= Len(chain) /\ Len(chain) \in Nat /\ StartHeight - 1 <= Processed /\ StartHeight \in Nat /\ StartHeight > 1
    BY ProcessedTypes
  <2> QED
    BY <1>1, <2>1 DEF Processed
<1>6. SilentRanges \subseteq SilentRanges' /\ R \subseteq SilentRanges'
  <2>1. u.kind = "silent_change" /\ AppendRange(u) /\ IsSeq(rangeFile) /\ torn = FALSE
    BY <1>2, <1>3 DEF SilentChange, HistoryInv
  <2> QED
    BY <1>4, <2>1, RangeAppended
<1>7. Announced(x, P, P, R)
  <2>1. SUFFICES ASSUME AllAnnounced(next) PROVE Follows(x, next, SilentRanges \cup {u}) /\ Checked(x, next, SilentRanges \cup {u})
    BY <1>4 DEF Announced
  <2>2. Announced(hist, Processed, lastRec, SilentRanges)
    BY DEF StampInv
  <2>3. x = ResolvedHistory(Add(hist, next + 1, -1, "reconcile", StateAt(next)), u.values)
    BY <1>2, <1>3, <1>4
  <2> QED
    BY <1>1, <1>3, <2>1, <2>2, <2>3, DiffersFollows
<1>8. Announced(x, P, P, SilentRanges)'
  <2>1. \A h \in 1 .. Len(chain) : chain'[h] = chain[h]
    BY <1>1
  <2> QED
    BY <1>4, <1>5, <1>6, <1>7, <2>1, AnnouncedOn
<1>9. hist' = x /\ Processed' = P /\ lastRec' = P
  BY <1>1, <1>4, <1>5
<1>10. Announced(hist, Processed, lastRec, SilentRanges)'
  BY <1>8, <1>9 DEF Announced, Follows, Checked, AllAnnounced, Holds, Waiting
<1>11. /\ \A p \in Range(pubFile') : p \in Range(pubFile)
       /\ \A h \in 1 .. Len(chain) : chain'[h] = chain[h]
       /\ state' = state
  BY <1>1
<1> QED
  BY <1>5, <1>6, <1>10, <1>11, StampMoves

(* A block is scanned: the history learns what it announced, and its       *)
(* settlement is stamped with that.                                        *)
LEMMA ScanBlockStamp ==
  ASSUME OnceInv, HistoryInv, StampInv, HistoryInv', faults.gap \subseteq faults'.gap, ScanBlock
  PROVE  StampInv'
<1>1. /\ pc = "block" /\ next <= Len(chain) /\ hist' = Learn(next) /\ pc' \in {"reconcile", "checkpoint"}
      /\ UNCHANGED <<chain, next, lastRec, state, rangeFile>>
  BY DEF ScanBlock, AfterBlock
<1>2. /\ next \in 1 .. Len(chain) /\ Processed' = next /\ lastRec \in 0 .. next /\ SilentRanges' = SilentRanges
      /\ Len(chain) \in Nat /\ Len(chain) <= Len(chain') /\ Len(chain') \in Nat
  <2>1. /\ Processed \in Nat /\ Processed = next - 1 /\ next \in Nat /\ Len(chain) \in Nat
        /\ StartHeight - 1 <= Processed /\ StartHeight \in Nat /\ StartHeight > 1
    BY <1>1, ProcessedTypes DEF Processed
  <2>2. lastRec \in Nat /\ lastRec <= Processed
    BY DEF HistoryInv, Marker
  <2> QED
    BY <1>1, <2>1, <2>2 DEF Processed, SilentRanges
<1>3. PICK g, P, last, R : g = hist' /\ P = next /\ last = lastRec /\ R = SilentRanges
  OBVIOUS
<1>4. ASSUME AllAnnounced(P) PROVE Follows(g, P, R) /\ Checked(g, last, R)
  <2>1. Announced(hist, Processed, lastRec, SilentRanges)
    BY DEF StampInv
  <2>2. AllAnnounced(next) /\ g = Learn(next)
    BY <1>1, <1>3, <1>4
  <2> QED
    BY <1>1, <1>3, <2>1, <2>2, LearnFollows
<1>5. Announced(g, P, last, SilentRanges)'
  <2>1. Announced(g, P, last, R)
    BY <1>4 DEF Announced
  <2>2. /\ P \in 1 .. Len(chain) /\ last \in 0 .. P /\ R \subseteq SilentRanges'
        /\ \A h \in 1 .. Len(chain) : chain'[h] = chain[h]
    BY <1>1, <1>2, <1>3
  <2> QED
    BY <2>1, <2>2, AnnouncedOn
<1>6. hist' = g /\ Processed' = P /\ lastRec' = last
  BY <1>1, <1>2, <1>3
<1>7. Announced(hist, Processed, lastRec, SilentRanges)'
  BY <1>5, <1>6 DEF Announced, Follows, Checked, AllAnnounced, Holds, Waiting
<1>8. Kept(g, P)
  <2>1. Kept(hist, Processed)'
    BY DEF HistoryInv
  <2> QED
    BY <1>1, <1>6, <2>1 DEF Kept
<1>9. \A p \in Range(pubFile') : p \in Range(pubFile) \/ (OnChain(p) /\ NotLate(p))'
  <2>1. CASE pubFile' = pubFile
    BY <2>1
  <2>2. CASE \E s \in chain[next].pubs : \E line : line = Stamp(hist', next, s) /\ pubFile' = Append(pubFile, line)
    <3>0. PICK s \in chain[P].pubs : \E line : line = Stamp(g, P, s) /\ pubFile' = Append(pubFile, line)
      BY <1>3, <2>2
    <3>1. PICK line : line = Stamp(g, P, s) /\ pubFile' = Append(pubFile, line)
      BY <3>0
    <3>2. Range(pubFile') \subseteq Range(pubFile) \cup {line}
      <4>1. PICK f : f = pubFile
        OBVIOUS
      <4>2. IsSeq(f)
        BY <4>1 DEF HistoryInv, Cursor
      <4>3. /\ DOMAIN f = 1 .. Len(f) /\ DOMAIN Append(f, line) = 1 .. Len(f) + 1 /\ Len(f) \in Nat
            /\ Append(f, line)[Len(f) + 1] = line /\ \A j \in 1 .. Len(f) : Append(f, line)[j] = f[j]
        BY <4>2, AppendToSeq
      <4>4. Range(Append(f, line)) \subseteq Range(f) \cup {line}
        BY <4>3 DEF Range
      <4> QED
        BY <3>1, <4>1, <4>4
    <3>3. OnChain(line) /\ NotLate(line)
      <4>1. P \in 1 .. Len(chain) /\ (AllAnnounced(P) => Follows(g, P, SilentRanges))
        BY <1>2, <1>3, <1>4
      <4> QED
        BY <1>8, <3>1, <4>1, StampedInTime
    <3>4. (OnChain(line) /\ NotLate(line))'
      <4>1. SilentRanges \subseteq SilentRanges' /\ \A h \in 1 .. Len(chain) : chain'[h] = chain[h]
        BY <1>1, <1>2
      <4> QED
        BY <1>2, <3>3, <4>1, NotLateOn
    <3> QED
      BY <3>2, <3>4
  <2> QED
    BY <2>1, <2>2, ScanBlockAppends
<1>10. /\ \A h \in 1 .. Len(chain) : chain'[h] = chain[h]
       /\ state' = state
  BY <1>1
<1> QED
  BY <1>2, <1>7, <1>9, <1>10, StampMoves

(* A gap: nothing is claimed of a stretch with a block that was not read.  *)
LEMMA ScanGapStamp ==
  ASSUME HistoryInv, StampInv, HistoryInv', faults.gap \subseteq faults'.gap, next \in faults'.gap, ScanGap
  PROVE  StampInv'
<1>1. /\ pc = "block" /\ next <= Len(chain) /\ pc' \in {"reconcile", "checkpoint"}
      /\ UNCHANGED <<chain, next, state, rangeFile, pubFile>>
  BY DEF ScanGap, AfterBlock
<1>2. Processed' = next /\ next \in 1 .. next /\ SilentRanges' = SilentRanges /\ Len(chain) <= Len(chain')
  <2>1. /\ Processed \in Nat /\ Processed = next - 1 /\ next \in Nat /\ Len(chain) \in Nat
    BY <1>1, ProcessedTypes DEF Processed
  <2> QED
    BY <1>1, <2>1 DEF Processed, SilentRanges
<1>3. ~AllAnnounced(Processed)'
  BY <1>2 DEF AllAnnounced
<1>4. Announced(hist, Processed, lastRec, SilentRanges)'
  BY <1>3 DEF Announced
<1>5. /\ \A p \in Range(pubFile') : p \in Range(pubFile)
      /\ \A h \in 1 .. Len(chain) : chain'[h] = chain[h]
      /\ state' = state
  BY <1>1
<1> QED
  BY <1>2, <1>4, <1>5, StampMoves

(* A checkpoint takes memory's history, and a restart takes the checkpoint's. *)
LEMMA CheckpointStamp ==
  ASSUME HistoryInv, StampInv, Checkpoint
  PROVE  StampInv'
<1>1. /\ pc = "checkpoint" /\ pc' = "block" /\ next' = next + 1 /\ UNCHANGED <<chain, hist, lastRec, rangeFile, pubFile, faults>>
      /\ state'.last = next /\ state'.hist = hist /\ state'.lastRec = lastRec
  BY DEF Checkpoint, Snapshot
<1>2. next \in Nat /\ Processed = next /\ Processed' = next /\ SilentRanges' = SilentRanges
  BY <1>1, ProcessedTypes DEF Processed, SilentRanges
<1>3. PICK x, P, last, R : x = hist /\ P = next /\ last = lastRec /\ R = SilentRanges
  OBVIOUS
<1>4. Announced(x, P, last, R)
  BY <1>2, <1>3 DEF StampInv
<1>5. (Announced(x, P, last, R))'
  BY <1>1, <1>4 DEF Announced, Follows, Checked, AllAnnounced, Holds, Waiting, StateAt, UnresolvedTo
<1>6. /\ hist' = x /\ Processed' = P /\ lastRec' = last /\ SilentRanges' = R
      /\ state'.hist = x /\ state'.last = P /\ state'.lastRec = last
  BY <1>1, <1>2, <1>3
<1>7. Announced(hist, Processed, lastRec, SilentRanges)' /\ Announced(state.hist, state.last, state.lastRec, SilentRanges)'
  BY <1>5, <1>6 DEF Announced, Follows, Checked, AllAnnounced, Holds, Waiting, UnresolvedTo
<1>8. \A p \in Range(pubFile') : (OnChain(p) /\ NotLate(p))'
  BY <1>1, <1>2 DEF StampInv, OnChain, NotLate, AllAnnounced, ReplacedAtPromise, LeftUnresolved, ServerDeadline, StateAt
<1> QED
  BY <1>7, <1>8 DEF StampInv

LEMMA CrashStamp ==
  ASSUME HistoryInv, StampInv, faults.gap \subseteq faults'.gap, Crash
  PROVE  StampInv'
<1>1. /\ pc' = "block" /\ next' = state.last + 1 /\ UNCHANGED <<chain, state, rangeFile, pubFile>>
      /\ hist' = state.hist /\ lastRec' = state.lastRec
  BY DEF Crash
<1>2. /\ state.last \in 1 .. Len(chain) /\ state.lastRec \in 0 .. state.last /\ Processed' = state.last
      /\ SilentRanges' = SilentRanges /\ Len(chain) <= Len(chain') /\ Len(chain') \in Nat
  <2>1. /\ state.last \in Nat /\ state.last <= Processed /\ Processed \in Nat /\ Processed <= Len(chain) /\ Len(chain) \in Nat
        /\ StartHeight - 1 <= state.last /\ StartHeight \in Nat /\ StartHeight > 1
    BY ProcessedTypes DEF HistoryInv
  <2>2. state.lastRec \in Nat /\ state.lastRec <= state.last
    BY DEF HistoryInv, Marker
  <2> QED
    BY <1>1, <2>1, <2>2 DEF Processed, SilentRanges
<1>3. PICK x, P, last, R : x = state.hist /\ P = state.last /\ last = state.lastRec /\ R = SilentRanges
  OBVIOUS
<1>4. Announced(x, P, last, SilentRanges)'
  <2>1. Announced(x, P, last, R) /\ R \subseteq SilentRanges' /\ \A h \in 1 .. Len(chain) : chain'[h] = chain[h]
    BY <1>1, <1>2, <1>3 DEF StampInv
  <2> QED
    BY <1>2, <1>3, <2>1, AnnouncedOn
<1>5. /\ hist' = x /\ Processed' = P /\ lastRec' = last
      /\ state'.hist = x /\ state'.last = P /\ state'.lastRec = last
  BY <1>1, <1>2, <1>3
<1>6. Announced(hist, Processed, lastRec, SilentRanges)' /\ Announced(state.hist, state.last, state.lastRec, SilentRanges)'
  BY <1>4, <1>5 DEF Announced, Follows, Checked, AllAnnounced, Holds, Waiting
<1>7. ASSUME NEW p \in Range(pubFile') PROVE (OnChain(p) /\ NotLate(p))'
  <2>1. OnChain(p) /\ NotLate(p)
    BY <1>1, <1>7 DEF StampInv
  <2>2. SilentRanges \subseteq SilentRanges' /\ \A h \in 1 .. Len(chain) : chain'[h] = chain[h]
    BY <1>1, <1>2
  <2> QED
    BY <1>2, <2>1, <2>2, NotLateOn
<1> QED
  BY <1>6, <1>7 DEF StampInv

LEMMA StampInvKept ==
  ASSUME OnceInv, HistoryInv, HistoryInv', DisjointInv, StampInv, [Next]_scannerVars
  PROVE  StampInv'
<1>1. faults.gap \subseteq faults'.gap /\ (ScanGap => next \in faults'.gap)
  BY GapsGrow
<1>2. CASE NewBlock
  <2>1. UNCHANGED <<next, pc, hist, lastRec, state, rangeFile, pubFile>>
    BY <1>2 DEF NewBlock, memory
  <2>2. Processed' = Processed /\ SilentRanges \subseteq SilentRanges'
    BY <2>1 DEF Processed, SilentRanges
  <2>3. Len(chain) <= Len(chain') /\ \A h \in 1 .. Len(chain) : chain'[h] = chain[h]
    <3>1. PICK c, blk : c = chain /\ chain' = Append(c, blk)
      BY <1>2, BlockDrawn
    <3>2. IsSeq(c)
      BY <3>1 DEF HistoryInv, Cursor
    <3>3. Len(c) \in Nat /\ Len(Append(c, blk)) = Len(c) + 1 /\ \A j \in 1 .. Len(c) : Append(c, blk)[j] = c[j]
      BY <3>2, AppendToSeq
    <3> QED
      BY <3>1, <3>3
  <2> QED
    BY <1>1, <2>1, <2>2, <2>3, StampStays
<1>3. CASE ScanBlock
  BY <1>1, <1>3, ScanBlockStamp
<1>4. CASE ScanGap
  BY <1>1, <1>4, ScanGapStamp
<1>5. CASE ReconcileSkipped \/ ReconcileUnrecorded
  <2>1. UNCHANGED <<chain, next, hist, lastRec, state, pubFile>> /\ pc = "reconcile" /\ pc' = "checkpoint"
    BY <1>5 DEF ReconcileSkipped, ReconcileUnrecorded, Reconciled
  <2>2. SilentRanges \subseteq SilentRanges'
    <3>1. rangeFile' = rangeFile \/ AppendRange(CheckSkipped(next))
      BY <1>5 DEF ReconcileSkipped, ReconcileUnrecorded, AppendFails
    <3>2. IsSeq(rangeFile) /\ torn = FALSE
      BY DEF HistoryInv
    <3>3. CASE rangeFile' = rangeFile
      BY <3>3 DEF SilentRanges
    <3>4. CASE AppendRange(CheckSkipped(next))
      BY <3>2, <3>4, RangeAppended
    <3> QED
      BY <3>1, <3>3, <3>4
  <2>3. Processed' = Processed /\ Len(chain) <= Len(chain') /\ \A h \in 1 .. Len(chain) : chain'[h] = chain[h]
    BY <2>1, ProcessedTypes DEF Processed
  <2> QED
    BY <1>1, <2>1, <2>2, <2>3, StampStays
<1>6. CASE ReconcileAgrees
  BY <1>1, <1>6, AgreesStamp
<1>7. CASE ReconcileDiffers
  BY <1>1, <1>7, DiffersStamp
<1>8. CASE Checkpoint
  BY <1>8, CheckpointStamp
<1>9. CASE CatchUp \/ UNCHANGED scannerVars
  <2>1. UNCHANGED <<chain, hist, lastRec, state, rangeFile, pubFile>>
    BY <1>9 DEF CatchUp, scannerVars, memory
  <2>2. Processed' = Processed
    <3>1. next \in Nat
      BY ProcessedTypes
    <3> QED
      BY <1>9, <3>1 DEF CatchUp, scannerVars, memory, Processed
  <2>3. SilentRanges \subseteq SilentRanges' /\ Len(chain) <= Len(chain') /\ \A h \in 1 .. Len(chain) : chain'[h] = chain[h]
    BY <2>1, ProcessedTypes DEF SilentRanges
  <2> QED
    BY <1>1, <2>1, <2>2, <2>3, StampStays
<1>10. CASE Crash
  BY <1>1, <1>10, CrashStamp
<1> QED
  BY <1>2, <1>3, <1>4, <1>5, <1>6, <1>7, <1>8, <1>9, <1>10 DEF Next

(* Where no failed append leaves part of a line behind and every params    *)
(* change up to the settlement was announced in a block that was read, no  *)
(* stamped deadline is later than the earliest one the server can have     *)
(* used: for every chain, every placing of restarts, failed reads and      *)
(* failed appends, and every spacing of checks and checkpoints.            *)
THEOREM StampsNeverLate ==
  ASSUME PartialWrites = FALSE
  PROVE  Spec => []StampNeverLate
<1> DEFINE IInv == OnceInv /\ HistoryInv /\ DisjointInv /\ StampInv
<1>1. Init => IInv
  BY InitOnce, InitHistory, InitDisjoint, InitStamp
<1>2. IInv /\ [Next]_scannerVars => IInv'
  <2> SUFFICES ASSUME IInv, [Next]_scannerVars PROVE IInv'
    OBVIOUS
  <2>1. OnceInv' /\ DisjointInv'
    BY OnceInvKept, DisjointInvKept
  <2>2. HistoryInv'
    BY <2>1, HistoryInvKept DEF OnceInv
  <2> QED
    BY <2>1, <2>2, StampInvKept
<1>3. IInv => StampNeverLate
  BY DEF StampInv, NotLate, StampNeverLate
<1> QED
  BY <1>1, <1>2, <1>3, PTL DEF Spec
-----------------------------------------------------------------------------
(* The pipeline: the scanner's own specification, and the store's rows.    *)

(* What the other processes do is a stutter of the scanner.                *)
LEMMA PipelineStep == [PipelineNext]_pipelineVars => [Next]_scannerVars
BY DEF PipelineNext, Scanner, Prober, Collector, pipelineVars

(* The pipeline implements the scanner: prober and collector touch nothing *)
(* of the scanner's, so all that holds of it alone holds in the pipeline.  *)
THEOREM PipelineRunsTheScanner == PipelineSpec => Spec
<1>1. PipelineInit => Init
  BY DEF PipelineInit
<1> QED
  BY <1>1, PipelineStep, PTL DEF PipelineSpec, Spec

(* Rows as the collector writes them, and the line each comes from. *)
IsPubRow(p) ==
  p = [promise |-> p.promise, settle |-> p.settle, tx |-> p.tx, msu |-> p.msu, stamped |-> p.stamped,
       movedBy |-> p.movedBy, held |-> p.held]

IsRangeRow(w) ==
  w = [resolution |-> w.resolution, values |-> w.values, holds |-> w.holds, corrected |-> w.corrected]

PubFrom(i, p, lines) == \E line \in lines : line.id = i /\ line.msu = p.stamped

RangeFrom(r, w, lines) ==
  \E u \in lines : Hold!RangeId(u) = r /\ u.resolution = w.resolution /\ u.values = w.values

PubsFollow(table, lines) ==
  /\ table = [i \in DOMAIN table |-> table[i]]
  /\ \A i \in DOMAIN table : IsPubRow(table[i]) /\ PubFrom(i, table[i], lines)

RangesFollow(table, lines) ==
  /\ table = [r \in DOMAIN table |-> table[r]]
  /\ \A r \in DOMAIN table : IsRangeRow(table[r]) /\ RangeFrom(r, table[r], lines)

FileNames == {"pubs", "ranges", "corrs", "meas"}

(* The inductive invariant of StoreFollowsRecord.                          *)
FollowInv ==
  /\ IsSeq(pubFile) /\ IsSeq(rangeFile)
  /\ pos \in Nat /\ cur \in [FileNames -> Nat]
  /\ PubsFollow(pubs, Range(pubFile)) /\ RangesFollow(ranges, Range(rangeFile))

LEMMA HoldFiles == Hold!Range(Hold!Files) = FileNames
<1>1. DOMAIN Hold!Files = 1 .. 4
  BY DEF Hold!Files
<1>2. Hold!Range(Hold!Files) = {Hold!Files[j] : j \in 1 .. 4}
  BY <1>1 DEF Hold!Range
<1> QED
  BY <1>2 DEF Hold!Files, FileNames

(* A file that grows still has the lines the rows come from.               *)
LEMMA FollowsOn ==
  ASSUME NEW table, NEW lines, NEW more, lines \subseteq more
  PROVE  /\ PubsFollow(table, lines) => PubsFollow(table, more)
         /\ RangesFollow(table, lines) => RangesFollow(table, more)
BY DEF PubsFollow, RangesFollow, PubFrom, RangeFrom

-----------------------------------------------------------------------------
(* The scanner's steps: its files only grow. *)

LEMMA LineAppended ==
  ASSUME NEW s, IsSeq(s), NEW line
  PROVE  IsSeq(Append(s, line)) /\ Range(s) \subseteq Range(Append(s, line))
<1>1. /\ IsSeq(Append(s, line)) /\ Len(s) \in Nat /\ DOMAIN s = 1 .. Len(s) /\ DOMAIN Append(s, line) = 1 .. Len(s) + 1
      /\ \A j \in 1 .. Len(s) : Append(s, line)[j] = s[j]
  <2>1. IsSeq(Append(s, line))
    BY AppendToSeq
  <2>2. Len(s) \in Nat /\ DOMAIN s = 1 .. Len(s)
    BY AppendToSeq
  <2>3. DOMAIN Append(s, line) = 1 .. Len(s) + 1
    BY AppendToSeq
  <2>4. \A j \in 1 .. Len(s) : Append(s, line)[j] = s[j]
    BY AppendToSeq
  <2> QED
    BY <2>1, <2>2, <2>3, <2>4
<1>2. \A j \in 1 .. Len(s) : j \in 1 .. Len(s) + 1
  BY <1>1
<1> QED
  BY <1>1, <1>2 DEF Range

LEMMA PubFileGrows ==
  ASSUME OnceInv, Next
  PROVE  IsSeq(pubFile') /\ Range(pubFile) \subseteq Range(pubFile')
<1>1. IsSeq(pubFile)
  BY DEF OnceInv, Cursor
<1>2. CASE pubFile' = pubFile
  BY <1>1, <1>2 DEF IsSeq
<1>3. ASSUME NEW line, pubFile' = Append(pubFile, line)
      PROVE  IsSeq(pubFile') /\ Range(pubFile) \subseteq Range(pubFile')
  BY <1>1, <1>3, LineAppended
<1>4. CASE ScanBlock
  BY <1>2, <1>3, <1>4, ScanBlockAppends
<1>5. CASE ~ScanBlock
  BY <1>2, <1>5 DEF Next, NewBlock, ScanGap, ReconcileSkipped, ReconcileAgrees, ReconcileDiffers, ReconcileUnrecorded,
                    Reconciled, Checkpoint, CatchUp, Crash, memory
<1> QED
  BY <1>4, <1>5

LEMMA RangeFileGrows ==
  ASSUME DisjointInv, Next
  PROVE  IsSeq(rangeFile') /\ Range(rangeFile) \subseteq Range(rangeFile')
<1>1. IsSeq(rangeFile)
  BY DEF DisjointInv
<1>2. CASE rangeFile' = rangeFile
  BY <1>1, <1>2 DEF IsSeq
<1>3. ASSUME NEW u, AppendRange(u)
      PROVE  IsSeq(rangeFile') /\ Range(rangeFile) \subseteq Range(rangeFile')
  <2>1. PICK line : rangeFile' = Append(rangeFile, line)
    BY <1>3 DEF AppendRange
  <2> QED
    BY <1>1, <2>1, LineAppended
<1>4. CASE ReconcileSkipped \/ ReconcileDiffers
  BY <1>2, <1>3, <1>4 DEF ReconcileSkipped, ReconcileDiffers
<1>5. CASE ~(ReconcileSkipped \/ ReconcileDiffers)
  BY <1>2, <1>5 DEF Next, NewBlock, ScanBlock, ScanGap, ReconcileAgrees, ReconcileUnrecorded, AppendFails,
                    Reconciled, Checkpoint, CatchUp, Crash, memory
<1> QED
  BY <1>4, <1>5

LEMMA ScannerFollows ==
  ASSUME OnceInv, DisjointInv, FollowInv, Scanner
  PROVE  FollowInv'
<1>1. Next /\ UNCHANGED <<pos, cur, pubs, ranges>>
  BY DEF Scanner, collectorVars
<1> QED
  BY <1>1, PubFileGrows, RangeFileGrows, FollowsOn DEF FollowInv

-----------------------------------------------------------------------------
(* The collector's steps. *)

(* A line of a file being read is one of its lines. *)
LEMMA LineRead ==
  ASSUME NEW file, IsSeq(file), NEW n \in Nat, n < Len(file)
  PROVE  file[n + 1] \in Range(file)
<1>1. Len(file) \in Nat /\ DOMAIN file = 1 .. Len(file)
  BY LenProperties DEF IsSeq
<1> QED
  BY <1>1 DEF Range

LEMMA PublicationStored ==
  ASSUME NEW line \in Range(pubFile), PubsFollow(pubs, Range(pubFile)), Hold!UpsertPublication(line)
  PROVE  PubsFollow(pubs', Range(pubFile)) /\ ranges' = ranges
<1> DEFINE row == [promise |-> line.promise, settle |-> line.settle, tx |-> line.tx, msu |-> line.msu,
                   stamped |-> line.msu, movedBy |-> {}, held |-> Hold!Withheld(line)]
<1>1. ranges' = ranges
  BY DEF Hold!UpsertPublication
<1>2. CASE line.id \in DOMAIN pubs
  BY <1>1, <1>2 DEF Hold!UpsertPublication
<1>3. CASE line.id \notin DOMAIN pubs
  <2>1. pubs' = [i \in DOMAIN pubs \cup {line.id} |-> IF i = line.id THEN row ELSE pubs[i]]
    BY <1>3 DEF Hold!UpsertPublication, Hold!With
  <2>2. IsPubRow(row) /\ row.stamped = line.msu
    BY DEF IsPubRow
  <2> HIDE DEF row
  <2>3. PubFrom(line.id, row, Range(pubFile))
    BY <2>2 DEF PubFrom
  <2> QED
    BY <1>1, <2>1, <2>2, <2>3 DEF PubsFollow
<1> QED
  BY <1>2, <1>3
(* Rows that keep their stamped deadline, their values and resolution. *)
LEMMA StampKept ==
  ASSUME NEW lines, PubsFollow(pubs, lines), NEW table, table = [i \in DOMAIN pubs |-> table[i]],
         \A i \in DOMAIN pubs : IsPubRow(pubs[i]) => IsPubRow(table[i]) /\ table[i].stamped = pubs[i].stamped
  PROVE  PubsFollow(table, lines)
BY DEF PubsFollow, PubFrom

LEMMA ValuesKept ==
  ASSUME NEW lines, RangesFollow(ranges, lines), NEW table, table = [r \in DOMAIN ranges |-> table[r]],
         \A r \in DOMAIN ranges : IsRangeRow(ranges[r]) =>
           IsRangeRow(table[r]) /\ table[r].resolution = ranges[r].resolution /\ table[r].values = ranges[r].values
  PROVE  RangesFollow(table, lines)
BY DEF RangesFollow, RangeFrom

LEMMA RangeStored ==
  ASSUME NEW line \in Range(rangeFile), NEW lines, PubsFollow(pubs, lines), RangesFollow(ranges, Range(rangeFile)),
         Hold!UpsertRange(line)
  PROVE  PubsFollow(pubs', lines) /\ RangesFollow(ranges', Range(rangeFile))
<1> DEFINE w == Hold!Upserted(line)
           n == Hold!RangeId(line)
<1>1. /\ ranges' = [x \in DOMAIN ranges \cup {n} |-> IF x = n THEN w ELSE ranges[x]]
      /\ pubs' = [i \in DOMAIN pubs |->
                    [pubs[i] EXCEPT !.held = pubs[i].held \/ i \in (IF w.holds THEN Hold!Covered(n) ELSE {})]]
  BY DEF Hold!UpsertRange, Hold!With
<1>2. PubsFollow(pubs', lines)
  BY <1>1, StampKept DEF IsPubRow
<1>3. \/ w.resolution = line.resolution /\ w.values = line.values /\ IsRangeRow(w)
      \/ n \in DOMAIN ranges /\ w = ranges[n]
  BY DEF Hold!Upserted, IsRangeRow
<1>4. IsRangeRow(w) /\ RangeFrom(n, w, Range(rangeFile))
  BY <1>3 DEF RangesFollow, RangeFrom
<1> HIDE DEF w, n
<1> QED
  BY <1>1, <1>2, <1>4 DEF RangesFollow

LEMMA CorrectionApplied ==
  ASSUME NEW line, NEW lines, NEW others, PubsFollow(pubs, lines), RangesFollow(ranges, others),
         Hold!ApplyCorrection(line)
  PROVE  PubsFollow(pubs', lines) /\ RangesFollow(ranges', others)
<1>1. CASE line.kind = "deadline"
  <2>1. /\ ranges' = ranges
        /\ pubs' = [pubs EXCEPT ![line.id].msu = line.to, ![line.id].movedBy = @ \cup {line.range}]
    BY <1>1 DEF Hold!ApplyCorrection
  <2>2. pubs = [i \in DOMAIN pubs |-> pubs[i]]
    BY DEF PubsFollow
  <2>3. DOMAIN pubs' = DOMAIN pubs /\ pubs' = [i \in DOMAIN pubs |-> pubs'[i]]
    BY <2>1, <2>2
  <2>4. ASSUME NEW i \in DOMAIN pubs, IsPubRow(pubs[i])
        PROVE  IsPubRow(pubs'[i]) /\ pubs'[i].stamped = pubs[i].stamped
    <3>1. \/ pubs'[i] = pubs[i]
          \/ \E m, by : pubs'[i] = [[pubs[i] EXCEPT !.msu = m] EXCEPT !.movedBy = by]
      BY <2>1, <2>2
    <3> QED
      BY <2>4, <3>1 DEF IsPubRow
  <2> QED
    BY <2>1, <2>3, <2>4, StampKept
<1>2. CASE line.kind = "complete"
  <2>1. /\ pubs' = pubs
        /\ ranges' = [r \in DOMAIN ranges |->
             IF r = line.range /\ ranges[r].resolution = "verified"
             THEN [ranges[r] EXCEPT !.holds = FALSE, !.corrected = TRUE] ELSE ranges[r]]
    BY <1>2 DEF Hold!ApplyCorrection
  <2> QED
    BY <2>1, ValuesKept DEF IsRangeRow
<1>3. CASE line.kind \notin {"deadline", "complete"}
  <2>1. UNCHANGED <<pubs, ranges>>
    BY <1>3 DEF Hold!ApplyCorrection
  <2> QED
    BY <2>1
<1> QED
  BY <1>1, <1>2, <1>3

(* One line of any of the four files. *)
LEMMA LineStored ==
  ASSUME FollowInv, Hold!IngestLine
  PROVE  FollowInv'
<1> DEFINE line == Hold!FileOf(cpc)[pos + 1]
<1>1. cpc \in FileNames /\ pos < Len(Hold!FileOf(cpc)) /\ Hold!Handle(line)
  BY HoldFiles DEF Hold!IngestLine, Hold!Reading
<1>2. UNCHANGED <<pubFile, rangeFile>> /\ pos' = pos + 1
      /\ cur' = IF pos + 1 - cur[cpc] >= CursorEvery THEN [cur EXCEPT ![cpc] = pos + 1] ELSE cur
  BY DEF Hold!IngestLine, Hold!files
<1>3. pos' \in Nat /\ cur' \in [FileNames -> Nat]
  BY <1>1, <1>2 DEF FollowInv
<1>4. PubsFollow(pubs', Range(pubFile)) /\ RangesFollow(ranges', Range(rangeFile))
  <2>1. CASE cpc = "pubs"
    <3>1. line \in Range(pubFile) /\ Hold!UpsertPublication(line)
      BY <1>1, <2>1, LineRead DEF FollowInv, Hold!FileOf, Hold!Handle
    <3> QED
      BY <3>1, PublicationStored DEF FollowInv
  <2>2. CASE cpc = "ranges"
    <3>1. line \in Range(rangeFile) /\ (UNCHANGED <<pubs, ranges>> \/ Hold!UpsertRange(line))
      BY <1>1, <2>2, LineRead DEF FollowInv, Hold!FileOf, Hold!Handle
    <3> QED
      BY <3>1, RangeStored DEF FollowInv
  <2>3. CASE cpc = "corrs"
    <3>1. Hold!ApplyCorrection(line)
      BY <1>1, <2>3 DEF Hold!Handle
    <3> QED
      BY <3>1, CorrectionApplied DEF FollowInv
  <2>4. CASE cpc = "meas"
    <3>1. UNCHANGED <<pubs, ranges>>
      BY <1>1, <2>4 DEF Hold!Handle, Hold!InsertProbe
    <3> QED
      BY <3>1 DEF FollowInv
  <2> QED
    BY <1>1, <2>1, <2>2, <2>3, <2>4 DEF FileNames
<1> QED
  BY <1>2, <1>3, <1>4 DEF FollowInv, IsSeq

(* The steps that leave both tables as they are. *)
LEMMA CursorFollows ==
  ASSUME FollowInv, UNCHANGED <<pubFile, rangeFile, pubs, ranges>>, pos' \in Nat, cur' \in [FileNames -> Nat]
  PROVE  FollowInv'
BY DEF FollowInv, IsSeq

LEMMA GotoIs ==
  ASSUME cur' \in [FileNames -> Nat], NEW step, Hold!Goto(step)
  PROVE  pos' \in Nat
BY HoldFiles DEF Hold!Goto

LEMMA IngestFollows ==
  ASSUME FollowInv, Hold!IngestState \/ Hold!RetryLater \/ Hold!EndOfFile \/ Hold!IngestError
  PROVE  FollowInv'
<1>1. UNCHANGED <<pubFile, rangeFile, pubs, ranges>>
  BY DEF Hold!IngestState, Hold!RetryLater, Hold!EndOfFile, Hold!IngestError, Hold!files
<1>2. cur' = cur \/ cur' = [cur EXCEPT ![cpc] = pos]
  BY DEF Hold!IngestState, Hold!RetryLater, Hold!EndOfFile, Hold!IngestError
<1>3. cur' \in [FileNames -> Nat]
  BY <1>2 DEF FollowInv
<1>4. pos' = pos + 1 \/ \E step : Hold!Goto(step)
  BY DEF Hold!IngestState, Hold!RetryLater, Hold!EndOfFile, Hold!IngestError
<1>5. pos' \in Nat
  BY <1>3, <1>4, GotoIs DEF FollowInv
<1> QED
  BY <1>1, <1>3, <1>5, CursorFollows

LEMMA CorrectorFollows ==
  ASSUME FollowInv,
         \/ Hold!BeginRun \/ Hold!PickRange \/ Hold!MoveDeadline \/ Hold!RegradeRow \/ Hold!FinishRange
         \/ Hold!SweepRow \/ Hold!EndSweep \/ Hold!RunError \/ Hold!Retention
  PROVE  FollowInv'
<1>1. UNCHANGED <<pubFile, rangeFile, pubs, ranges, pos, cur>>
  BY DEF Hold!BeginRun, Hold!PickRange, Hold!MoveDeadline, Hold!RegradeRow, Hold!FinishRange, Hold!SweepRow,
         Hold!EndSweep, Hold!RunError, Hold!Retention, Hold!files, Hold!store
<1> QED
  BY <1>1, CursorFollows DEF FollowInv

LEMMA AppliedFollows ==
  ASSUME FollowInv, Hold!ApplyPending
  PROVE  FollowInv'
<1>1. UNCHANGED <<pubFile, rangeFile, pos, cur>> /\ Hold!ApplyCorrection(pending)
  BY DEF Hold!ApplyPending, Hold!files
<1> QED
  BY <1>1, CorrectionApplied DEF FollowInv, IsSeq

LEMMA SyncFollows ==
  ASSUME FollowInv, Hold!SyncParamHolds
  PROVE  FollowInv'
<1>1. UNCHANGED <<pubFile, rangeFile, ranges, pos, cur>>
  BY DEF Hold!SyncParamHolds, Hold!files
<1>2. \/ pubs' = pubs
      \/ pubs' = [i \in DOMAIN pubs |-> [pubs[i] EXCEPT !.held = Hold!Withheld(pubs[i])]]
  BY DEF Hold!SyncParamHolds, Hold!RecomputeHolds
<1>3. PubsFollow(pubs', Range(pubFile))
  BY <1>2, StampKept DEF FollowInv, IsPubRow
<1> QED
  BY <1>1, <1>3 DEF FollowInv, IsSeq

LEMMA RestartFollows ==
  ASSUME FollowInv, Hold!Crash \/ Hold!Rebuild
  PROVE  FollowInv'
<1>1. UNCHANGED <<pubFile, rangeFile>> /\ pos' = 0
  BY DEF Hold!Crash, Hold!Rebuild, Hold!Restart, Hold!files
<1>2. CASE Hold!Crash
  <2>1. UNCHANGED <<pubs, ranges, cur>>
    BY <1>2 DEF Hold!Crash, Hold!store
  <2> QED
    BY <1>1, <2>1, CursorFollows DEF FollowInv
<1>3. CASE Hold!Rebuild
  <2>1. pubs' = <<>> /\ ranges' = <<>> /\ cur' = [f \in FileNames |-> 0]
    BY <1>3, HoldFiles DEF Hold!Rebuild, Hold!EmptyStore
  <2> QED
    BY <1>1, <2>1 DEF FollowInv, PubsFollow, RangesFollow, IsSeq
<1> QED
  BY <1>2, <1>3

LEMMA InitFollows == PipelineInit => FollowInv
<1> SUFFICES ASSUME PipelineInit PROVE FollowInv
  OBVIOUS
<1>1. pubFile = <<>> /\ rangeFile = <<>> /\ pubs = <<>> /\ ranges = <<>> /\ pos = 0 /\ cur = [f \in FileNames |-> 0]
  BY HoldFiles DEF PipelineInit, Init, Hold!InitStore
<1>2. IsSeq(<<>>)
  BY EmptySeq DEF IsSeq
<1> QED
  BY <1>1, <1>2 DEF FollowInv, PubsFollow, RangesFollow

LEMMA FollowInvKept ==
  ASSUME OnceInv, DisjointInv, FollowInv, [PipelineNext]_pipelineVars
  PROVE  FollowInv'
<1>1. CASE Scanner
  BY <1>1, ScannerFollows
<1>2. CASE Prober
  <2>1. UNCHANGED <<pubFile, rangeFile, pos, cur, pubs, ranges>>
    BY <1>2 DEF Prober, Hold!ProberWrites, Hold!store, Hold!memory
  <2> QED
    BY <2>1, CursorFollows DEF FollowInv
<1>3. CASE Collector
  BY <1>3, LineStored, IngestFollows, CorrectorFollows, AppliedFollows, SyncFollows, RestartFollows
     DEF Collector, Hold!Pass, Hold!Failure
<1>4. CASE UNCHANGED pipelineVars
  <2>1. UNCHANGED <<pubFile, rangeFile, pos, cur, pubs, ranges>>
    BY <1>4 DEF pipelineVars, scannerVars, collectorVars
  <2> QED
    BY <2>1, CursorFollows DEF FollowInv
<1> QED
  BY <1>1, <1>2, <1>3, <1>4 DEF PipelineNext

(* The collector's store holds nothing that is not a line of the scanner's *)
(* files, whatever either process crashed between: a publication keeps the *)
(* deadline its line was stamped with, however often it is moved, and a    *)
(* range the resolution and the values of one of its lines.                *)
THEOREM StoreAlwaysFollowsRecord == PipelineSpec => []StoreFollowsRecord
<1>1. PipelineInit => OnceInv /\ DisjointInv /\ FollowInv
  BY InitOnce, InitDisjoint, InitFollows DEF PipelineInit
<1>2. OnceInv /\ DisjointInv /\ FollowInv /\ [PipelineNext]_pipelineVars => (OnceInv /\ DisjointInv /\ FollowInv)'
  BY PipelineStep, OnceInvKept, DisjointInvKept, FollowInvKept
<1>3. FollowInv => StoreFollowsRecord
  BY DEF FollowInv, PubsFollow, RangesFollow, PubFrom, RangeFrom, StoreFollowsRecord
<1> QED
  BY <1>1, <1>2, <1>3, PTL DEF PipelineSpec
=============================================================================
