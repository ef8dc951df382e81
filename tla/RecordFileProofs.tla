-------------------------- MODULE RecordFileProofs --------------------------
(***************************************************************************)
(* What holds of a record file for every number of writes, archive runs    *)
(* and faults: its segments and its live file are together the record, and *)
(* the file with its archive implements one log with one reader.           *)
(***************************************************************************)
EXTENDS RecordFile, SequenceTheorems, TLAPS

-----------------------------------------------------------------------------
(* The inductive invariant. *)

(* The write a line came from, and how many lines were written before the  *)
(* first of a file: what the index calls the base of that file.            *)
Number(line) == IF line > 0 THEN line ELSE -line
OffsetOf(lines) == IF lines = <<>> THEN 0 ELSE Number(lines[1]) - 1
Base(k) == OffsetOf(files[k])

Segment == [name : Nat, from : Nat, to : Nat]
Generation == [base : Nat, head : Int]

TypeInv ==
  /\ written \in Seq(Int) /\ files \in Seq(Seq(Int)) /\ path \in Nat \ {0}
  /\ index \in [segs : Seq(Segment), gens : Seq(Generation)]
  /\ run \in [step : {"idle", "cut", "copy", "lock", "index", "rename"},
              file : Nat, base : Nat, cut : Nat, end : Nat, copy : Seq(Int)]
  /\ writer \in [step : {"open", "locked", "down"}, file : Nat]
  /\ tail = [step |-> tail.step, file |-> tail.file, size |-> tail.size, base |-> tail.base,
             segs |-> tail.segs, at |-> tail.at, saved |-> tail.saved, archived |-> tail.archived]
  /\ tail.step \in {"idle", "opened", "indexed", "reading"}
  /\ {tail.file, tail.size, tail.base, tail.at, tail.saved, cursor} \subseteq Nat
  /\ tail.segs \in Seq(Segment)

(* Every file the path has named is a stretch of the record, the live one  *)
(* its end.                                                                *)
FilesInv ==
  /\ \A n \in 1 .. Len(written) : Number(written[n]) = n
  /\ path = Len(files)
  /\ \A k \in 1 .. path :
       /\ Base(k) \in Nat /\ Base(k) + Len(files[k]) <= Len(written) /\ Base(k) <= Base(path)
       /\ \A i \in 1 .. Len(files[k]) : files[k][i] = written[Base(k) + i]
  /\ Base(path) + Len(files[path]) = Len(written)

(* The index knows the base of every file, whichever has been opened, and  *)
(* tells its generations by the line written there.                        *)
GenerationsInv ==
  LET gens == index.gens IN
  /\ \A g \in 1 .. Len(gens) : gens[g].base < Len(written) /\ gens[g].head = written[gens[g].base + 1]
  /\ \A g, h \in 1 .. Len(gens) : g < h => gens[g].base < gens[h].base
  /\ \A k \in 1 .. path : Base(k) = 0 \/ \E g \in 1 .. Len(gens) : gens[g].base = Base(k)

(* The segments are stretches of the record too, in order, and those below *)
(* the live file leave no gap.                                             *)
SegmentsInv ==
  LET segs == index.segs IN
  /\ \A j \in 1 .. Len(segs) :
       /\ segs[j].name = j /\ segs[j].from < segs[j].to /\ segs[j].to <= Len(written)
       /\ j \in DOMAIN segFiles
       /\ \A i \in 1 .. segs[j].to - segs[j].from : segFiles[j][i] = written[segs[j].from + i]
  /\ \A i, j \in 1 .. Len(segs) : i < j => segs[i].to <= segs[j].from
  /\ \A n \in 1 .. Base(path) : \E j \in 1 .. Len(segs) : segs[j].from < n /\ n <= segs[j].to /\ segs[j].to <= Base(path)

(* The run's copy is the live file from the cut to its line n. *)
CopiedTo(n) ==
  /\ Len(run.copy) = n - run.cut
  /\ \A i \in 1 .. n - run.cut : run.copy[i] = files[path][run.cut + i]

(* An archive run works on the live file: until it has saved the index     *)
(* nothing there is past the file's base, and once it holds the lock its   *)
(* copy is all that follows the cut.                                       *)
RunInv ==
  LET segs == index.segs  gens == index.gens  live == files[path] IN
  /\ run.step # "idle" => run.file = path /\ run.base = Base(path) /\ run.end <= Len(live)
  /\ run.step \in {"cut", "copy", "lock", "index"} =>
       /\ \A j \in 1 .. Len(segs) : segs[j].to <= run.base
       /\ \A g \in 1 .. Len(gens) : gens[g].base <= run.base
  /\ run.step \in {"copy", "lock", "index", "rename"} => run.cut \in 1 .. Len(live) - 1 /\ run.cut <= run.end
  /\ run.step \in {"copy", "lock", "index"} =>
       /\ Len(segs) + 1 \in DOMAIN segFiles
       /\ \A i \in 1 .. run.cut : segFiles[Len(segs) + 1][i] = live[i]
  /\ run.step = "lock" => CopiedTo(run.end)
  /\ run.step \in {"index", "rename"} => CopiedTo(Len(live))
  /\ run.step = "rename" =>
       /\ \E j \in 1 .. Len(segs) : segs[j].from = run.base /\ segs[j].to = run.base + run.cut
       /\ \E g \in 1 .. Len(gens) : gens[g].base = run.base + run.cut

(* The writer never has the live file while the run swaps it. *)
LocksInv ==
  /\ writer.step = "locked" => shared = writer.file
  /\ run.step \in {"index", "rename"} => exclusive = path
  /\ ~(writer.step = "locked" /\ writer.file = path /\ exclusive = path)

(* The collector's pass goes on from the cursor, over what the record was  *)
(* given: the segments it means to read are still there.                   *)
TailInv ==
  /\ cursor <= Len(written)
  /\ tail.step # "idle" => tail.file \in 1 .. path
  /\ tail.step = "opened" => cursor <= Base(tail.file) + tail.size
  /\ tail.step \in {"indexed", "reading"} => tail.base = Base(tail.file) /\ tail.saved = cursor /\ cursor <= tail.at
  /\ tail.step = "indexed" =>
       /\ tail.at = cursor
       /\ \A sg \in Range(tail.segs) :
            sg.from < tail.base => sg.to <= Base(path) /\ \E j \in 1 .. Len(index.segs) : sg = index.segs[j]
  /\ tail.step = "reading" =>
       /\ tail.at <= Len(written)
       /\ \A n \in tail.at + 1 .. tail.base : tail.archived[n] = written[n]

RecordInv == TypeInv /\ FilesInv /\ GenerationsInv /\ SegmentsInv /\ RunInv /\ LocksInv /\ TailInv

-----------------------------------------------------------------------------
(* What the invariant says of the index. *)

LEMMA MaxIs ==
  ASSUME NEW S \in SUBSET Nat, NEW m \in S, \A n \in S : n <= m
  PROVE  Max(S) = m
<1>1. \A n \in S : (\A k \in S : n >= k) => n = m
  OBVIOUS
<1>2. \A k \in S : m >= k
  OBVIOUS
<1> QED
  BY <1>1, <1>2 DEF Max

(* The types of the parts, as sequences. *)
LEMMA PartTypes ==
  ASSUME TypeInv
  PROVE  /\ written \in Seq(Int) /\ Len(written) \in Nat /\ DOMAIN written = 1 .. Len(written)
         /\ \A n \in 1 .. Len(written) : written[n] \in Int
         /\ files \in Seq(Seq(Int)) /\ Len(files) \in Nat /\ DOMAIN files = 1 .. Len(files)
         /\ \A k \in 1 .. Len(files) : files[k] \in Seq(Int) /\ Len(files[k]) \in Nat /\ DOMAIN files[k] = 1 .. Len(files[k])
         /\ \A k \in 1 .. Len(files) : \A i \in 1 .. Len(files[k]) : files[k][i] \in Int
         /\ index.segs \in Seq(Segment) /\ Len(index.segs) \in Nat /\ DOMAIN index.segs = 1 .. Len(index.segs)
         /\ \A j \in 1 .. Len(index.segs) : index.segs[j] \in Segment /\ index.segs[j].from \in Nat /\ index.segs[j].to \in Nat
         /\ index.gens \in Seq(Generation) /\ Len(index.gens) \in Nat /\ DOMAIN index.gens = 1 .. Len(index.gens)
         /\ \A g \in 1 .. Len(index.gens) : index.gens[g] \in Generation /\ index.gens[g].base \in Nat
         /\ path \in 1 .. path
<1>1. written \in Seq(Int) /\ files \in Seq(Seq(Int)) /\ index.segs \in Seq(Segment) /\ index.gens \in Seq(Generation)
  BY DEF TypeInv
<1>2. /\ Len(written) \in Nat /\ DOMAIN written = 1 .. Len(written)
      /\ \A n \in 1 .. Len(written) : written[n] \in Int
  BY <1>1, LenProperties, ElementOfSeq
<1>3. /\ Len(files) \in Nat /\ DOMAIN files = 1 .. Len(files)
      /\ \A k \in 1 .. Len(files) : files[k] \in Seq(Int)
  BY <1>1, LenProperties, ElementOfSeq
<1>4. /\ \A k \in 1 .. Len(files) : Len(files[k]) \in Nat /\ DOMAIN files[k] = 1 .. Len(files[k])
      /\ \A k \in 1 .. Len(files) : \A i \in 1 .. Len(files[k]) : files[k][i] \in Int
  BY <1>3, LenProperties, ElementOfSeq
<1>5. /\ Len(index.segs) \in Nat /\ DOMAIN index.segs = 1 .. Len(index.segs)
      /\ \A j \in 1 .. Len(index.segs) : index.segs[j] \in Segment
  BY <1>1, LenProperties, ElementOfSeq
<1>6. /\ Len(index.gens) \in Nat /\ DOMAIN index.gens = 1 .. Len(index.gens)
      /\ \A g \in 1 .. Len(index.gens) : index.gens[g] \in Generation
  BY <1>1, LenProperties, ElementOfSeq
<1>7. \A s \in Segment : s.from \in Nat /\ s.to \in Nat
  BY DEF Segment
<1>8. \A g \in Generation : g.base \in Nat
  BY DEF Generation
<1>9. path \in 1 .. path
  BY SMTT(30) DEF TypeInv
<1> QED
  BY <1>1, <1>2, <1>3, <1>4, <1>5, <1>6, <1>7, <1>8, <1>9

(* Lines differ: two of the record that are equal are the same write. *)
LEMMA LinesDiffer ==
  ASSUME FilesInv
  PROVE  \A m, n \in 1 .. Len(written) : written[m] = written[n] => m = n
BY DEF FilesInv

(* A file of at least one line begins with the line at its base. *)
LEMMA FirstOfFile ==
  ASSUME TypeInv, FilesInv, NEW k \in 1 .. path
  PROVE  /\ files[k] = <<>> => Len(files[k]) = 0 /\ Base(k) = 0
         /\ files[k] # <<>> => /\ Len(files[k]) \in Nat \ {0}
                               /\ files[k][1] = written[Base(k) + 1] /\ Base(k) + 1 \in 1 .. Len(written)
<1>1. k \in 1 .. Len(files) /\ files[k] \in Seq(Int) /\ Len(files[k]) \in Nat /\ Len(written) \in Nat
  BY PartTypes DEF FilesInv
<1>2. CASE files[k] = <<>>
  BY <1>2, EmptySeq DEF Base, OffsetOf
<1>3. CASE files[k] # <<>>
  <2>1. Len(files[k]) \in Nat \ {0}
    BY <1>1, <1>3, EmptySeq
  <2> QED
    BY SMTT(30), <1>1, <1>3, <2>1 DEF FilesInv
<1> QED
  BY <1>2, <1>3

(* Whichever file was opened, the index of this moment gives its base. *)
LEMMA BaseIsKnown ==
  ASSUME TypeInv, FilesInv, GenerationsInv, NEW k \in 1 .. path
  PROVE  BaseOf(index, FirstLine(files[k])) = Base(k)
<1> DEFINE gens == index.gens
           head == FirstLine(files[k])
           found == Matching(index, head)
<1>1. /\ Len(gens) \in Nat /\ DOMAIN gens = 1 .. Len(gens)
      /\ \A g \in 1 .. Len(gens) : gens[g] \in Generation
      /\ Base(k) \in Nat /\ Len(written) \in Nat
  BY PartTypes DEF FilesInv
<1>2. CASE files[k] = <<>>
  <2>1. head = NoLine
    BY <1>2 DEF FirstLine
  <2>2. found = {}
    BY <2>1 DEF Matching
  <2> QED
    BY <1>2, <2>2, FirstOfFile DEF BaseOf
<1>3. CASE files[k] # <<>>
  <2>1. head = written[Base(k) + 1] /\ Base(k) + 1 \in 1 .. Len(written)
    BY <1>3, FirstOfFile DEF FirstLine
  <2>2. head # NoLine
    <3>1. Number(head) = Base(k) + 1
      BY <2>1 DEF FilesInv
    <3> QED
      BY <1>1, <3>1 DEF Number, NoLine
  <2>3. \A g \in 1 .. Len(gens) : gens[g].head = head <=> gens[g].base = Base(k)
    <3> SUFFICES ASSUME NEW g \in 1 .. Len(gens)
                 PROVE  gens[g].head = head <=> gens[g].base = Base(k)
      OBVIOUS
    <3>1. gens[g].base \in Nat /\ gens[g].base + 1 \in 1 .. Len(written) /\ gens[g].head = written[gens[g].base + 1]
      BY <1>1 DEF GenerationsInv, Generation
    <3> QED
      BY SMTT(30), <1>1, <2>1, <3>1, LinesDiffer
  <2>4. found = {g \in 1 .. Len(gens) : gens[g].base = Base(k)}
    BY <1>1, <2>2, <2>3 DEF Matching
  <2>5. CASE found = {}
    <3>1. Base(k) = 0
      BY <2>4, <2>5 DEF GenerationsInv
    <3> QED
      BY <2>5, <3>1 DEF BaseOf
  <2>6. CASE found # {}
    <3>1. PICK g \in found : TRUE
      BY <2>6
    <3>2. \A h \in found : h = g
      BY <1>1, <2>4, <3>1 DEF GenerationsInv
    <3>3. found \in SUBSET Nat /\ \A h \in found : h <= g
      BY <1>1, <2>4, <3>1, <3>2
    <3>4. Max(found) = g
      BY <3>1, <3>3, MaxIs
    <3> QED
      BY <2>4, <2>6, <3>1, <3>4 DEF BaseOf
  <2> QED
    BY <2>5, <2>6
<1> QED
  BY <1>2, <1>3

(* A segment that begins below the live file ends there. *)
LEMMA SegmentEndsBelow ==
  ASSUME TypeInv, FilesInv, SegmentsInv,
         NEW j \in 1 .. Len(index.segs), index.segs[j].from < Base(path)
  PROVE  index.segs[j].to <= Base(path)
<1> DEFINE segs == index.segs
<1>1. /\ Len(segs) \in Nat /\ \A i \in 1 .. Len(segs) : segs[i].from \in Nat /\ segs[i].to \in Nat
      /\ path \in 1 .. path /\ Base(path) \in Nat
  BY PartTypes DEF FilesInv
<1>2. PICK i \in 1 .. Len(segs) : segs[i].from < Base(path) /\ Base(path) <= segs[i].to /\ segs[i].to <= Base(path)
  <2>1. Base(path) \in 1 .. Base(path)
    BY <1>1
  <2> QED
    BY <2>1 DEF SegmentsInv
<1>3. ~(i < j)
  BY <1>1, <1>2 DEF SegmentsInv
<1>4. i = j \/ j < i
  BY <1>3
<1>5. j < i => segs[j].to <= segs[i].from
  BY DEF SegmentsInv
<1> QED
  BY <1>1, <1>2, <1>4, <1>5

(* What recovery keeps of the index: the segments that end below the live  *)
(* file and the generations up to its own, and nothing else.               *)
LEMMA KeptSegments ==
  ASSUME TypeInv, FilesInv, SegmentsInv
  PROVE  \E m \in 0 .. Len(index.segs) :
           /\ SegmentsBelow(index, Base(path)) = SubSeq(index.segs, 1, m)
           /\ \A j \in 1 .. Len(index.segs) : j <= m <=> index.segs[j].to <= Base(path)
<1> DEFINE segs == index.segs
           base == Base(path)
           below == {j \in DOMAIN segs : segs[j].to <= base}
<1>1. /\ Len(segs) \in Nat /\ DOMAIN segs = 1 .. Len(segs)
      /\ \A i \in 1 .. Len(segs) : segs[i].from \in Nat /\ segs[i].to \in Nat
      /\ path \in 1 .. path /\ base \in Nat
  BY PartTypes DEF FilesInv
<1>2. \E m \in 0 .. Len(segs) : \A j \in 1 .. Len(segs) : j <= m <=> segs[j].to <= base
  <2>1. CASE base = 0
    <3>1. \A j \in 1 .. Len(segs) : ~(segs[j].to <= base) /\ ~(j <= 0)
      BY <1>1, <2>1 DEF SegmentsInv
    <3>2. 0 \in 0 .. Len(segs)
      BY <1>1
    <3> QED
      BY <3>1, <3>2
  <2>2. CASE base # 0
    <3>1. PICK m \in 1 .. Len(segs) : segs[m].from < base /\ base <= segs[m].to /\ segs[m].to <= base
      BY SMTT(30), <1>1, <2>2 DEF SegmentsInv
    <3>2. \A j \in 1 .. Len(segs) : j < m => segs[j].to <= segs[m].from
      BY DEF SegmentsInv
    <3>3. \A j \in 1 .. Len(segs) : m < j => segs[m].to <= segs[j].from /\ segs[j].from < segs[j].to
      BY DEF SegmentsInv
    <3>4. \A j \in 1 .. Len(segs) : j <= m <=> segs[j].to <= base
      BY SMTT(30), <1>1, <3>1, <3>2, <3>3
    <3> QED
      BY <1>1, <3>4
  <2> QED
    BY <2>1, <2>2
<1>3. PICK m \in 0 .. Len(segs) : \A j \in 1 .. Len(segs) : j <= m <=> segs[j].to <= base
  BY <1>2
<1>4. Max({0} \cup below) = m
  <2>1. {0} \cup below \in SUBSET Nat /\ m \in {0} \cup below /\ \A n \in {0} \cup below : n <= m
    BY <1>1, <1>3
  <2> QED
    BY <2>1, MaxIs
<1> QED
  BY <1>3, <1>4 DEF SegmentsBelow

LEMMA KeptGenerations ==
  ASSUME TypeInv, FilesInv, GenerationsInv
  PROVE  \E m \in 0 .. Len(index.gens) :
           /\ GenerationsUpTo(index, Base(path)) = SubSeq(index.gens, 1, m)
           /\ \A g \in 1 .. Len(index.gens) : g <= m <=> index.gens[g].base <= Base(path)
<1> DEFINE gens == index.gens
           base == Base(path)
           below == {g \in DOMAIN gens : gens[g].base <= base}
<1>1. /\ Len(gens) \in Nat /\ DOMAIN gens = 1 .. Len(gens)
      /\ \A g \in 1 .. Len(gens) : gens[g].base \in Nat
      /\ path \in 1 .. path /\ base \in Nat
  BY PartTypes DEF FilesInv
<1>2. \A g, h \in 1 .. Len(gens) : g < h => gens[g].base < gens[h].base
  BY DEF GenerationsInv
<1>3. \E m \in 0 .. Len(gens) : \A g \in 1 .. Len(gens) : g <= m <=> gens[g].base <= base
  <2>1. CASE \E g \in 1 .. Len(gens) : gens[g].base = base
    <3>1. PICK m \in 1 .. Len(gens) : gens[m].base = base
      BY <2>1
    <3>2. \A g \in 1 .. Len(gens) : g <= m <=> gens[g].base <= base
      BY <1>1, <1>2, <3>1
    <3> QED
      BY <1>1, <3>2
  <2>2. CASE ~\E g \in 1 .. Len(gens) : gens[g].base = base
    <3>1. base = 0
      BY <1>1, <2>2 DEF GenerationsInv
    <3>2. \A g \in 1 .. Len(gens) : ~(gens[g].base <= base)
      BY <1>1, <2>2, <3>1
    <3> QED
      BY SMTT(30), <1>1, <3>2
  <2> QED
    BY <2>1, <2>2
<1>4. PICK m \in 0 .. Len(gens) : \A g \in 1 .. Len(gens) : g <= m <=> gens[g].base <= base
  BY <1>3
<1>5. Max({0} \cup below) = m
  <2>1. {0} \cup below \in SUBSET Nat /\ m \in {0} \cup below /\ \A n \in {0} \cup below : n <= m
    BY <1>1, <1>4
  <2> QED
    BY <2>1, MaxIs
<1> QED
  BY <1>4, <1>5 DEF GenerationsUpTo

-----------------------------------------------------------------------------
(* Steps that leave the record, its archive or the run alone. *)

LEMMA SameRecord ==
  ASSUME RecordInv, UNCHANGED <<files, path, index, segFiles, written>>
  PROVE  /\ FilesInv' /\ GenerationsInv' /\ SegmentsInv'
         /\ \A k : Base(k)' = Base(k)
<1>1. \A k : Base(k)' = Base(k)
  BY DEF Base
<1> QED
  BY <1>1 DEF RecordInv, FilesInv, GenerationsInv, SegmentsInv, Base

LEMMA SameRun ==
  ASSUME RecordInv, UNCHANGED <<files, path, index, segFiles, run>>
  PROVE  RunInv'
BY DEF RecordInv, RunInv, CopiedTo, Base

LEMMA SameTail ==
  ASSUME RecordInv, UNCHANGED <<files, path, index, written, tail, cursor>>
  PROVE  TailInv'
BY DEF RecordInv, TailInv, Base

(* An archive run that has ended claims nothing, and lets go of the lock. *)
LEMMA RunEnded ==
  ASSUME RecordInv, run' = NoRun, exclusive' \in {exclusive, 0}, UNCHANGED <<path, writer, shared>>
  PROVE  RunInv' /\ LocksInv'
<1>1. run'.step = "idle"
  BY DEF NoRun
<1>2. path # 0
  BY DEF RecordInv, TypeInv
<1> QED
  BY <1>1, <1>2 DEF RecordInv, RunInv, LocksInv

(* A collector whose pass has ended claims nothing but its cursor. *)
LEMMA PassEnded ==
  ASSUME RecordInv, tail' = NoPass, cursor' \in {cursor, tail.at}, cursor' <= Len(written), UNCHANGED written
  PROVE  TailInv'
<1>1. tail'.step = "idle"
  BY DEF NoPass
<1> QED
  BY <1>1 DEF RecordInv, TailInv

-----------------------------------------------------------------------------
(* The writer. *)

LEMMA LockSharedInv ==
  ASSUME RecordInv, LockShared
  PROVE  RecordInv'
<1>1. /\ UNCHANGED <<files, path, index, segFiles, written, run, tail, cursor, exclusive>>
      /\ exclusive # writer.file /\ shared' = writer.file /\ writer' = [writer EXCEPT !.step = "locked"]
  BY DEF LockShared, disk, reader
<1>2. writer' \in [step : {"open", "locked", "down"}, file : Nat] /\ writer'.file = writer.file /\ writer'.step = "locked"
  BY <1>1 DEF RecordInv, TypeInv
<1>3. TypeInv'
  BY <1>1, <1>2 DEF RecordInv, TypeInv
<1>4. LocksInv'
  BY <1>1, <1>2 DEF RecordInv, LocksInv
<1> QED
  BY <1>1, <1>3, <1>4, SameRecord, SameRun, SameTail DEF RecordInv

(* The writer lets go of the file without having added a line. *)
LEMMA WriterLetsGo ==
  ASSUME RecordInv, shared' = 0,
         writer' \in [step : {"open", "down"}, file : Nat],
         UNCHANGED <<files, path, index, segFiles, exclusive, run, reader, written>>
  PROVE  RecordInv'
<1>1. UNCHANGED <<tail, cursor>>
  BY DEF reader
<1>2. TypeInv'
  BY <1>1 DEF RecordInv, TypeInv
<1>3. LocksInv'
  BY DEF RecordInv, LocksInv
<1> QED
  BY <1>1, <1>2, <1>3, SameRecord, SameRun, SameTail DEF RecordInv

(* What a write does to the record and to the files. *)
LEMMA WriteExtends ==
  ASSUME RecordInv, WriteLine
  PROVE  LET new == Len(written) + 1 IN
         /\ written' \in Seq(Int) /\ Len(written') = new /\ Number(written'[new]) = new
         /\ \A n \in 1 .. Len(written) : written'[n] = written[n]
         /\ files' \in Seq(Seq(Int)) /\ Len(files') = Len(files)
         /\ \A k \in 1 .. path : k # path => files'[k] = files[k]
         /\ Len(files'[path]) = Len(files[path]) + 1 /\ files'[path][Len(files[path]) + 1] = written'[new]
         /\ \A i \in 1 .. Len(files[path]) : files'[path][i] = files[path][i]
<1>1. PICK line : /\ line = IF path \in torn THEN -(Len(written) + 1) ELSE Len(written) + 1
                  /\ files' = [files EXCEPT ![path] = Append(@, line)]
                  /\ written' = Append(written, line)
  BY DEF WriteLine
<1>2. /\ written \in Seq(Int) /\ Len(written) \in Nat /\ files \in Seq(Seq(Int))
      /\ Len(files) = path /\ path \in 1 .. Len(files) /\ files[path] \in Seq(Int)
  BY PartTypes DEF RecordInv, FilesInv
<1>3. line \in Int /\ Number(line) = Len(written) + 1
  BY <1>1, <1>2 DEF Number
<1>4. /\ written' \in Seq(Int) /\ Len(written') = Len(written) + 1
      /\ \A n \in 1 .. Len(written) : written'[n] = written[n]
      /\ written'[Len(written) + 1] = line
  BY <1>1, <1>2, <1>3, AppendProperties
<1>5. /\ Append(files[path], line) \in Seq(Int) /\ Len(Append(files[path], line)) = Len(files[path]) + 1
      /\ \A i \in 1 .. Len(files[path]) : Append(files[path], line)[i] = files[path][i]
      /\ Append(files[path], line)[Len(files[path]) + 1] = line
  BY <1>2, <1>3, AppendProperties
<1>6. /\ files' \in Seq(Seq(Int)) /\ Len(files') = Len(files)
      /\ \A k \in 1 .. Len(files) : files'[k] = IF k = path THEN Append(files[path], line) ELSE files[k]
  <2>1. files' = [files EXCEPT ![path] = Append(files[path], line)]
    BY <1>1
  <2> QED
    BY <2>1, <1>2, <1>5, ExceptSeq
<1> QED
  BY <1>2, <1>3, <1>4, <1>5, <1>6

(* The base of no file moves with a write. *)
LEMMA WriteKeepsBases ==
  ASSUME RecordInv, WriteLine
  PROVE  \A k \in 1 .. path : OffsetOf(files'[k]) = Base(k)
<1> SUFFICES ASSUME NEW k \in 1 .. path PROVE OffsetOf(files'[k]) = OffsetOf(files[k])
  BY DEF Base
<1> USE DEF RecordInv
<1>1. CASE k # path
  BY <1>1, WriteExtends
<1>2. CASE k = path
  <2>1. /\ path \in 1 .. Len(files) /\ path \in 1 .. Len(files') /\ files' \in Seq(Seq(Int)) /\ Len(files[path]) \in Nat
        /\ Len(written) \in Nat
    BY PartTypes, WriteExtends DEF FilesInv
  <2>2. files'[path] \in Seq(Int) /\ Len(files'[path]) = Len(files[path]) + 1
    BY <2>1, ElementOfSeq, WriteExtends
  <2>3. files'[path] # <<>>
    BY <2>1, <2>2, EmptySeq
  <2>4. CASE files[path] = <<>>
    <3>1. Len(files[path]) = 0 /\ Base(path) = 0
      BY <2>4, FirstOfFile, PartTypes
    <3>2. Len(written) = 0
      BY <3>1 DEF FilesInv
    <3>3. files'[path][1] = written'[1] /\ Number(written'[1]) = 1
      BY <3>1, <3>2, WriteExtends
    <3> QED
      BY <1>2, <2>3, <2>4, <3>3 DEF OffsetOf
  <2>5. CASE files[path] # <<>>
    <3>1. Len(files[path]) \in Nat \ {0}
      BY <2>5, FirstOfFile, PartTypes
    <3>2. files'[path][1] = files[path][1]
      BY <3>1, WriteExtends
    <3> QED
      BY <1>2, <2>3, <2>5, <3>2 DEF OffsetOf
  <2> QED
    BY <2>4, <2>5
<1> QED
  BY <1>1, <1>2

LEMMA WriteLineInv ==
  ASSUME RecordInv, WriteLine
  PROVE  RecordInv'
<1> DEFINE new == Len(written) + 1
           live == files[path]
           segs == index.segs
           gens == index.gens
<1>1. /\ UNCHANGED <<path, index, segFiles, exclusive, run, tail, cursor>>
      /\ writer.step = "locked" /\ writer.file = path /\ shared' = 0 /\ writer' = [writer EXCEPT !.step = "open"]
  BY DEF WriteLine, Current, reader
<1>2. Len(written) \in Nat /\ Len(live) \in Nat /\ path = Len(files) /\ path \in 1 .. path
  BY PartTypes DEF RecordInv, FilesInv
<1>3. /\ written' \in Seq(Int) /\ Len(written') = new /\ Number(written'[new]) = new
      /\ files' \in Seq(Seq(Int)) /\ Len(files') = Len(files)
  BY WriteExtends
<1>4. \A n \in 1 .. Len(written) : n \in 1 .. new /\ written'[n] = written[n]
  BY <1>2, WriteExtends
<1>5. /\ \A k \in 1 .. path : k # path => files'[k] = files[k]
      /\ Len(files'[path]) = Len(live) + 1 /\ files'[path][Len(live) + 1] = written'[new]
      /\ \A i \in 1 .. Len(live) : files'[path][i] = live[i]
  BY WriteExtends
<1>6. \A k \in 1 .. path : OffsetOf(files'[k]) = Base(k) /\ Base(k) \in Nat
  BY WriteKeepsBases DEF RecordInv, FilesInv
<1>7. writer' \in [step : {"open", "locked", "down"}, file : Nat] /\ writer'.file = path /\ writer'.step = "open"
  BY <1>1 DEF RecordInv, TypeInv
<1>8. TypeInv'
  BY <1>1, <1>3, <1>7 DEF RecordInv, TypeInv
<1>9. FilesInv'
  <2>1. \A n \in 1 .. new : Number(written'[n]) = n
    <3>1. \A n \in 1 .. new : n \in 1 .. Len(written) \/ n = new
      BY <1>2
    <3> QED
      BY <1>3, <1>4, <3>1 DEF RecordInv, FilesInv
  <2>2. Base(path) + Len(live) = Len(written) /\ Base(path) \in Nat
    BY <1>2, <1>6 DEF RecordInv, FilesInv
  <2>3. ASSUME NEW k \in 1 .. path
        PROVE  /\ Base(k) + Len(files'[k]) <= new /\ Base(k) <= Base(path)
               /\ \A i \in 1 .. Len(files'[k]) : files'[k][i] = written'[Base(k) + i]
    <3>1. /\ Base(k) \in Nat /\ Len(files[k]) \in Nat /\ Base(k) + Len(files[k]) <= Len(written) /\ Base(k) <= Base(path)
          /\ \A i \in 1 .. Len(files[k]) : files[k][i] = written[Base(k) + i]
      BY <1>2, PartTypes DEF RecordInv, FilesInv
    <3>2. \A i \in 1 .. Len(files[k]) : Base(k) + i \in 1 .. Len(written)
      BY <1>2, <3>1
    <3>3. \A i \in 1 .. Len(files[k]) : files[k][i] = written'[Base(k) + i]
      BY <1>4, <3>1, <3>2
    <3>4. CASE k # path
      <4>1. files'[k] = files[k]
        BY <1>5, <3>4
      <4> QED
        BY <1>2, <3>1, <3>3, <4>1
    <3>5. CASE k = path
      <4>1. \A i \in 1 .. Len(live) : files'[path][i] = written'[Base(path) + i]
        BY <1>5, <3>3, <3>5
      <4>2. files'[path][Len(live) + 1] = written'[Base(path) + (Len(live) + 1)]
        <5>1. Base(path) + (Len(live) + 1) = new
          BY <1>2, <2>2
        <5> QED
          BY <1>5, <5>1
      <4>3. \A i \in 1 .. Len(live) + 1 : i \in 1 .. Len(live) \/ i = Len(live) + 1
        BY <1>2
      <4>4. \A i \in 1 .. Len(live) + 1 : files'[path][i] = written'[Base(path) + i]
        BY <4>1, <4>2, <4>3
      <4>5. Base(path) + Len(files'[path]) <= new
        BY <1>2, <1>5, <2>2, <3>1, <3>5
      <4> QED
        BY <1>5, <3>1, <3>5, <4>4, <4>5
    <3> QED
      BY <3>4, <3>5
  <2>4. Base(path) + Len(files'[path]) = new
    BY <1>2, <1>6, <1>5, <2>2
  <2> QED
    BY <1>1, <1>2, <1>3, <1>6, <2>1, <2>3, <2>4 DEF FilesInv, Base
<1>10. GenerationsInv'
  <2>1. \A g \in 1 .. Len(gens) : gens[g].base < new /\ gens[g].head = written'[gens[g].base + 1]
    <3> TAKE g \in 1 .. Len(gens)
    <3>1. gens[g].base < Len(written) /\ gens[g].head = written[gens[g].base + 1] /\ gens[g].base \in Nat
      BY PartTypes DEF RecordInv, GenerationsInv
    <3>2. gens[g].base + 1 \in 1 .. Len(written)
      BY <1>2, <3>1
    <3> QED
      BY <1>2, <1>4, <3>1, <3>2
  <2> QED
    BY <1>1, <1>3, <1>6, <2>1 DEF RecordInv, GenerationsInv, Base
<1>11. SegmentsInv'
  <2>1. ASSUME NEW j \in 1 .. Len(segs)
        PROVE  /\ segs[j].to <= new
               /\ \A i \in 1 .. segs[j].to - segs[j].from : segFiles[j][i] = written'[segs[j].from + i]
    <3>1. segs[j].from < segs[j].to /\ segs[j].to <= Len(written) /\ segs[j].from \in Nat /\ segs[j].to \in Nat
      BY PartTypes DEF RecordInv, SegmentsInv
    <3>2. \A i \in 1 .. segs[j].to - segs[j].from : segs[j].from + i \in 1 .. Len(written)
      BY SMTT(30), <1>2, <3>1
    <3>3. \A i \in 1 .. segs[j].to - segs[j].from : segFiles[j][i] = written[segs[j].from + i]
      BY DEF RecordInv, SegmentsInv
    <3>4. \A i \in 1 .. segs[j].to - segs[j].from : segFiles[j][i] = written'[segs[j].from + i]
      BY <1>4, <3>2, <3>3
    <3> QED
      BY <1>2, <3>1, <3>4
  <2> QED
    BY <1>1, <1>2, <1>3, <1>6, <2>1 DEF RecordInv, SegmentsInv, Base
<1>12. RunInv'
  <2>1. run.step \notin {"index", "rename"}
    BY <1>1 DEF RecordInv, LocksInv
  <2>2. run.step \in {"idle", "cut", "copy", "lock", "index", "rename"} /\ run.cut \in Nat /\ run.end \in Nat
    BY DEF RecordInv, TypeInv
  <2>3. run.step # "idle" => run.file = path /\ run.base = Base(path) /\ run.end <= Len(live) + 1
    BY <1>2, <2>2 DEF RecordInv, RunInv
  <2>4. run.step \in {"copy", "lock"} =>
          /\ run.cut \in 1 .. Len(live) /\ run.cut <= run.end
          /\ \A i \in 1 .. run.cut : segFiles[Len(segs) + 1][i] = files'[path][i]
    <3> SUFFICES ASSUME run.step \in {"copy", "lock"}
                 PROVE  /\ run.cut \in 1 .. Len(live) /\ run.cut <= run.end
                        /\ \A i \in 1 .. run.cut : segFiles[Len(segs) + 1][i] = files'[path][i]
      OBVIOUS
    <3>1. /\ run.cut \in 1 .. Len(live) - 1 /\ run.cut <= run.end
          /\ \A i \in 1 .. run.cut : segFiles[Len(segs) + 1][i] = live[i]
      BY DEF RecordInv, RunInv
    <3>2. \A i \in 1 .. run.cut : i \in 1 .. Len(live)
      BY <1>2, <3>1
    <3>3. \A i \in 1 .. run.cut : segFiles[Len(segs) + 1][i] = files'[path][i]
      BY <1>5, <3>1, <3>2
    <3>4. run.cut \in 1 .. Len(live)
      BY <1>2, <3>1
    <3> QED
      BY <3>1, <3>3, <3>4
  <2>5. run.step = "lock" =>
          Len(run.copy) = run.end - run.cut /\ \A i \in 1 .. run.end - run.cut : run.copy[i] = files'[path][run.cut + i]
    <3> SUFFICES ASSUME run.step = "lock"
                 PROVE  /\ Len(run.copy) = run.end - run.cut
                        /\ \A i \in 1 .. run.end - run.cut : run.copy[i] = files'[path][run.cut + i]
      OBVIOUS
    <3>1. CopiedTo(run.end) /\ run.end <= Len(live)
      BY DEF RecordInv, RunInv
    <3>2. \A i \in 1 .. run.end - run.cut : run.cut + i \in 1 .. Len(live)
      BY <1>2, <2>2, <3>1
    <3> QED
      BY <1>5, <3>1, <3>2 DEF CopiedTo
  <2>6. run.cut \in 1 .. Len(live) => run.cut \in 1 .. Len(files'[path]) - 1
    BY <1>2, <1>5
  <2>7. run'.step # "idle" => run'.file = path' /\ run'.base = Base(path)' /\ run'.end <= Len(files'[path'])
    BY <1>1, <1>2, <1>6, <1>5, <2>3 DEF Base
  <2>8. run'.step \in {"cut", "copy", "lock", "index"} =>
          /\ \A j \in 1 .. Len(segs) : segs[j].to <= run.base
          /\ \A g \in 1 .. Len(gens) : gens[g].base <= run.base
    BY <1>1 DEF RecordInv, RunInv
  <2>9. run.step \in {"copy", "lock", "index"} => Len(segs) + 1 \in DOMAIN segFiles
    BY DEF RecordInv, RunInv
  <2> QED
    BY <1>1, <2>1, <2>4, <2>5, <2>6, <2>7, <2>8, <2>9 DEF RunInv, CopiedTo
<1>13. LocksInv'
  BY <1>1, <1>7 DEF RecordInv, LocksInv
<1>14. TailInv'
  <2>1. cursor <= new
    BY SMTT(30), <1>2 DEF RecordInv, TailInv, TypeInv
  <2>2. tail.step # "idle" => tail.file \in 1 .. path
    BY DEF RecordInv, TailInv
  <2>3. tail.step = "reading" => tail.at <= new
    BY SMTT(30), <1>2 DEF RecordInv, TailInv, TypeInv
  <2>4. tail.step = "reading" => \A n \in tail.at + 1 .. tail.base : tail.archived[n] = written'[n]
    <3> SUFFICES ASSUME tail.step = "reading", NEW n \in tail.at + 1 .. tail.base
                 PROVE  tail.archived[n] = written'[n]
      OBVIOUS
    <3>1. tail.base = Base(tail.file) /\ tail.file \in 1 .. path /\ tail.archived[n] = written[n]
      BY DEF RecordInv, TailInv
    <3>2. tail.at \in Nat /\ tail.base \in Nat /\ tail.base <= Len(written)
      <4>1. tail.at \in Nat /\ tail.base \in Nat
        BY DEF RecordInv, TypeInv
      <4>2. Len(files[tail.file]) \in Nat /\ Base(tail.file) + Len(files[tail.file]) <= Len(written)
        BY <1>2, <3>1, PartTypes DEF RecordInv, FilesInv
      <4> QED
        BY <1>2, <3>1, <4>1, <4>2
    <3>3. n \in 1 .. Len(written)
      BY <1>2, <3>2
    <3> QED
      BY <1>4, <3>1, <3>3
  <2> QED
    BY <1>1, <1>2, <1>3, <1>6, <2>1, <2>2, <2>3, <2>4 DEF RecordInv, TailInv, Base
<1> QED
  BY <1>8, <1>9, <1>10, <1>11, <1>12, <1>13, <1>14 DEF RecordInv

LEMMA ReopenInv ==
  ASSUME RecordInv, Reopen
  PROVE  RecordInv'
<1>1. writer' \in [step : {"open", "down"}, file : Nat]
  BY DEF Reopen, RecordInv, TypeInv
<1> QED
  BY <1>1, WriterLetsGo DEF Reopen, disk

LEMMA ShortWriteInv ==
  ASSUME RecordInv, ShortWrite
  PROVE  RecordInv'
<1>1. writer' \in [step : {"open", "down"}, file : Nat]
  BY DEF ShortWrite, RecordInv, TypeInv
<1> QED
  BY <1>1, WriterLetsGo DEF ShortWrite

LEMMA WriterDiesInv ==
  ASSUME RecordInv, WriterDies
  PROVE  RecordInv'
<1>1. writer' \in [step : {"open", "down"}, file : Nat]
  BY DEF WriterDies
<1> QED
  BY <1>1, WriterLetsGo DEF WriterDies

LEMMA WriterReturnsInv ==
  ASSUME RecordInv, WriterReturns
  PROVE  RecordInv'
<1>1. /\ UNCHANGED <<files, path, index, segFiles, shared, exclusive, run, tail, cursor, written>>
      /\ writer' = [step |-> "open", file |-> path]
  BY DEF WriterReturns, locks, reader
<1>2. TypeInv'
  BY <1>1 DEF RecordInv, TypeInv
<1>3. LocksInv'
  BY <1>1 DEF RecordInv, LocksInv
<1> QED
  BY <1>1, <1>2, <1>3, SameRecord, SameRun, SameTail DEF RecordInv

-----------------------------------------------------------------------------
(* The archive run. *)

(* What recovery leaves: the segments below the live file and its own and  *)
(* earlier generations, with the files of those segments.                  *)
LEMMA RecoveryKeeps ==
  ASSUME RecordInv, StartRun
  PROVE  /\ run' = [NoRun EXCEPT !.step = "cut", !.file = path, !.base = Base(path), !.end = Len(files[path])]
         /\ index' \in [segs : Seq(Segment), gens : Seq(Generation)]
         /\ Len(index'.segs) \in 0 .. Len(index.segs)
         /\ \A j \in 1 .. Len(index'.segs) :
              /\ j \in 1 .. Len(index.segs) /\ index'.segs[j] = index.segs[j] /\ index.segs[j].to <= Base(path)
              /\ j \in DOMAIN segFiles' /\ segFiles'[j] = segFiles[j]
         /\ \A j \in 1 .. Len(index.segs) : index.segs[j].to <= Base(path) => j \in 1 .. Len(index'.segs)
         /\ Len(index'.gens) \in 0 .. Len(index.gens)
         /\ \A g \in 1 .. Len(index'.gens) :
              g \in 1 .. Len(index.gens) /\ index'.gens[g] = index.gens[g] /\ index.gens[g].base <= Base(path)
         /\ \A g \in 1 .. Len(index.gens) : index.gens[g].base <= Base(path) => g \in 1 .. Len(index'.gens)
<1> DEFINE segs == index.segs
           gens == index.gens
           stale == {sg.name : sg \in Range(index.segs) \ Range(index'.segs)}
<1>1. path \in 1 .. path /\ BaseOf(index, FirstLine(Live)) = Base(path)
  BY PartTypes, BaseIsKnown DEF RecordInv, Live
<1>2. /\ index' = [segs |-> SegmentsBelow(index, Base(path)), gens |-> GenerationsUpTo(index, Base(path))]
      /\ segFiles' = Restrict(segFiles, DOMAIN segFiles \ stale)
      /\ run' = [NoRun EXCEPT !.step = "cut", !.file = path, !.base = Base(path), !.end = Len(files[path])]
  BY <1>1 DEF StartRun, RecoverIndex, Live
<1>3. PICK m \in 0 .. Len(segs) :
        /\ SegmentsBelow(index, Base(path)) = SubSeq(segs, 1, m)
        /\ \A j \in 1 .. Len(segs) : j <= m <=> segs[j].to <= Base(path)
  BY KeptSegments DEF RecordInv
<1>4. PICK h \in 0 .. Len(gens) :
        /\ GenerationsUpTo(index, Base(path)) = SubSeq(gens, 1, h)
        /\ \A g \in 1 .. Len(gens) : g <= h <=> gens[g].base <= Base(path)
  BY KeptGenerations DEF RecordInv
<1>5. /\ Len(segs) \in Nat /\ Len(gens) \in Nat
      /\ segs \in Seq(Segment) /\ gens \in Seq(Generation)
      /\ DOMAIN segs = 1 .. Len(segs)
      /\ \A j \in 1 .. Len(segs) : segs[j] \in Segment
      /\ \A g \in 1 .. Len(gens) : gens[g] \in Generation
  BY PartTypes DEF RecordInv
<1>6. /\ index'.segs \in Seq(Segment) /\ Len(index'.segs) = m
      /\ \A j \in 1 .. m : j \in 1 .. Len(segs) /\ index'.segs[j] = segs[j]
  <2>1. \A j \in 1 .. m : j \in 1 .. Len(segs) /\ segs[j] \in Segment
    BY <1>5
  <2>2. /\ SubSeq(segs, 1, m) \in Seq(Segment)
        /\ Len(SubSeq(segs, 1, m)) = IF 1 <= m THEN m - 1 + 1 ELSE 0
        /\ \A j \in 1 .. m - 1 + 1 : SubSeq(segs, 1, m)[j] = segs[1 + j - 1]
    BY <1>5, <2>1, SubSeqProperties
  <2> QED
    BY <1>2, <1>3, <1>5, <2>1, <2>2
<1>7. /\ index'.gens \in Seq(Generation) /\ Len(index'.gens) = h
      /\ \A g \in 1 .. h : g \in 1 .. Len(gens) /\ index'.gens[g] = gens[g]
  <2>1. \A g \in 1 .. h : g \in 1 .. Len(gens) /\ gens[g] \in Generation
    BY <1>5
  <2>2. /\ SubSeq(gens, 1, h) \in Seq(Generation)
        /\ Len(SubSeq(gens, 1, h)) = IF 1 <= h THEN h - 1 + 1 ELSE 0
        /\ \A g \in 1 .. h - 1 + 1 : SubSeq(gens, 1, h)[g] = gens[1 + g - 1]
    BY <1>5, <2>1, SubSeqProperties
  <2> QED
    BY <1>2, <1>4, <1>5, <2>1, <2>2
<1>8. ASSUME NEW j \in 1 .. m
      PROVE  j \in DOMAIN segFiles' /\ segFiles'[j] = segFiles[j]
  <2>1. j \in DOMAIN segFiles
    BY <1>6 DEF RecordInv, SegmentsInv
  <2>2. j \notin stale
    <3> SUFFICES ASSUME NEW sg \in Range(segs) \ Range(index'.segs), sg.name = j PROVE FALSE
      OBVIOUS
    <3>1. PICK i \in 1 .. Len(segs) : sg = segs[i]
      BY <1>5 DEF Range
    <3>2. i = j
      BY <3>1 DEF RecordInv, SegmentsInv
    <3>3. DOMAIN index'.segs = 1 .. m
      BY <1>6, LenProperties
    <3>4. sg \in Range(index'.segs)
      BY <1>6, <3>1, <3>2, <3>3 DEF Range
    <3> QED
      BY <3>4
  <2> QED
    BY <1>2, <2>1, <2>2 DEF Restrict
<1>9. index' \in [segs : Seq(Segment), gens : Seq(Generation)]
  BY <1>2, <1>6, <1>7
<1>10. \A j \in 1 .. Len(index'.segs) :
         /\ j \in 1 .. Len(segs) /\ index'.segs[j] = segs[j] /\ segs[j].to <= Base(path)
         /\ j \in DOMAIN segFiles' /\ segFiles'[j] = segFiles[j]
  BY <1>3, <1>6, <1>8
<1>11. \A j \in 1 .. Len(segs) : segs[j].to <= Base(path) => j \in 1 .. Len(index'.segs)
  BY <1>3, <1>5, <1>6
<1>12. \A g \in 1 .. Len(index'.gens) : g \in 1 .. Len(gens) /\ index'.gens[g] = gens[g] /\ gens[g].base <= Base(path)
  BY SMTT(30), <1>4, <1>7
<1>13. \A g \in 1 .. Len(gens) : gens[g].base <= Base(path) => g \in 1 .. Len(index'.gens)
  BY <1>4, <1>5, <1>7
<1> QED
  BY <1>2, <1>6, <1>7, <1>9, <1>10, <1>11, <1>12, <1>13

LEMMA StartRunInv ==
  ASSUME RecordInv, StartRun
  PROVE  RecordInv'
<1> DEFINE segs == index.segs
           gens == index.gens
<1>1. UNCHANGED <<files, path, written, shared, exclusive, writer, tail, cursor>>
  BY DEF StartRun, locks, reader
<1>2. /\ Len(written) \in Nat /\ path = Len(files) /\ path \in 1 .. path
      /\ Len(files[path]) \in Nat /\ Len(segs) \in Nat /\ Len(gens) \in Nat /\ Base(path) \in Nat
  BY PartTypes DEF RecordInv, FilesInv
<1>3. /\ run'.step = "cut" /\ run'.file = path /\ run'.base = Base(path) /\ run'.end = Len(files[path])
      /\ run' \in [step : {"idle", "cut", "copy", "lock", "index", "rename"},
                   file : Nat, base : Nat, cut : Nat, end : Nat, copy : Seq(Int)]
  <2>1. <<>> \in Seq(Int) /\ path \in Nat
    BY EmptySeq DEF RecordInv, TypeInv
  <2>2. run' = [NoRun EXCEPT !.step = "cut", !.file = path, !.base = Base(path), !.end = Len(files[path])]
    BY RecoveryKeeps
  <2> QED
    BY <1>2, <2>1, <2>2 DEF NoRun
<1>4. /\ index' \in [segs : Seq(Segment), gens : Seq(Generation)]
      /\ Len(index'.segs) \in Nat /\ Len(index'.gens) \in Nat
  BY <1>2, RecoveryKeeps
<1>5. /\ \A j \in 1 .. Len(index'.segs) :
           /\ j \in 1 .. Len(segs) /\ index'.segs[j] = segs[j] /\ segs[j].to <= Base(path)
           /\ j \in DOMAIN segFiles' /\ segFiles'[j] = segFiles[j]
      /\ \A j \in 1 .. Len(segs) : segs[j].to <= Base(path) => j \in 1 .. Len(index'.segs)
  BY RecoveryKeeps
<1>6. /\ \A g \in 1 .. Len(index'.gens) : g \in 1 .. Len(gens) /\ index'.gens[g] = gens[g] /\ gens[g].base <= Base(path)
      /\ \A g \in 1 .. Len(gens) : gens[g].base <= Base(path) => g \in 1 .. Len(index'.gens)
  BY RecoveryKeeps
<1>7. TypeInv'
  BY <1>1, <1>3, <1>4 DEF RecordInv, TypeInv
<1>8. FilesInv'
  BY <1>1 DEF RecordInv, FilesInv, Base
<1>9. GenerationsInv'
  <2>1. \A g, h \in 1 .. Len(index'.gens) : g < h => index'.gens[g].base < index'.gens[h].base
    BY <1>6 DEF RecordInv, GenerationsInv
  <2>2. \A g \in 1 .. Len(index'.gens) :
          index'.gens[g].base < Len(written) /\ index'.gens[g].head = written[index'.gens[g].base + 1]
    BY <1>6 DEF RecordInv, GenerationsInv
  <2>3. \A k \in 1 .. path : Base(k) = 0 \/ \E g \in 1 .. Len(index'.gens) : index'.gens[g].base = Base(k)
    <3> TAKE k \in 1 .. path
    <3>1. Base(k) \in Nat /\ Base(k) <= Base(path)
      BY DEF RecordInv, FilesInv
    <3>2. CASE Base(k) # 0
      <4>1. PICK g \in 1 .. Len(gens) : gens[g].base = Base(k)
        BY <3>2 DEF RecordInv, GenerationsInv
      <4> QED
        BY <1>6, <3>1, <4>1
    <3> QED
      BY <3>2
  <2> QED
    BY <1>1, <2>1, <2>2, <2>3 DEF GenerationsInv, Base
<1>10. SegmentsInv'
  <2>1. \A j \in 1 .. Len(index'.segs) :
          /\ index'.segs[j].name = j /\ index'.segs[j].from < index'.segs[j].to /\ index'.segs[j].to <= Len(written)
          /\ j \in DOMAIN segFiles'
          /\ \A i \in 1 .. index'.segs[j].to - index'.segs[j].from : segFiles'[j][i] = written[index'.segs[j].from + i]
    BY <1>5 DEF RecordInv, SegmentsInv
  <2>2. \A i, j \in 1 .. Len(index'.segs) : i < j => index'.segs[i].to <= index'.segs[j].from
    BY <1>5 DEF RecordInv, SegmentsInv
  <2>3. \A n \in 1 .. Base(path) :
          \E j \in 1 .. Len(index'.segs) :
            index'.segs[j].from < n /\ n <= index'.segs[j].to /\ index'.segs[j].to <= Base(path)
    BY <1>5 DEF RecordInv, SegmentsInv
  <2> QED
    BY <1>1, <2>1, <2>2, <2>3 DEF SegmentsInv, Base
<1>11. RunInv'
  <2>1. \A j \in 1 .. Len(index'.segs) : index'.segs[j].to <= run'.base
    BY <1>3, <1>5
  <2>2. \A g \in 1 .. Len(index'.gens) : index'.gens[g].base <= run'.base
    BY <1>3, <1>6
  <2> QED
    BY <1>1, <1>2, <1>3, <2>1, <2>2 DEF RunInv, Base
<1>12. LocksInv'
  BY <1>1, <1>3 DEF RecordInv, LocksInv
<1>13. TailInv'
  <2>1. tail.step = "indexed" =>
          \A sg \in Range(tail.segs) :
            sg.from < tail.base => sg.to <= Base(path) /\ \E j \in 1 .. Len(index'.segs) : sg = index'.segs[j]
    BY <1>5 DEF RecordInv, TailInv
  <2> QED
    BY <1>1, <2>1 DEF RecordInv, TailInv, Base
<1> QED
  BY <1>7, <1>8, <1>9, <1>10, <1>11, <1>12, <1>13 DEF RecordInv

(* The file of the next segment is written; no segment of the index is. *)
LEMMA WriteSegmentInv ==
  ASSUME RecordInv, WriteSegment
  PROVE  RecordInv'
<1> DEFINE segs == index.segs
           live == files[path]
           new == Len(segs) + 1
<1>1. UNCHANGED <<files, path, index, written, shared, exclusive, writer, tail, cursor>>
  BY DEF WriteSegment, locks, reader
<1>2. /\ run.step = "cut" /\ run.file = path /\ run.base = Base(path) /\ run.end <= Len(live)
      /\ \A j \in 1 .. Len(segs) : segs[j].to <= run.base
      /\ \A g \in 1 .. Len(index.gens) : index.gens[g].base <= run.base
  BY DEF WriteSegment, RecordInv, RunInv
<1>3. PICK c \in Cuts(live) :
        /\ c <= run.end
        /\ segFiles' = [name \in DOMAIN segFiles \cup {new} |-> IF name = new THEN SubSeq(live, 1, c) ELSE segFiles[name]]
        /\ run' = [run EXCEPT !.step = "copy", !.cut = c]
  BY <1>2 DEF WriteSegment
<1>4. /\ Len(segs) \in Nat /\ Len(live) \in Nat /\ path \in 1 .. path /\ path = Len(files)
      /\ \A i \in 1 .. Len(live) : live[i] \in Int
  BY PartTypes DEF RecordInv, FilesInv
<1>5. c \in 1 .. Len(live) - 1 /\ c \in Nat
  BY <1>3, <1>4 DEF Cuts
<1>6. /\ run'.step = "copy" /\ run'.file = run.file /\ run'.base = run.base /\ run'.end = run.end /\ run'.cut = c
      /\ run' \in [step : {"idle", "cut", "copy", "lock", "index", "rename"},
                   file : Nat, base : Nat, cut : Nat, end : Nat, copy : Seq(Int)]
  BY <1>3, <1>5 DEF RecordInv, TypeInv
<1>7. /\ new \in DOMAIN segFiles' /\ \A i \in 1 .. c : segFiles'[new][i] = live[i]
      /\ \A j \in 1 .. Len(segs) : j \in DOMAIN segFiles => j \in DOMAIN segFiles' /\ segFiles'[j] = segFiles[j]
  <2>1. segFiles'[new] = SubSeq(live, 1, c) /\ new \in DOMAIN segFiles'
    BY <1>3
  <2>2. \A i \in 1 .. c : i \in 1 .. Len(live)
    BY <1>4, <1>5
  <2>3. \A i \in 1 .. c - 1 + 1 : SubSeq(live, 1, c)[i] = live[1 + i - 1]
    BY <1>4, <1>5, <2>2, SubSeqProperties
  <2>4. \A i \in 1 .. c : SubSeq(live, 1, c)[i] = live[i]
    BY <1>4, <1>5, <2>3
  <2>5. \A j \in 1 .. Len(segs) : j # new
    BY <1>4
  <2> QED
    BY <1>3, <2>1, <2>4, <2>5
<1>8. TypeInv'
  BY <1>1, <1>6 DEF RecordInv, TypeInv
<1>9. FilesInv' /\ GenerationsInv'
  BY <1>1 DEF RecordInv, FilesInv, GenerationsInv, Base
<1>10. SegmentsInv'
  BY <1>1, <1>7 DEF RecordInv, SegmentsInv, Base
<1>11. RunInv'
  BY <1>1, <1>2, <1>3, <1>5, <1>6, <1>7 DEF RunInv, Base
<1>12. LocksInv'
  BY <1>1, <1>6 DEF RecordInv, LocksInv
<1>13. TailInv'
  BY <1>1, SameTail
<1> QED
  BY <1>8, <1>9, <1>10, <1>11, <1>12, <1>13 DEF RecordInv

(* Steps of the run that change the run alone. *)
LEMMA OnlyRun ==
  ASSUME RecordInv,
         run' \in [step : {"idle", "cut", "copy", "lock", "index", "rename"},
                   file : Nat, base : Nat, cut : Nat, end : Nat, copy : Seq(Int)],
         UNCHANGED <<files, path, index, segFiles, written, shared, writer, tail, cursor>>
  PROVE  TypeInv' /\ FilesInv' /\ GenerationsInv' /\ SegmentsInv' /\ TailInv'
<1>1. TypeInv'
  BY DEF RecordInv, TypeInv
<1> QED
  BY <1>1, SameRecord, SameTail

LEMMA CopyTailInv ==
  ASSUME RecordInv, CopyTail
  PROVE  RecordInv'
<1> DEFINE live == files[path]
           rest == SubSeq(live, run.cut + 1, run.end)
<1>1. UNCHANGED <<files, path, index, segFiles, written, shared, exclusive, writer, tail, cursor>>
  BY DEF CopyTail, disk, locks, reader
<1>2. /\ run.step = "copy" /\ run.file = path /\ run.end <= Len(live)
      /\ run.cut \in 1 .. Len(live) - 1 /\ run.cut <= run.end
  BY DEF CopyTail, RecordInv, RunInv
<1>3. /\ Len(live) \in Nat /\ path \in 1 .. path /\ path = Len(files)
      /\ \A i \in 1 .. Len(live) : live[i] \in Int
  BY PartTypes DEF RecordInv, FilesInv
<1>4. run.end \in Nat /\ run.cut \in Nat
  BY DEF RecordInv, TypeInv
<1>5. /\ rest \in Seq(Int) /\ Len(rest) = run.end - run.cut
      /\ \A i \in 1 .. run.end - run.cut : rest[i] = live[run.cut + i]
  <2>1. \A i \in run.cut + 1 .. run.end : live[i] \in Int
    BY <1>2, <1>3, <1>4
  <2>2. run.cut + 1 \in Int /\ run.end \in Int
    BY <1>4
  <2>3. /\ rest \in Seq(Int)
        /\ Len(rest) = IF run.cut + 1 <= run.end THEN run.end - (run.cut + 1) + 1 ELSE 0
        /\ \A i \in 1 .. run.end - (run.cut + 1) + 1 : rest[i] = live[(run.cut + 1) + i - 1]
    BY <2>1, <2>2, SubSeqProperties
  <2>4. run.cut <= run.end
    BY <1>2
  <2> QED
    BY <1>4, <2>3, <2>4
<1>6. /\ run' = [run EXCEPT !.step = "lock", !.copy = rest]
      /\ run' \in [step : {"idle", "cut", "copy", "lock", "index", "rename"},
                   file : Nat, base : Nat, cut : Nat, end : Nat, copy : Seq(Int)]
      /\ run'.step = "lock" /\ run'.copy = rest
      /\ UNCHANGED <<run.file, run.base, run.cut, run.end>>
  BY <1>2, <1>5 DEF CopyTail, RecordInv, TypeInv
<1>7. RunInv'
  BY <1>1, <1>2, <1>5, <1>6 DEF RecordInv, RunInv, CopiedTo, Base
<1>8. LocksInv'
  BY <1>1, <1>6 DEF RecordInv, LocksInv
<1> QED
  BY <1>1, <1>6, <1>7, <1>8, OnlyRun DEF RecordInv

LEMMA LockExclusiveInv ==
  ASSUME RecordInv, LockExclusive
  PROVE  RecordInv'
<1> DEFINE live == files[path]
           rest == SubSeq(live, run.end + 1, Len(live))
<1>1. UNCHANGED <<files, path, index, segFiles, written, shared, writer, tail, cursor>>
  BY DEF LockExclusive, disk, reader
<1>2. /\ run.step = "lock" /\ run.file = path /\ run.end <= Len(live) /\ shared # path
      /\ run.cut \in 1 .. Len(live) - 1 /\ run.cut <= run.end /\ CopiedTo(run.end)
  BY DEF LockExclusive, RecordInv, RunInv
<1>3. CASE run' = NoRun /\ UNCHANGED exclusive
  <2>1. <<>> \in Seq(Int)
    BY EmptySeq
  <2> QED
    BY <1>1, <1>3, <2>1, OnlyRun, RunEnded DEF RecordInv, NoRun
<1>4. CASE exclusive' = path /\ run' = [run EXCEPT !.step = "index", !.copy = @ \o rest]
  <2>1. /\ Len(live) \in Nat /\ path \in 1 .. path /\ path = Len(files)
        /\ \A i \in 1 .. Len(live) : live[i] \in Int
    BY PartTypes DEF RecordInv, FilesInv
  <2>2. run.end \in Nat /\ run.cut \in Nat /\ run.copy \in Seq(Int)
    BY DEF RecordInv, TypeInv
  <2>3. /\ rest \in Seq(Int) /\ Len(rest) = Len(live) - run.end
        /\ \A i \in 1 .. Len(live) - run.end : rest[i] = live[run.end + i]
    <3>1. \A i \in run.end + 1 .. Len(live) : live[i] \in Int
      BY <2>1, <2>2
    <3>2. run.end + 1 \in Int /\ Len(live) \in Int
      BY <2>1, <2>2
    <3>3. /\ rest \in Seq(Int)
          /\ Len(rest) = IF run.end + 1 <= Len(live) THEN Len(live) - (run.end + 1) + 1 ELSE 0
          /\ \A i \in 1 .. Len(live) - (run.end + 1) + 1 : rest[i] = live[(run.end + 1) + i - 1]
      BY <3>1, <3>2, SubSeqProperties
    <3> QED
      BY SMTT(30), <1>2, <2>1, <2>2, <3>3
  <2>4. /\ run.copy \o rest \in Seq(Int) /\ Len(run.copy \o rest) = Len(run.copy) + Len(rest)
        /\ \A i \in 1 .. Len(run.copy) + Len(rest) :
             (run.copy \o rest)[i] = IF i <= Len(run.copy) THEN run.copy[i] ELSE rest[i - Len(run.copy)]
    BY <2>2, <2>3, ConcatProperties
  <2>5. Len(run.copy) = run.end - run.cut /\ Len(run.copy) + Len(rest) = Len(live) - run.cut
    BY SMTT(30), <1>2, <2>1, <2>2, <2>3 DEF CopiedTo
  <2>6. \A i \in 1 .. Len(live) - run.cut : (run.copy \o rest)[i] = live[run.cut + i]
    <3> TAKE i \in 1 .. Len(live) - run.cut
    <3>1. CASE i <= run.end - run.cut
      <4>1. i \in 1 .. run.end - run.cut /\ run.copy[i] = live[run.cut + i]
        BY <1>2, <2>2, <3>1 DEF CopiedTo
      <4> QED
        BY <2>4, <2>5, <3>1, <4>1
    <3>2. CASE ~(i <= run.end - run.cut)
      <4> DEFINE j == i - (run.end - run.cut)
      <4>1. j \in 1 .. Len(live) - run.end /\ run.end + j = run.cut + i
        BY <1>2, <2>1, <2>2, <3>2
      <4>2. (run.copy \o rest)[i] = rest[j]
        BY <2>4, <2>5, <3>2
      <4> QED
        BY <2>3, <4>1, <4>2
    <3> QED
      BY <3>1, <3>2
  <2>7. /\ run' \in [step : {"idle", "cut", "copy", "lock", "index", "rename"},
                     file : Nat, base : Nat, cut : Nat, end : Nat, copy : Seq(Int)]
        /\ run'.step = "index" /\ run'.copy = run.copy \o rest
        /\ UNCHANGED <<run.file, run.base, run.cut, run.end>>
    BY <1>4, <2>4 DEF RecordInv, TypeInv
  <2>8. Len(run'.copy) = Len(live) - run.cut /\ \A i \in 1 .. Len(live) - run.cut : run'.copy[i] = live[run.cut + i]
    BY <2>4, <2>5, <2>6, <2>7
  <2>9. RunInv'
    <3>1. /\ \A j \in 1 .. Len(index.segs) : index.segs[j].to <= run.base
          /\ \A g \in 1 .. Len(index.gens) : index.gens[g].base <= run.base
          /\ run.base = Base(path) /\ Len(index.segs) + 1 \in DOMAIN segFiles
          /\ \A i \in 1 .. run.cut : segFiles[Len(index.segs) + 1][i] = live[i]
      BY <1>2 DEF RecordInv, RunInv
    <3>2. CopiedTo(Len(live))'
      BY <1>1, <2>7, <2>8 DEF CopiedTo
    <3>3. UNCHANGED <<files[path], index.segs, index.gens, segFiles, Base(path)>>
      BY <1>1 DEF Base
    <3>4. run'.step = "index"
      BY <2>7
    <3> QED
      <4>1. run'.file = path' /\ run'.base = Base(path)' /\ run'.end <= Len(files[path])'
        BY <1>1, <1>2, <2>7, <3>1, <3>3
      <4>2. run'.cut \in 1 .. Len(files[path])' - 1 /\ run'.cut <= run'.end
        BY <1>2, <2>7, <3>3
      <4>3. /\ \A j \in 1 .. Len(index.segs)' : index.segs'[j].to <= run'.base
            /\ \A g \in 1 .. Len(index.gens)' : index.gens'[g].base <= run'.base
        BY <2>7, <3>1, <3>3
      <4>4. /\ (Len(index.segs) + 1 \in DOMAIN segFiles)'
            /\ \A i \in 1 .. run'.cut : (segFiles[Len(index.segs) + 1][i])' = (files[path])'[i]
        BY <2>7, <3>1, <3>3
      <4> QED
        BY <3>2, <3>4, <4>1, <4>2, <4>3, <4>4 DEF RunInv
  <2>10. LocksInv'
    BY <1>1, <1>2, <1>4, <2>7 DEF RecordInv, LocksInv
  <2> QED
    BY <1>1, <2>7, <2>9, <2>10, OnlyRun DEF RecordInv
<1> QED
  BY <1>2, <1>3, <1>4 DEF LockExclusive

(* The index as it is saved: one segment and one generation more, and the  *)
(* generation of the live file itself the first time.                      *)
LEMMA IndexGrows ==
  ASSUME RecordInv, SaveIndex
  PROVE  LET n == Len(index.segs) + 1
             cut == run.base + run.cut
         IN
         /\ index' \in [segs : Seq(Segment), gens : Seq(Generation)]
         /\ Len(index'.segs) = n
         /\ \A j \in 1 .. Len(index.segs) : index'.segs[j] = index.segs[j]
         /\ index'.segs[n] = [name |-> n, from |-> run.base, to |-> cut]
         /\ \E m \in Nat :
              /\ Len(index'.gens) = m + 1
              /\ \A g \in 1 .. m :
                   \/ Len(index.gens) = m /\ index'.gens[g] = index.gens[g]
                   \/ Len(index.gens) = 0 /\ m = 1 /\ run.base = 0 /\ index'.gens[g] = [base |-> 0, head |-> written[1]]
              /\ \A g \in 1 .. Len(index.gens) : g \in 1 .. m /\ index'.gens[g] = index.gens[g]
              /\ index'.gens[m + 1] = [base |-> cut, head |-> written[cut + 1]]
<1> DEFINE segs == index.segs
           gens == index.gens
           live == files[path]
           n == Len(segs) + 1
           cut == run.base + run.cut
           seg == [name |-> n, from |-> run.base, to |-> cut]
           own == [base |-> 0, head |-> FirstLine(files[run.file])]
           first == IF gens = <<>> THEN <<own>> ELSE gens
           gen == [base |-> cut, head |-> FirstLine(run.copy)]
<1>1. /\ run.step = "index" /\ run.file = path /\ run.base = Base(path)
      /\ run.cut \in 1 .. Len(live) - 1 /\ CopiedTo(Len(live))
  BY DEF SaveIndex, RecordInv, RunInv
<1>2. index' = [segs |-> Append(segs, seg), gens |-> Append(first, gen)]
  BY DEF SaveIndex
<1>3. /\ Len(live) \in Nat /\ path \in 1 .. path /\ path = Len(files) /\ Len(written) \in Nat
      /\ \A i \in 1 .. Len(written) : written[i] \in Int
  BY PartTypes DEF RecordInv, FilesInv
<1>4. run.base \in Nat /\ run.cut \in Nat /\ run.copy \in Seq(Int)
  BY DEF RecordInv, TypeInv
<1>5. Base(path) + Len(live) = Len(written)
  BY DEF RecordInv, FilesInv
<1>6. segs \in Seq(Segment) /\ Len(segs) \in Nat /\ gens \in Seq(Generation) /\ Len(gens) \in Nat
  BY PartTypes DEF RecordInv
<1>7. FirstLine(run.copy) = written[cut + 1] /\ cut + 1 \in 1 .. Len(written)
  <2>1. Len(run.copy) = Len(live) - run.cut /\ 1 \in 1 .. Len(live) - run.cut
    BY <1>1, <1>3, <1>4 DEF CopiedTo
  <2>2. run.copy # <<>>
    BY <1>3, <1>4, <2>1, EmptySeq
  <2>3. run.copy[1] = live[run.cut + 1]
    BY <1>1, <2>1 DEF CopiedTo
  <2>4. run.cut + 1 \in 1 .. Len(live)
    BY <1>1, <1>3, <1>4
  <2>5. live[run.cut + 1] = written[Base(path) + (run.cut + 1)]
    BY <1>3, <2>4 DEF RecordInv, FilesInv
  <2>6. run.base + Len(live) = Len(written) /\ Len(live) \in Nat /\ Len(written) \in Nat
    BY <1>1, <1>3, <1>5
  <2>7. run.base + (run.cut + 1) = cut + 1 /\ cut + 1 \in 1 .. Len(written)
    <3>1. run.base \in Nat /\ run.cut \in Nat
      BY <1>4
    <3>2. run.cut + 1 <= Len(live)
      BY <2>4, <2>6, <3>1
    <3> HIDE DEF live
    <3> QED
      BY SMTT(30), <2>6, <3>1, <3>2
  <2> QED
    BY <1>1, <2>2, <2>3, <2>5, <2>7 DEF FirstLine
<1>8. /\ seg \in Segment
      /\ Append(segs, seg) \in Seq(Segment) /\ Len(Append(segs, seg)) = n
      /\ \A j \in 1 .. Len(segs) : Append(segs, seg)[j] = segs[j]
      /\ Append(segs, seg)[n] = seg
  <2>1. seg \in Segment
    BY <1>4, <1>6 DEF Segment
  <2> QED
    BY <1>6, <2>1, AppendProperties
<1>9. gen = [base |-> cut, head |-> written[cut + 1]] /\ gen \in Generation
  BY <1>3, <1>4, <1>7 DEF Generation
<1>10. first \in Seq(Generation) =>
         /\ Append(first, gen) \in Seq(Generation) /\ Len(Append(first, gen)) = Len(first) + 1
         /\ \A g \in 1 .. Len(first) : Append(first, gen)[g] = first[g]
         /\ Append(first, gen)[Len(first) + 1] = gen
  BY <1>9, AppendProperties
<1>11. CASE gens = <<>>
  <2>1. Len(gens) = 0
    BY <1>11, EmptySeq
  <2>2. run.base = 0
    <3>1. \A g \in 1 .. Len(gens) : FALSE
      BY <2>1
    <3> QED
      BY <1>1, <1>3, <3>1 DEF RecordInv, GenerationsInv
  <2>3. FirstLine(live) = written[1] /\ 1 \in 1 .. Len(written)
    <3>1. live # <<>>
      BY <1>1, <1>3, EmptySeq
    <3> QED
      BY <1>1, <1>3, <2>2, <3>1, FirstOfFile DEF RecordInv, FirstLine
  <2>4. own = [base |-> 0, head |-> written[1]] /\ own \in Generation
    BY <1>1, <1>3, <2>3 DEF Generation
  <2>5. first = <<own>> /\ first \in Seq(Generation) /\ Len(first) = 1 /\ first[1] = own
    BY <1>11, <2>4
  <2>6. /\ index'.gens \in Seq(Generation) /\ Len(index'.gens) = 1 + 1
        /\ index'.gens[1] = [base |-> 0, head |-> written[1]]
        /\ index'.gens[1 + 1] = [base |-> cut, head |-> written[cut + 1]]
    BY <1>2, <1>9, <1>10, <2>4, <2>5
  <2>7. \A g \in 1 .. 1 : g = 1
    OBVIOUS
  <2>8. \A g \in 1 .. Len(gens) : FALSE
    BY <2>1
  <2>9. \E m \in Nat :
          /\ Len(index'.gens) = m + 1
          /\ \A g \in 1 .. m :
               \/ Len(gens) = m /\ index'.gens[g] = gens[g]
               \/ Len(gens) = 0 /\ m = 1 /\ run.base = 0 /\ index'.gens[g] = [base |-> 0, head |-> written[1]]
          /\ \A g \in 1 .. Len(gens) : g \in 1 .. m /\ index'.gens[g] = gens[g]
          /\ index'.gens[m + 1] = [base |-> cut, head |-> written[cut + 1]]
    <3> WITNESS 1 \in Nat
    <3> QED
      BY <2>1, <2>2, <2>6, <2>7, <2>8
  <2> QED
    BY <1>2, <1>8, <2>6, <2>9
<1>12. CASE gens # <<>>
  <2>1. first = gens
    BY <1>12
  <2>2. /\ index'.gens \in Seq(Generation) /\ Len(index'.gens) = Len(gens) + 1
        /\ \A g \in 1 .. Len(gens) : index'.gens[g] = gens[g]
        /\ index'.gens[Len(gens) + 1] = [base |-> cut, head |-> written[cut + 1]]
    BY <1>2, <1>6, <1>9, <1>10, <2>1
  <2>3. \E m \in Nat :
          /\ Len(index'.gens) = m + 1
          /\ \A g \in 1 .. m :
               \/ Len(gens) = m /\ index'.gens[g] = gens[g]
               \/ Len(gens) = 0 /\ m = 1 /\ run.base = 0 /\ index'.gens[g] = [base |-> 0, head |-> written[1]]
          /\ \A g \in 1 .. Len(gens) : g \in 1 .. m /\ index'.gens[g] = gens[g]
          /\ index'.gens[m + 1] = [base |-> cut, head |-> written[cut + 1]]
    <3>1. Len(gens) \in Nat
      BY <1>6
    <3> WITNESS Len(gens) \in Nat
    <3> QED
      BY <2>2
  <2> QED
    BY <1>2, <1>8, <2>2, <2>3
<1> QED
  BY <1>11, <1>12

LEMMA SaveIndexInv ==
  ASSUME RecordInv, SaveIndex
  PROVE  RecordInv'
<1> DEFINE segs == index.segs
           gens == index.gens
           live == files[path]
           n == Len(segs) + 1
           cut == run.base + run.cut
<1>1. UNCHANGED <<files, path, written, segFiles, shared, exclusive, writer, tail, cursor>>
  BY DEF SaveIndex, locks, reader
<1>2. /\ run.step = "index" /\ run.file = path /\ run.base = Base(path) /\ run.end <= Len(live)
      /\ run.cut \in 1 .. Len(live) - 1 /\ run.cut <= run.end /\ CopiedTo(Len(live))
  BY DEF SaveIndex, RecordInv, RunInv
<1>3. /\ \A j \in 1 .. Len(segs) : segs[j].to <= run.base
      /\ \A g \in 1 .. Len(gens) : gens[g].base <= run.base
      /\ n \in DOMAIN segFiles /\ \A i \in 1 .. run.cut : segFiles[n][i] = live[i]
  BY <1>2 DEF RecordInv, RunInv
<1>4. /\ run' = [run EXCEPT !.step = "rename"]
      /\ run' \in [step : {"idle", "cut", "copy", "lock", "index", "rename"},
                   file : Nat, base : Nat, cut : Nat, end : Nat, copy : Seq(Int)]
      /\ run'.step = "rename" /\ UNCHANGED <<run.copy, run.file, run.base, run.cut, run.end>>
  BY DEF SaveIndex, RecordInv, TypeInv
<1>5. /\ Len(live) \in Nat /\ path \in 1 .. path /\ path = Len(files) /\ Len(written) \in Nat
      /\ Len(segs) \in Nat /\ Len(gens) \in Nat
  BY PartTypes DEF RecordInv, FilesInv
<1>6. run.base \in Nat /\ run.cut \in Nat
  BY DEF RecordInv, TypeInv
<1>7. Base(path) + Len(live) = Len(written)
  BY DEF RecordInv, FilesInv
<1>8. run.base < cut /\ cut < Len(written)
  BY <1>2, <1>5, <1>6, <1>7
<1>9. /\ index' \in [segs : Seq(Segment), gens : Seq(Generation)]
      /\ Len(index'.segs) = n
      /\ \A j \in 1 .. Len(segs) : index'.segs[j] = segs[j]
      /\ index'.segs[n] = [name |-> n, from |-> run.base, to |-> cut]
  BY IndexGrows
<1>10. PICK m \in Nat :
         /\ Len(index'.gens) = m + 1
         /\ \A g \in 1 .. m :
              \/ Len(gens) = m /\ index'.gens[g] = gens[g]
              \/ Len(gens) = 0 /\ m = 1 /\ run.base = 0 /\ index'.gens[g] = [base |-> 0, head |-> written[1]]
         /\ \A g \in 1 .. Len(gens) : g \in 1 .. m /\ index'.gens[g] = gens[g]
         /\ index'.gens[m + 1] = [base |-> cut, head |-> written[cut + 1]]
  BY IndexGrows
<1>11. \A j \in 1 .. n : j \in 1 .. Len(segs) \/ j = n
  BY <1>5
<1>12. \A g \in 1 .. m + 1 : g \in 1 .. m \/ g = m + 1
  BY <1>10
<1>13. TypeInv'
  BY <1>1, <1>4, <1>9 DEF RecordInv, TypeInv
<1>14. FilesInv'
  BY <1>1 DEF RecordInv, FilesInv, Base
<1>15. GenerationsInv'
  <2>1. \A g \in 1 .. m :
          /\ index'.gens[g].base <= run.base /\ index'.gens[g].base \in Nat
          /\ index'.gens[g].head = written[index'.gens[g].base + 1]
    <3> TAKE g \in 1 .. m
    <3>1. CASE Len(gens) = m /\ index'.gens[g] = gens[g]
      BY <1>3, <3>1, PartTypes DEF RecordInv, GenerationsInv
    <3>2. CASE run.base = 0 /\ index'.gens[g] = [base |-> 0, head |-> written[1]]
      BY <3>2
    <3> QED
      BY <1>10, <3>1, <3>2
  <2>2. \A g \in 1 .. m + 1 :
          index'.gens[g].base < Len(written) /\ index'.gens[g].head = written[index'.gens[g].base + 1]
    <3> TAKE g \in 1 .. m + 1
    <3>1. CASE g \in 1 .. m
      BY SMTT(30), <1>5, <1>6, <1>8, <2>1, <3>1
    <3>2. CASE g = m + 1
      BY <1>8, <1>10, <3>2
    <3> QED
      BY <1>12, <3>1, <3>2
  <2>3. \A g, h \in 1 .. m + 1 : g < h => index'.gens[g].base < index'.gens[h].base
    <3> TAKE g, h \in 1 .. m + 1
    <3> HAVE g < h
    <3>1. g \in 1 .. m
      BY <1>10
    <3>2. CASE h = m + 1
      BY <1>6, <1>8, <1>10, <2>1, <3>1, <3>2
    <3>3. CASE h \in 1 .. m
      <4>1. Len(gens) = m /\ index'.gens[g] = gens[g] /\ index'.gens[h] = gens[h]
        BY <1>10, <3>1, <3>3
      <4> QED
        BY <3>1, <3>3, <4>1 DEF RecordInv, GenerationsInv
    <3> QED
      BY <1>12, <3>2, <3>3
  <2>4. \A k \in 1 .. path : Base(k) = 0 \/ \E g \in 1 .. m + 1 : index'.gens[g].base = Base(k)
    <3> TAKE k \in 1 .. path
    <3>1. CASE \E g \in 1 .. Len(gens) : gens[g].base = Base(k)
      BY <1>10, <3>1
    <3> QED
      BY <3>1 DEF RecordInv, GenerationsInv
  <2> QED
    BY <1>1, <1>10, <2>2, <2>3, <2>4 DEF GenerationsInv, Base
<1>16. SegmentsInv'
  <2>1. \A i \in 1 .. run.cut : segFiles[n][i] = written[run.base + i]
    <3> TAKE i \in 1 .. run.cut
    <3>1. i \in 1 .. Len(live)
      BY <1>2, <1>5, <1>6
    <3>2. live[i] = written[Base(path) + i]
      BY <1>5, <3>1 DEF RecordInv, FilesInv
    <3> QED
      BY <1>2, <1>3, <3>2
  <2>2. \A j \in 1 .. n :
          /\ index'.segs[j].name = j /\ index'.segs[j].from < index'.segs[j].to /\ index'.segs[j].to <= Len(written)
          /\ j \in DOMAIN segFiles
          /\ \A i \in 1 .. index'.segs[j].to - index'.segs[j].from : segFiles[j][i] = written[index'.segs[j].from + i]
    <3> TAKE j \in 1 .. n
    <3>1. CASE j \in 1 .. Len(segs)
      BY <1>9, <3>1 DEF RecordInv, SegmentsInv
    <3>2. CASE j = n
      <4>1. cut - run.base = run.cut /\ cut <= Len(written)
        BY <1>5, <1>6, <1>8
      <4>2. index'.segs[j].name = j /\ index'.segs[j].from = run.base /\ index'.segs[j].to = cut
        BY <1>9, <3>2
      <4> QED
        BY <1>3, <1>8, <2>1, <3>2, <4>1, <4>2
    <3> QED
      BY <1>11, <3>1, <3>2
  <2>3. \A i, j \in 1 .. n : i < j => index'.segs[i].to <= index'.segs[j].from
    <3> TAKE i, j \in 1 .. n
    <3> HAVE i < j
    <3>1. i \in 1 .. Len(segs)
      BY <1>5
    <3>2. CASE j = n
      BY <1>3, <1>9, <3>1, <3>2
    <3>3. CASE j \in 1 .. Len(segs)
      BY <1>9, <3>1, <3>3 DEF RecordInv, SegmentsInv
    <3> QED
      BY <1>11, <3>2, <3>3
  <2>4. \A k \in 1 .. Base(path) :
          \E j \in 1 .. n : index'.segs[j].from < k /\ k <= index'.segs[j].to /\ index'.segs[j].to <= Base(path)
    <3> TAKE k \in 1 .. Base(path)
    <3>1. PICK j \in 1 .. Len(segs) : segs[j].from < k /\ k <= segs[j].to /\ segs[j].to <= Base(path)
      BY DEF RecordInv, SegmentsInv
    <3>2. j \in 1 .. n /\ index'.segs[j] = segs[j]
      BY <1>5, <1>9, <3>1
    <3> QED
      BY <3>1, <3>2
  <2> QED
    BY <1>1, <1>9, <2>2, <2>3, <2>4 DEF SegmentsInv, Base
<1>17. RunInv'
  <2>1. n \in 1 .. n /\ m + 1 \in 1 .. m + 1
    BY <1>5, <1>10
  <2>2. \E j \in 1 .. Len(index'.segs) : index'.segs[j].from = run.base /\ index'.segs[j].to = run.base + run.cut
    BY <1>9, <2>1
  <2>3. \E g \in 1 .. Len(index'.gens) : index'.gens[g].base = run.base + run.cut
    BY <1>10, <2>1
  <2> QED
    BY <1>1, <1>2, <1>4, <2>2, <2>3 DEF RunInv, CopiedTo, Base
<1>18. LocksInv'
  BY <1>1, <1>2, <1>4 DEF RecordInv, LocksInv
<1>19. TailInv'
  <2>1. \A j \in 1 .. Len(segs) : j \in 1 .. Len(index'.segs) /\ index'.segs[j] = segs[j]
    BY <1>5, <1>9
  <2>2. tail.step = "indexed" =>
          \A sg \in Range(tail.segs) :
            sg.from < tail.base => sg.to <= Base(path) /\ \E j \in 1 .. Len(index'.segs) : sg = index'.segs[j]
    BY <2>1 DEF RecordInv, TailInv
  <2> QED
    BY <1>1, <2>2 DEF RecordInv, TailInv, Base
<1> QED
  BY <1>13, <1>14, <1>15, <1>16, <1>17, <1>18, <1>19 DEF RecordInv

(* The copy takes the path: it is the rest of the record from the cut, and *)
(* the new segment and the old ones are what is below.                     *)
LEMMA RenameInv ==
  ASSUME RecordInv, Rename
  PROVE  RecordInv'
<1> DEFINE live == files[path]
           cut == run.base + run.cut
           new == path + 1
<1>1. /\ UNCHANGED <<index, segFiles, written, shared, writer, tail, cursor>>
      /\ files' = Append(files, run.copy) /\ path' = Len(files) + 1 /\ exclusive' = 0 /\ run' = NoRun
  BY DEF Rename, reader
<1>2. /\ run.base = Base(path) /\ run.cut \in 1 .. Len(live) - 1 /\ CopiedTo(Len(live))
      /\ \E j \in 1 .. Len(index.segs) : index.segs[j].from = run.base /\ index.segs[j].to = cut
      /\ \E g \in 1 .. Len(index.gens) : index.gens[g].base = cut
  BY DEF Rename, RecordInv, RunInv
<1>3. Len(live) \in Nat /\ path \in 1 .. path /\ path = Len(files) /\ path \in Nat /\ Len(written) \in Nat
  BY PartTypes DEF RecordInv, FilesInv, TypeInv
<1>4. run.base \in Nat /\ run.cut \in Nat /\ run.copy \in Seq(Int)
  BY DEF RecordInv, TypeInv
<1>5. Base(path) + Len(live) = Len(written)
  BY DEF RecordInv, FilesInv
<1>6. /\ Len(run.copy) = Len(live) - run.cut /\ 1 \in 1 .. Len(live) - run.cut
      /\ cut + Len(run.copy) = Len(written) /\ run.base < cut /\ cut \in Nat
  <2>1. Len(run.copy) = Len(live) - run.cut
    BY <1>2 DEF CopiedTo
  <2>2. run.base \in Nat /\ run.cut \in Nat /\ run.base + Len(live) = Len(written) /\ run.cut \in 1 .. Len(live) - 1
    BY <1>2, <1>4, <1>5
  <2>3. Len(live) \in Nat /\ Len(written) \in Nat
    BY <1>3
  <2> HIDE DEF live
  <2> QED
    BY <2>1, <2>2, <2>3
<1>7. /\ files' \in Seq(Seq(Int)) /\ Len(files') = new /\ files'[new] = run.copy
      /\ \A k \in 1 .. path : files'[k] = files[k]
  <2>1. files \in Seq(Seq(Int))
    BY DEF RecordInv, TypeInv
  <2> QED
    BY <1>1, <1>3, <1>4, <2>1, AppendProperties
<1>8. \A i \in 1 .. Len(run.copy) : run.copy[i] = written[cut + i]
  <2> TAKE i \in 1 .. Len(run.copy)
  <2>1. run.copy[i] = live[run.cut + i]
    BY <1>2, <1>6 DEF CopiedTo
  <2>2. run.cut + i \in 1 .. Len(live)
    <3>1. run.cut \in Nat /\ Len(live) \in Nat /\ i \in 1 .. Len(live) - run.cut
      BY <1>3, <1>4, <1>6
    <3> QED
      BY <3>1
  <2>3. live[run.cut + i] = written[Base(path) + (run.cut + i)]
    BY <1>3, <2>2 DEF RecordInv, FilesInv
  <2>4. run.base + (run.cut + i) = cut + i
    BY <1>4
  <2> QED
    BY <1>2, <2>1, <2>3, <2>4
<1>9. OffsetOf(files'[new]) = cut
  <2>1. run.copy # <<>>
    BY <1>6, <1>3, <1>4, EmptySeq
  <2>2. 1 \in 1 .. Len(run.copy)
    BY <1>6
  <2>3. run.copy[1] = written[cut + 1]
    BY <1>8, <2>2
  <2>4. cut + 1 \in 1 .. Len(written)
    BY <1>3, <1>6, <2>2
  <2>5. Number(run.copy[1]) = cut + 1
    BY <2>3, <2>4 DEF RecordInv, FilesInv
  <2> QED
    BY <1>6, <1>7, <2>1, <2>5 DEF OffsetOf
<1>10. \A k \in 1 .. path : OffsetOf(files'[k]) = Base(k)
  BY <1>7 DEF Base
<1>11. \A k \in 1 .. new : k \in 1 .. path \/ k = new
  BY <1>3
<1>12. path' = new
  BY <1>1, <1>3
<1>13. TypeInv'
  <2>1. <<>> \in Seq(Int)
    BY EmptySeq
  <2>2. run' \in [step : {"idle", "cut", "copy", "lock", "index", "rename"},
                  file : Nat, base : Nat, cut : Nat, end : Nat, copy : Seq(Int)]
    BY <1>1, <2>1 DEF NoRun
  <2>3. path' \in Nat \ {0}
    BY <1>3, <1>12
  <2> QED
    BY <1>1, <1>7, <2>2, <2>3 DEF RecordInv, TypeInv
<1>14. FilesInv'
  <2>1. ASSUME NEW k \in 1 .. new
        PROVE  /\ OffsetOf(files'[k]) \in Nat /\ OffsetOf(files'[k]) + Len(files'[k]) <= Len(written)
               /\ OffsetOf(files'[k]) <= cut
               /\ \A i \in 1 .. Len(files'[k]) : files'[k][i] = written[OffsetOf(files'[k]) + i]
    <3>1. CASE k \in 1 .. path
      <4>1. /\ Base(k) \in Nat /\ Base(k) + Len(files[k]) <= Len(written) /\ Base(k) <= Base(path)
            /\ \A i \in 1 .. Len(files[k]) : files[k][i] = written[Base(k) + i]
        BY <3>1 DEF RecordInv, FilesInv
      <4>2. Base(k) <= cut
        BY <1>2, <1>4, <1>6, <4>1
      <4> QED
        BY <1>7, <1>10, <3>1, <4>1, <4>2
    <3>2. CASE k = new
      <4>1. cut + Len(run.copy) <= Len(written) /\ cut <= cut
        BY <1>3, <1>6
      <4> QED
        BY <1>6, <1>7, <1>8, <1>9, <3>2, <4>1
    <3> QED
      BY <1>11, <3>1, <3>2
  <2>2. \A n \in 1 .. Len(written) : Number(written[n]) = n
    BY DEF RecordInv, FilesInv
  <2> QED
    BY <1>1, <1>6, <1>7, <1>9, <1>12, <2>1, <2>2 DEF FilesInv, Base
<1>15. GenerationsInv'
  <2>1. \A k \in 1 .. new : OffsetOf(files'[k]) = 0 \/ \E g \in 1 .. Len(index.gens) : index.gens[g].base = OffsetOf(files'[k])
    BY <1>2, <1>9, <1>10, <1>11 DEF RecordInv, GenerationsInv
  <2> QED
    BY <1>1, <1>12, <2>1 DEF RecordInv, GenerationsInv, Base
<1>16. SegmentsInv'
  <2>1. ASSUME NEW n \in 1 .. cut
        PROVE  \E j \in 1 .. Len(index.segs) : index.segs[j].from < n /\ n <= index.segs[j].to /\ index.segs[j].to <= cut
    <3>1. CASE n \in 1 .. Base(path)
      <4>1. PICK j \in 1 .. Len(index.segs) :
              index.segs[j].from < n /\ n <= index.segs[j].to /\ index.segs[j].to <= Base(path)
        BY <3>1 DEF RecordInv, SegmentsInv
      <4>2. index.segs[j].to \in Nat
        BY PartTypes DEF RecordInv
      <4>3. index.segs[j].to <= cut
        BY SMTT(30), <1>2, <1>4, <1>6, <4>1, <4>2
      <4> QED
        BY <4>1, <4>3
    <3>2. CASE n \notin 1 .. Base(path)
      <4>1. run.base < n /\ n <= cut /\ cut <= cut
        BY SMTT(30), <1>2, <1>4, <1>6, <3>2
      <4> QED
        BY <1>2, <4>1
    <3> QED
      BY <3>1, <3>2
  <2>2. Base(path)' = cut
    BY <1>9, <1>12 DEF Base
  <2> QED
    BY <1>1, <2>1, <2>2 DEF RecordInv, SegmentsInv
<1>17. RunInv'
  BY <1>1 DEF RunInv, NoRun
<1>18. LocksInv'
  <2>1. path' # 0
    BY <1>3, <1>12
  <2> QED
    BY <1>1, <2>1 DEF RecordInv, LocksInv, NoRun
<1>19. TailInv'
  <2>1. tail.step # "idle" => tail.file \in 1 .. path /\ tail.file \in 1 .. new
    BY <1>3 DEF RecordInv, TailInv
  <2>2. tail.step = "indexed" =>
          \A sg \in Range(tail.segs) :
            sg.from < tail.base => sg.to <= cut /\ \E j \in 1 .. Len(index.segs) : sg = index.segs[j]
    <3> SUFFICES ASSUME tail.step = "indexed", NEW sg \in Range(tail.segs), sg.from < tail.base
                 PROVE  sg.to <= cut /\ \E j \in 1 .. Len(index.segs) : sg = index.segs[j]
      OBVIOUS
    <3>1. sg.to <= Base(path) /\ \E j \in 1 .. Len(index.segs) : sg = index.segs[j]
      BY DEF RecordInv, TailInv
    <3>2. sg.to \in Nat
      BY <3>1, PartTypes DEF RecordInv
    <3>3. Base(path) <= cut /\ Base(path) \in Nat /\ cut \in Nat
      BY <1>2, <1>4, <1>6
    <3> QED
      BY <3>1, <3>2, <3>3
  <2>3. Base(path)' = cut
    BY <1>9, <1>12 DEF Base
  <2>4. tail.step # "idle" => Base(tail.file)' = Base(tail.file)
    BY <1>1, <1>10, <2>1 DEF Base
  <2> QED
    BY <1>1, <1>12, <2>1, <2>2, <2>3, <2>4 DEF RecordInv, TailInv
<1> QED
  BY <1>13, <1>14, <1>15, <1>16, <1>17, <1>18, <1>19 DEF RecordInv

(* The run ends with nothing moved, or dies. *)
LEMMA RunEndsInv ==
  ASSUME RecordInv, NothingToMove \/ RunDies
  PROVE  RecordInv'
<1>1. /\ UNCHANGED <<files, path, index, segFiles, written, shared, writer, tail, cursor>>
      /\ run' = NoRun /\ exclusive' \in {exclusive, 0}
  BY DEF NothingToMove, RunDies, disk, locks, reader
<1>2. <<>> \in Seq(Int)
  BY EmptySeq
<1> QED
  BY <1>1, <1>2, OnlyRun, RunEnded DEF RecordInv, NoRun

-----------------------------------------------------------------------------
(* The collector. *)

(* Steps that change its pass and what it has taken, and nothing else. *)
LEMMA OnlyTail ==
  ASSUME RecordInv, TailInv', UNCHANGED <<disk, locks, writer, run, written>>,
         tail' = [step |-> tail'.step, file |-> tail'.file, size |-> tail'.size, base |-> tail'.base,
                  segs |-> tail'.segs, at |-> tail'.at, saved |-> tail'.saved, archived |-> tail'.archived],
         tail'.step \in {"idle", "opened", "indexed", "reading"},
         {tail'.file, tail'.size, tail'.base, tail'.at, tail'.saved, cursor'} \subseteq Nat,
         tail'.segs \in Seq(Segment)
  PROVE  RecordInv'
<1>1. UNCHANGED <<files, path, index, segFiles, written, shared, exclusive, writer, run>>
  BY DEF disk, locks
<1>2. TypeInv'
  BY <1>1 DEF RecordInv, TypeInv
<1>3. LocksInv'
  BY <1>1 DEF RecordInv, LocksInv
<1> QED
  BY <1>1, <1>2, <1>3, SameRecord, SameRun DEF RecordInv

LEMMA NoPassType ==
  /\ NoPass = [step |-> NoPass.step, file |-> NoPass.file, size |-> NoPass.size, base |-> NoPass.base,
               segs |-> NoPass.segs, at |-> NoPass.at, saved |-> NoPass.saved, archived |-> NoPass.archived]
  /\ NoPass.step = "idle" /\ NoPass.segs \in Seq(Segment)
  /\ {NoPass.file, NoPass.size, NoPass.base, NoPass.at, NoPass.saved} \subseteq Nat
<1>1. <<>> \in Seq(Segment)
  BY EmptySeq
<1> QED
  BY <1>1 DEF NoPass

LEMMA OpenLiveInv ==
  ASSUME RecordInv, OpenLive
  PROVE  RecordInv'
<1>1. /\ tail' = [NoPass EXCEPT !.step = "opened", !.file = path, !.size = Len(files[path])]
      /\ UNCHANGED <<disk, locks, writer, run, cursor, written, files, path, index>>
  BY DEF OpenLive, Live, disk
<1>2. path \in 1 .. path /\ path \in Nat /\ Len(files[path]) \in Nat
  BY PartTypes DEF RecordInv, FilesInv, TypeInv
<1>3. /\ tail' = [step |-> "opened", file |-> path, size |-> Len(files[path]), base |-> 0,
                  segs |-> <<>>, at |-> 0, saved |-> 0, archived |-> <<>>]
  BY <1>1 DEF NoPass
<1>4. <<>> \in Seq(Segment)
  BY EmptySeq
<1>5. cursor \in Nat
  BY DEF RecordInv, TypeInv
<1>6. TailInv'
  <2>1. cursor <= Base(path) + Len(files[path])
    BY DEF RecordInv, TailInv, FilesInv
  <2> QED
    BY <1>1, <1>2, <1>3, <2>1 DEF RecordInv, TailInv, Base
<1>7. {tail'.file, tail'.size, tail'.base, tail'.at, tail'.saved, cursor'} \subseteq Nat /\ tail'.segs \in Seq(Segment)
  <2>1. /\ tail'.file = path /\ tail'.size = Len(files[path]) /\ tail'.base = 0 /\ tail'.at = 0 /\ tail'.saved = 0
        /\ tail'.segs = <<>>
    BY <1>3
  <2>2. cursor' = cursor
    BY <1>1
  <2> QED
    BY <1>2, <1>4, <1>5, <2>1, <2>2
<1> QED
  BY <1>1, <1>3, <1>6, <1>7, OnlyTail

LEMMA LoadIndexInv ==
  ASSUME RecordInv, LoadIndex
  PROVE  RecordInv'
<1> DEFINE base == Base(tail.file)
<1>1. /\ tail.step = "opened" /\ tail.file \in 1 .. path /\ cursor <= base + tail.size
      /\ UNCHANGED <<disk, locks, writer, run, cursor, written, files, path, index>>
  BY DEF LoadIndex, RecordInv, TailInv, disk
<1>2. BaseOf(index, FirstLine(files[tail.file])) = base
  BY <1>1, BaseIsKnown DEF RecordInv
<1>3. base \in Nat /\ base <= Base(path) /\ cursor \in Nat /\ tail.size \in Nat
  BY <1>1 DEF RecordInv, FilesInv, TypeInv
<1>4. ~(base + tail.size < cursor)
  BY <1>1, <1>3
<1>5. tail' = [tail EXCEPT !.step = "indexed", !.base = base, !.segs = index.segs, !.at = cursor, !.saved = cursor]
  BY <1>2, <1>4 DEF LoadIndex
<1>6. tail' = [step |-> "indexed", file |-> tail.file, size |-> tail.size, base |-> base,
               segs |-> index.segs, at |-> cursor, saved |-> cursor, archived |-> tail.archived]
  BY <1>5 DEF RecordInv, TypeInv
<1>7. TailInv'
  <2>1. ASSUME NEW sg \in Range(index.segs), sg.from < base
        PROVE  sg.to <= Base(path) /\ \E j \in 1 .. Len(index.segs) : sg = index.segs[j]
    <3>1. PICK j \in 1 .. Len(index.segs) : sg = index.segs[j]
      BY PartTypes DEF RecordInv, Range
    <3>2. sg.from \in Nat /\ Base(path) \in Nat
      BY <3>1, PartTypes DEF RecordInv, FilesInv
    <3>3. sg.from < Base(path)
      BY <1>3, <2>1, <3>2
    <3> QED
      BY <3>1, <3>3, SegmentEndsBelow DEF RecordInv
  <2>2. cursor <= cursor /\ cursor <= Len(written)
    BY <1>3 DEF RecordInv, TailInv
  <2> QED
    BY <1>1, <1>6, <2>1, <2>2 DEF TailInv, Base
<1>8. {tail'.file, tail'.size, tail'.base, tail'.at, tail'.saved, cursor'} \subseteq Nat /\ tail'.segs \in Seq(Segment)
  BY <1>1, <1>3, <1>6, PartTypes DEF RecordInv, TypeInv
<1> QED
  BY <1>1, <1>6, <1>7, <1>8, OnlyTail

(* What it reads from the segments it opens is the record. *)
LEMMA SegmentsHoldTheRecord ==
  ASSUME RecordInv, tail.step = "indexed",
         NEW n \in tail.at + 1 .. tail.base, NEW sg \in SegmentsNeeded, sg.from < n, n <= sg.to
  PROVE  segFiles[sg.name][n - sg.from] = written[n]
<1>1. sg \in Range(tail.segs) /\ sg.from < tail.base
  BY DEF SegmentsNeeded
<1>2. PICK j \in 1 .. Len(index.segs) : sg = index.segs[j]
  BY <1>1 DEF RecordInv, TailInv
<1>3. sg.name = j /\ \A i \in 1 .. sg.to - sg.from : segFiles[j][i] = written[sg.from + i]
  BY <1>2 DEF RecordInv, SegmentsInv
<1>4. sg.from \in Nat /\ sg.to \in Nat /\ tail.at \in Nat /\ tail.base \in Nat
  BY <1>2, PartTypes DEF RecordInv, TypeInv
<1>5. n - sg.from \in 1 .. sg.to - sg.from /\ sg.from + (n - sg.from) = n
  BY SMTT(30), <1>4
<1> QED
  BY <1>3, <1>5

LEMMA OpenSegmentsInv ==
  ASSUME RecordInv, OpenSegments
  PROVE  RecordInv'
<1> DEFINE of(n) == CHOOSE sg \in SegmentsNeeded : sg.from < n /\ n <= sg.to
           there == /\ \A n \in tail.at + 1 .. tail.base : \E sg \in SegmentsNeeded : sg.from < n /\ n <= sg.to
                    /\ \A sg \in SegmentsNeeded : sg.name \in DOMAIN segFiles
           opened == [n \in tail.at + 1 .. tail.base |-> segFiles[of(n).name][n - of(n).from]]
<1>1. /\ tail.step = "indexed" /\ UNCHANGED <<disk, locks, writer, run, cursor, written, files, path, index>>
      /\ tail' = IF there THEN [tail EXCEPT !.step = "reading", !.archived = opened] ELSE NoPass
  BY DEF OpenSegments, disk
<1>2. cursor \in Nat /\ cursor <= Len(written)
  BY DEF RecordInv, TypeInv, TailInv
<1>3. CASE ~there
  <2>1. tail' = NoPass
    BY <1>1, <1>3
  <2>2. TailInv'
    BY <1>1, <1>2, <2>1, PassEnded
  <2> QED
    BY <1>1, <1>2, <2>1, <2>2, NoPassType, OnlyTail
<1>4. CASE there
  <2>1. \A n \in tail.at + 1 .. tail.base : opened[n] = written[n]
    <3> TAKE n \in tail.at + 1 .. tail.base
    <3>1. of(n) \in SegmentsNeeded /\ of(n).from < n /\ n <= of(n).to
      BY <1>4
    <3>2. segFiles[of(n).name][n - of(n).from] = written[n]
      BY <1>1, <3>1, SegmentsHoldTheRecord
    <3> QED
      BY <3>2
  <2> HIDE DEF opened, there
  <2>2. tail' = [step |-> "reading", file |-> tail.file, size |-> tail.size, base |-> tail.base,
                 segs |-> tail.segs, at |-> tail.at, saved |-> tail.saved, archived |-> opened]
    BY <1>1, <1>4 DEF RecordInv, TypeInv
  <2>3. TailInv'
    BY <1>1, <1>2, <2>1, <2>2 DEF RecordInv, TailInv, Base
  <2>4. {tail'.file, tail'.size, tail'.base, tail'.at, tail'.saved, cursor'} \subseteq Nat /\ tail'.segs \in Seq(Segment)
    BY SMTT(30), <1>1, <2>2 DEF RecordInv, TypeInv
  <2> QED
    BY <1>1, <2>2, <2>3, <2>4, OnlyTail
<1> QED
  BY <1>3, <1>4

(* The line a pass comes to is the one written at its offset. *)
LEMMA NextLineIsWritten ==
  ASSUME RecordInv, tail.step = "reading", ~AtEnd
  PROVE  /\ tail.at + 1 \in 1 .. Len(written) /\ NextLine = written[tail.at + 1]
         /\ tail.at \in Nat /\ cursor \in 0 .. tail.at
<1>1. tail.file \in 1 .. path /\ tail.base = Base(tail.file) /\ cursor <= tail.at
  BY DEF RecordInv, TailInv
<1>2. /\ tail.at \in Nat /\ tail.base \in Nat /\ cursor \in Nat /\ Len(written) \in Nat
      /\ Len(files[tail.file]) \in Nat
  BY <1>1, PartTypes DEF RecordInv, TypeInv, FilesInv
<1>3. tail.base + Len(files[tail.file]) <= Len(written) /\ tail.at - tail.base < Len(files[tail.file])
  BY <1>1, <1>2 DEF RecordInv, FilesInv, AtEnd
<1>4. CASE tail.at < tail.base
  <2>1. tail.at + 1 \in tail.at + 1 .. tail.base
    BY <1>2, <1>4
  <2> QED
    BY <1>1, <1>2, <1>3, <1>4, <2>1 DEF RecordInv, TailInv, NextLine
<1>5. CASE ~(tail.at < tail.base)
  <2>1. tail.at - tail.base + 1 \in 1 .. Len(files[tail.file])
    BY <1>2, <1>3, <1>5
  <2>2. files[tail.file][tail.at - tail.base + 1] = written[tail.base + (tail.at - tail.base + 1)]
    BY <1>1, <2>1 DEF RecordInv, FilesInv
  <2>3. tail.base + (tail.at - tail.base + 1) = tail.at + 1
    BY <1>2
  <2> QED
    BY <1>1, <1>2, <1>3, <1>5, <2>2, <2>3 DEF NextLine
<1> QED
  BY <1>4, <1>5

LEMMA TakeLineInv ==
  ASSUME RecordInv, TakeLine
  PROVE  RecordInv'
<1> DEFINE due == (tail.at + 1) - tail.saved >= CursorEvery
<1>1. /\ tail.step = "reading" /\ ~AtEnd
      /\ UNCHANGED <<disk, locks, writer, run, written, files, path, index>>
      /\ tail' = [tail EXCEPT !.at = tail.at + 1, !.saved = IF due THEN tail.at + 1 ELSE tail.saved]
      /\ cursor' = IF due THEN tail.at + 1 ELSE cursor
  <2>1. UNCHANGED <<disk, locks, writer, run, written>>
    BY DEF TakeLine
  <2>2. UNCHANGED <<files, path, index>>
    BY <2>1 DEF disk
  <2>3. tail.at \in Nat /\ tail.saved \in Nat /\ CursorEvery \in Nat
    BY RecordAssumption DEF RecordInv, TypeInv
  <2>4. /\ tail' = [tail EXCEPT !.at = tail.at + 1, !.saved = IF due THEN tail.at + 1 ELSE tail.saved]
        /\ cursor' = IF due THEN tail.at + 1 ELSE cursor
    BY <2>3 DEF TakeLine
  <2> QED
    BY <2>1, <2>2, <2>3, <2>4 DEF TakeLine
<1>2. tail.at + 1 \in 1 .. Len(written) /\ tail.at \in Nat /\ cursor \in 0 .. tail.at
  BY <1>1, NextLineIsWritten
<1>3. /\ tail.file \in 1 .. path /\ tail.base = Base(tail.file) /\ tail.saved = cursor
      /\ \A n \in tail.at + 1 .. tail.base : tail.archived[n] = written[n]
  BY <1>1 DEF RecordInv, TailInv
<1>4. tail' = [step |-> "reading", file |-> tail.file, size |-> tail.size, base |-> tail.base,
               segs |-> tail.segs, at |-> tail.at + 1, saved |-> IF due THEN tail.at + 1 ELSE tail.saved,
               archived |-> tail.archived]
  BY <1>1 DEF RecordInv, TypeInv
<1>5. cursor' \in Nat /\ cursor' <= Len(written) /\ tail'.saved = cursor' /\ cursor' <= tail.at + 1
  <2>1. cursor \in Nat /\ cursor <= Len(written) /\ cursor <= tail.at + 1
    BY <1>2 DEF RecordInv, TailInv
  <2> QED
    BY <1>1, <1>2, <1>3, <1>4, <2>1
<1>6. \A n \in tail.at + 1 + 1 .. tail.base : tail.archived[n] = written[n]
  <2>1. tail.base \in Nat
    BY DEF RecordInv, TypeInv
  <2> QED
    BY <1>2, <1>3, <2>1
<1>7. TailInv'
  BY <1>1, <1>2, <1>3, <1>4, <1>5, <1>6 DEF TailInv, Base
<1>8. {tail'.file, tail'.size, tail'.base, tail'.at, tail'.saved, cursor'} \subseteq Nat /\ tail'.segs \in Seq(Segment)
  BY <1>2, <1>4, <1>5 DEF RecordInv, TypeInv
<1> QED
  BY <1>1, <1>4, <1>7, <1>8, OnlyTail

(* A pass that ends leaves the cursor where the pass has come to, or where *)
(* it was.                                                                 *)
LEMMA PassEndsInv ==
  ASSUME RecordInv, EndOfPass \/ StoreRefuses \/ TailDies
  PROVE  RecordInv'
<1>1. /\ UNCHANGED <<disk, locks, writer, run, written>> /\ tail' = NoPass
      /\ cursor' \in {cursor, tail.at} /\ (cursor' # cursor => tail.step = "reading")
  BY DEF EndOfPass, StoreRefuses, TailDies
<1>2. cursor' \in Nat /\ cursor' <= Len(written)
  <2>1. cursor \in Nat /\ tail.at \in Nat /\ cursor <= Len(written)
    BY DEF RecordInv, TypeInv, TailInv
  <2>2. tail.step = "reading" => tail.at <= Len(written)
    BY DEF RecordInv, TailInv
  <2> QED
    BY <1>1, <2>1, <2>2
<1>3. TailInv'
  BY <1>1, <1>2, PassEnded
<1> QED
  BY <1>1, <1>2, <1>3, NoPassType, OnlyTail

-----------------------------------------------------------------------------
(* The theorems. *)

LEMMA InitRecord == Init => RecordInv
<1> SUFFICES ASSUME Init PROVE RecordInv
  OBVIOUS
<1>1. /\ files = <<<<>>>> /\ path = 1 /\ index = [segs |-> <<>>, gens |-> <<>>]
      /\ writer = [step |-> "open", file |-> 1] /\ run = NoRun /\ tail = NoPass /\ cursor = 0 /\ written = <<>>
  BY DEF Init
<1>2. /\ \A S : <<>> \in Seq(S) /\ Len(<<>>) = 0
      /\ files[1] = <<>> /\ Len(files) = 1 /\ files \in Seq(Seq(Int))
  <2>1. \A S : <<>> \in Seq(S) /\ Len(<<>>) = 0
    BY EmptySeq
  <2> QED
    BY <1>1, <2>1
<1>3. TypeInv
  <2>1. run \in [step : {"idle", "cut", "copy", "lock", "index", "rename"},
                 file : Nat, base : Nat, cut : Nat, end : Nat, copy : Seq(Int)]
    BY <1>1, <1>2 DEF NoRun
  <2>2. index \in [segs : Seq(Segment), gens : Seq(Generation)]
    BY <1>1, <1>2
  <2> QED
    BY <1>1, <1>2, <2>1, <2>2, NoPassType DEF TypeInv
<1>4. Base(1) = 0 /\ \A k \in 1 .. path : k = 1
  BY <1>1, <1>2 DEF Base, OffsetOf
<1>5. Len(written) = 0 /\ Len(files[path]) = 0 /\ Len(index.segs) = 0 /\ Len(index.gens) = 0
  BY <1>1, <1>2
<1>6. FilesInv
  BY <1>1, <1>2, <1>4, <1>5 DEF FilesInv
<1>7. GenerationsInv /\ SegmentsInv
  BY <1>1, <1>4, <1>5 DEF GenerationsInv, SegmentsInv
<1>8. RunInv /\ LocksInv
  BY <1>1 DEF RunInv, LocksInv, NoRun
<1>9. TailInv
  BY <1>1, <1>5 DEF TailInv, NoPass
<1> QED
  BY <1>3, <1>6, <1>7, <1>8, <1>9 DEF RecordInv

LEMMA NextRecord == RecordInv /\ [Next]_recordVars => RecordInv'
<1> SUFFICES ASSUME RecordInv, [Next]_recordVars PROVE RecordInv'
  OBVIOUS
<1>1. CASE Write
  BY <1>1, LockSharedInv, WriteLineInv, ReopenInv DEF Write
<1>2. CASE WriterReturns
  BY <1>2, WriterReturnsInv
<1>3. CASE Archive
  BY <1>3, StartRunInv, WriteSegmentInv, CopyTailInv, LockExclusiveInv, SaveIndexInv, RenameInv, RunEndsInv DEF Archive
<1>4. CASE Ingest
  BY <1>4, OpenLiveInv, LoadIndexInv, OpenSegmentsInv, TakeLineInv, PassEndsInv DEF Ingest
<1>5. CASE Fail
  BY <1>5, ShortWriteInv, WriterDiesInv, RunEndsInv, PassEndsInv DEF Fail
<1>6. CASE UNCHANGED recordVars
  <2>1. UNCHANGED <<files, path, index, segFiles, written, shared, exclusive, writer, run, tail, cursor>>
    BY <1>6 DEF recordVars, disk, locks, reader
  <2>2. TypeInv' /\ LocksInv'
    BY <2>1 DEF RecordInv, TypeInv, LocksInv
  <2> QED
    BY <2>1, <2>2, SameRecord, SameRun, SameTail DEF RecordInv
<1> QED
  BY <1>1, <1>2, <1>3, <1>4, <1>5, <1>6 DEF Next

(* In every state that writes, rotations, passes and deaths of the three   *)
(* processes can reach, files, index, locks, the run's copy and the pass's *)
(* place fit together (appender.go, archive.go, index.go, stream.go).      *)
THEOREM RecordInvariant == Spec => []RecordInv
<1> QED
  BY InitRecord, NextRecord, PTL DEF Spec

(* The invariant says that the record is whole. *)
LEMMA WholeFromInv == RecordInv => RecordIsWhole
<1> SUFFICES ASSUME RecordInv PROVE RecordIsWhole
  OBVIOUS
<1>1. /\ path \in 1 .. path /\ path = Len(files) /\ Len(written) \in Nat /\ DOMAIN written = 1 .. Len(written)
      /\ Len(index.segs) \in Nat /\ DOMAIN index.segs = 1 .. Len(index.segs)
  BY PartTypes DEF RecordInv, FilesInv
<1>2. LiveBase = Base(path) /\ Base(path) \in Nat /\ Base(path) + Len(Live) = Len(written)
  BY <1>1, BaseIsKnown DEF RecordInv, FilesInv, LiveBase, Live
<1>3. ASSUME NEW n \in 1 .. Len(written), n > LiveBase
      PROVE  Live[n - LiveBase] = written[n]
  <2>1. Len(Live) \in Nat
    BY <1>1, PartTypes DEF RecordInv, Live
  <2>2. n - LiveBase \in 1 .. Len(Live) /\ LiveBase + (n - LiveBase) = n
    BY <1>1, <1>2, <1>3, <2>1
  <2> QED
    BY <1>1, <1>2, <2>2 DEF RecordInv, FilesInv, Live
<1>4. ASSUME NEW n \in 1 .. Len(written), ~(n > LiveBase)
      PROVE  \E s \in Range(index.segs) :
               /\ s.from < n /\ n <= s.to /\ s.to <= LiveBase
               /\ s.name \in DOMAIN segFiles /\ segFiles[s.name][n - s.from] = written[n]
  <2>1. n \in 1 .. Base(path)
    BY <1>2, <1>4
  <2>2. PICK j \in 1 .. Len(index.segs) :
          index.segs[j].from < n /\ n <= index.segs[j].to /\ index.segs[j].to <= Base(path)
    BY <2>1 DEF RecordInv, SegmentsInv
  <2> DEFINE s == index.segs[j]
  <2>3. s \in Range(index.segs) /\ s.from \in Nat /\ s.to \in Nat
    BY <1>1, <2>2, PartTypes DEF RecordInv, Range
  <2>4. s.name = j /\ j \in DOMAIN segFiles /\ \A i \in 1 .. s.to - s.from : segFiles[j][i] = written[s.from + i]
    BY <2>2 DEF RecordInv, SegmentsInv
  <2>5. n - s.from \in 1 .. s.to - s.from /\ s.from + (n - s.from) = n
    BY <2>2, <2>3
  <2>6. segFiles[s.name][n - s.from] = written[n]
    BY <2>4, <2>5
  <2> QED
    BY <1>2, <2>2, <2>3, <2>4, <2>6
<1> QED
  BY <1>1, <1>2, <1>3, <1>4 DEF RecordIsWhole

(* At every moment, between two steps of a rotation and after any process  *)
(* has died, the segments below the live file and the live file are every  *)
(* line the file was given, once and at its offset (archive.go, index.go). *)
THEOREM RecordStaysWhole == Spec => []RecordIsWhole
<1> QED
  BY RecordInvariant, WholeFromInv, PTL

-----------------------------------------------------------------------------
(* The record file implements the log: every step is one of the log's, or  *)
(* none of them.                                                           *)

LogPos == IF tail.step = "reading" THEN tail.at ELSE cursor

LEMMA WriteIsGrow ==
  ASSUME RecordInv, WriteLine
  PROVE  Log!Grow
<1>1. /\ Len(written') = Len(written) + 1 /\ written' \in Seq(Int)
      /\ \A n \in 1 .. Len(written) : written'[n] = written[n]
  BY WriteExtends
<1>2. written \in Seq(Int) /\ Len(written) \in Nat
  BY PartTypes DEF RecordInv
<1>3. SubSeq(written', 1, Len(written)) = written
  <2>1. \A n \in 1 .. Len(written) : written'[n] \in Int
    BY <1>1, PartTypes DEF RecordInv
  <2>2. /\ SubSeq(written', 1, Len(written)) \in Seq(Int)
        /\ Len(SubSeq(written', 1, Len(written))) = IF 1 <= Len(written) THEN Len(written) - 1 + 1 ELSE 0
        /\ \A i \in 1 .. Len(written) - 1 + 1 : SubSeq(written', 1, Len(written))[i] = written'[1 + i - 1]
    BY <1>2, <2>1, SubSeqProperties
  <2>3. Len(SubSeq(written', 1, Len(written))) = Len(written)
    BY <1>2, <2>2
  <2>4. \A i \in 1 .. Len(written) : SubSeq(written', 1, Len(written))[i] = written[i]
    BY <1>1, <1>2, <2>2
  <2> QED
    BY <1>2, <2>2, <2>3, <2>4, SeqEqual
<1>4. UNCHANGED <<LogPos, stored>>
  BY DEF WriteLine, reader, LogPos
<1> QED
  BY <1>1, <1>3, <1>4 DEF Log!Grow, LogPos

LEMMA TakeLineIsTake ==
  ASSUME RecordInv, TakeLine
  PROVE  Log!Take
<1>1. /\ tail.step = "reading" /\ ~AtEnd /\ UNCHANGED written
      /\ stored' = stored \cup Rows(NextLine)
  BY DEF TakeLine
<1>2. tail.at + 1 \in 1 .. Len(written) /\ NextLine = written[tail.at + 1] /\ tail.at \in Nat
  BY <1>1, NextLineIsWritten
<1>3. tail'.step = "reading" /\ tail'.at = tail.at + 1
  BY <1>1 DEF TakeLine, RecordInv, TypeInv
<1>4. tail.at < Len(written)
  <2>1. Len(written) \in Nat
    BY PartTypes DEF RecordInv
  <2> QED
    BY <1>2, <2>1
<1>5. Rows(NextLine) = {line \in {written[tail.at + 1]} : line > 0}
  BY <1>2 DEF Rows
<1> QED
  BY <1>1, <1>3, <1>4, <1>5 DEF Log!Take

(* The steps of a pass that take no line: it starts where the cursor is,   *)
(* leaves the cursor where it has come to, or falls back to it by dying.   *)
LEMMA PassIsResume ==
  ASSUME RecordInv, OpenLive \/ LoadIndex \/ OpenSegments \/ EndOfPass \/ StoreRefuses \/ TailDies
  PROVE  UNCHANGED <<written, stored>> /\ (LogPos' = LogPos \/ LogPos' \in 0 .. LogPos)
<1>1. UNCHANGED <<written, stored>>
  BY DEF OpenLive, LoadIndex, OpenSegments, EndOfPass, StoreRefuses, TailDies
<1>2. cursor \in Nat /\ tail.at \in Nat /\ NoPass.step = "idle"
  BY DEF RecordInv, TypeInv, NoPass
<1>3. CASE OpenLive
  <2>1. tail'.step = "opened" /\ tail.step = "idle" /\ cursor' = cursor
    BY <1>3 DEF OpenLive, NoPass
  <2> QED
    BY <1>1, <2>1 DEF LogPos
<1>4. CASE LoadIndex
  <2>1. tail'.step = "indexed" /\ tail.step = "opened" /\ cursor' = cursor
    BY <1>4 DEF LoadIndex, RecordInv, TypeInv
  <2> QED
    BY <1>1, <2>1 DEF LogPos
<1>5. CASE OpenSegments
  <2>1. tail.step = "indexed" /\ cursor' = cursor /\ tail.at = cursor
    BY <1>5 DEF OpenSegments, RecordInv, TailInv
  <2>2. tail' = NoPass \/ (tail'.step = "reading" /\ tail'.at = tail.at)
    <3>1. PICK lines : tail' = NoPass \/ tail' = [tail EXCEPT !.step = "reading", !.archived = lines]
      BY <1>5 DEF OpenSegments
    <3>2. CASE tail' = [tail EXCEPT !.step = "reading", !.archived = lines]
      <4>1. tail' = [step |-> "reading", file |-> tail.file, size |-> tail.size, base |-> tail.base,
                     segs |-> tail.segs, at |-> tail.at, saved |-> tail.saved, archived |-> lines]
        BY <3>2 DEF RecordInv, TypeInv
      <4> QED
        BY <4>1
    <3> QED
      BY SMTT(30), <3>1, <3>2
  <2> QED
    BY <1>1, <1>2, <2>1, <2>2 DEF LogPos
<1>6. CASE EndOfPass \/ StoreRefuses
  <2>1. /\ tail.step = "reading" /\ tail' = NoPass
        /\ cursor' = IF tail.at = tail.saved THEN cursor ELSE tail.at
    BY <1>6 DEF EndOfPass, StoreRefuses
  <2>2. tail.saved = cursor
    BY <2>1 DEF RecordInv, TailInv
  <2> QED
    BY <1>1, <1>2, <2>1, <2>2 DEF LogPos
<1>7. CASE TailDies
  <2>1. tail' = NoPass /\ cursor' = cursor
    BY <1>7 DEF TailDies
  <2>2. tail.step = "reading" => cursor <= tail.at
    BY DEF RecordInv, TailInv
  <2> QED
    BY <1>1, <1>2, <2>1, <2>2 DEF LogPos
<1> QED
  BY <1>3, <1>4, <1>5, <1>6, <1>7

LEMMA StepIsLogStep ==
  RecordInv /\ [Next]_recordVars =>
    [Log!Next]_<<written, IF tail.step = "reading" THEN tail.at ELSE cursor, stored>>
<1> SUFFICES ASSUME RecordInv, [Next]_recordVars
             PROVE  Log!Next \/ UNCHANGED <<written, LogPos, stored>>
  BY DEF LogPos
<1>1. CASE WriteLine
  BY <1>1, WriteIsGrow DEF Log!Next
<1>2. CASE TakeLine
  BY <1>2, TakeLineIsTake DEF Log!Next
<1>3. CASE OpenLive \/ LoadIndex \/ OpenSegments \/ EndOfPass \/ StoreRefuses \/ TailDies
  BY <1>3, PassIsResume DEF Log!Next, Log!Resume, LogPos
<1>4. CASE LockShared \/ Reopen \/ WriterReturns \/ Archive \/ ShortWrite \/ WriterDies \/ RunDies
  <2>1. UNCHANGED <<reader, written>>
    BY <1>4 DEF LockShared, Reopen, WriterReturns, ShortWrite, WriterDies, RunDies,
                Archive, StartRun, WriteSegment, CopyTail, LockExclusive, SaveIndex, Rename, NothingToMove
  <2> QED
    BY <2>1 DEF reader, LogPos
<1>5. CASE UNCHANGED recordVars
  BY <1>5 DEF recordVars, reader, LogPos
<1> QED
  BY <1>1, <1>2, <1>3, <1>4, <1>5 DEF Next, Write, Ingest, Fail

LEMMA InitIsLogInit == Init => Log!Init
BY DEF Init, NoPass, Log!Init

(* Whichever file, index and segments a pass has opened and whatever has   *)
(* been rotated since, the writer, the archive and the collector together  *)
(* are one log that grows at its end and one reader that takes its lines   *)
(* in order (stream.go, observer/ingest tail).                             *)
THEOREM RecordIsOneLog == Spec => ImplementsLog
<1>1. Init => Log!Init
  BY InitIsLogInit
<1>2. RecordInv /\ [Next]_recordVars =>
        [Log!Next]_<<written, IF tail.step = "reading" THEN tail.at ELSE cursor, stored>>
  BY StepIsLogStep
<1> QED
  BY <1>1, <1>2, RecordInvariant, PTL DEF Spec, ImplementsLog, Log!Spec
=============================================================================
