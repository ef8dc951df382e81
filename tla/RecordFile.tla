---------------------------- MODULE RecordFile ----------------------------
(***************************************************************************)
(* One record file (measurements.jsonl and its like) under its three       *)
(* processes: the writer that appends lines (internal/record/appender.go), *)
(* the daily archive run that moves the oldest lines into a segment and    *)
(* replaces the live file by its own tail (archive.go), and the collector  *)
(* that tails the logical file the two are halves of (stream.go,           *)
(* observer/ingest tail). Each can die between any two steps.              *)
(*                                                                         *)
(* Bytes are counted in lines: an offset is a number of lines. A line is   *)
(* the number of its write, negated where the write landed on a torn line  *)
(* and made one that cannot be decoded. So the lines of a file are         *)
(* distinct, as a record's are: each carries the time it was taken.        *)
(***************************************************************************)
EXTENDS Integers, Sequences, FiniteSetsExt, Functions

CONSTANTS
  CursorEvery,     \* cursorEvery: lines between writes of the cursor
  MaxWrites,       \* bound: appends
  MaxRuns,         \* bound: archive runs
  FaultKinds,      \* which may happen: "writer", "archive", "tail" (the process dies), "short"
                   \* (an append is cut short and its writer lives), "store" (a row is refused)
  MaxFaults        \* bound: how many of them happen in all

ASSUME RecordAssumption ==
  /\ CursorEvery \in Nat \ {0}
  /\ {MaxWrites, MaxRuns, MaxFaults} \subseteq Nat
  /\ FaultKinds \subseteq {"writer", "archive", "tail", "short", "store"}

VARIABLES
  files,      \* every file the path has named, oldest first: its complete lines
  path,       \* the one it names
  torn,       \* those that end in a partial line
  index,      \* archive/<file>/index.json: segments and generations
  segFiles,   \* the segment files: name -> lines
  shared,     \* the file the writer holds the shared lock of (0: none)
  exclusive,  \* the file the archive run holds the exclusive lock of (0: none)
  writer,     \* the appender: its step and the file it holds
  run,        \* the archive run
  tail,       \* the collector's pass over the file
  cursor,     \* table ingest_cursors
  stored,     \* the lines whose rows are in the store
  written,    \* history: every line the file was given, in order
  faults, runs   \* how many faults and archive runs there have been

disk == <<files, path, torn, index, segFiles>>
locks == <<shared, exclusive>>
reader == <<tail, cursor, stored>>
recordVars == <<disk, locks, writer, run, reader, written, faults, runs>>

Fault(kind) == kind \in FaultKinds /\ faults < MaxFaults /\ faults' = faults + 1

NoRun == [step |-> "idle", file |-> 0, base |-> 0, cut |-> 0, end |-> 0, copy |-> <<>>]
NoPass == [step |-> "idle", file |-> 0, size |-> 0, base |-> 0, segs |-> <<>>, at |-> 0, saved |-> 0, archived |-> <<>>]

-----------------------------------------------------------------------------
(* The index. *)

(* The line a file is told by: its first. *)
NoLine == 0
FirstLine(lines) == IF lines = <<>> THEN NoLine ELSE lines[1]

Matching(idx, head) == {g \in DOMAIN idx.gens : head # NoLine /\ idx.gens[g].head = head}

(* Mutant: the newest generation is taken for the one that was opened. *)
NewestBase(idx, head) == IF idx.gens = <<>> THEN 0 ELSE idx.gens[Len(idx.gens)].base

(* The base of the newest generation with this first line, 0 when there is *)
(* none.                                                                   *)
BaseOf(idx, head) ==
  IF Matching(idx, head) = {} THEN 0 ELSE idx.gens[Max(Matching(idx, head))].base

(* The segments that end at or below a base and the generations that begin *)
(* there: both are in order, so they are the first so many.                *)
SegmentsBelow(idx, base) ==
  SubSeq(idx.segs, 1, Max({0} \cup {j \in DOMAIN idx.segs : idx.segs[j].to <= base}))

GenerationsUpTo(idx, base) ==
  SubSeq(idx.gens, 1, Max({0} \cup {g \in DOMAIN idx.gens : idx.gens[g].base <= base}))

-----------------------------------------------------------------------------
(* The writer: Appender.Write, RepairTail, OpenAppender. *)

Live == files[path]

Current == writer.file = path

(* It takes the shared lock of the file it holds, once no archive run has  *)
(* it.                                                                     *)
LockShared ==
  /\ writer.step = "open" /\ exclusive # writer.file
  /\ Len(written) < MaxWrites
  /\ shared' = writer.file
  /\ writer' = [writer EXCEPT !.step = "locked"]
  /\ UNCHANGED <<disk, exclusive, run, reader, written, faults, runs>>

(* The path still names the file: the line goes in, whole, onto whatever   *)
(* ends the file.                                                          *)
WriteLine ==
  /\ writer.step = "locked" /\ Current
  /\ LET line == IF path \in torn THEN -(Len(written) + 1) ELSE Len(written) + 1 IN
     /\ files' = [files EXCEPT ![path] = Append(@, line)]
     /\ written' = Append(written, line)
  /\ torn' = torn \ {path}
  /\ shared' = 0 /\ writer' = [writer EXCEPT !.step = "open"]
  /\ UNCHANGED <<path, index, segFiles, exclusive, run, reader, faults, runs>>

(* It was rotated meanwhile: the writer lets go and opens the path again. *)
Reopen ==
  /\ writer.step = "locked" /\ ~Current
  /\ shared' = 0 /\ writer' = [step |-> "open", file |-> path]
  /\ UNCHANGED <<disk, exclusive, run, reader, written, faults, runs>>

(* A full disk: part of the line is written, and the writer goes on. *)
ShortWrite ==
  /\ writer.step = "locked" /\ Current /\ Fault("short")
  /\ torn' = torn \cup {path}
  /\ shared' = 0 /\ writer' = [writer EXCEPT !.step = "open"]
  /\ UNCHANGED <<files, path, index, segFiles, exclusive, run, reader, written, runs>>

(* The writer dies, within a write or outside of it. *)
WriterDies ==
  /\ writer.step # "down" /\ Fault("writer")
  /\ torn' \in {torn} \cup (IF writer.step = "locked" /\ Current THEN {torn \cup {path}} ELSE {})
  /\ shared' = 0 /\ writer' = [step |-> "down", file |-> 0]
  /\ UNCHANGED <<files, path, index, segFiles, exclusive, run, reader, written, runs>>

(* It comes back: under the exclusive lock a torn tail is cut off, the live *)
(* file is read, which must hold no line that cannot be decoded, and opened. *)
WriterReturns ==
  /\ writer.step = "down" /\ exclusive # path
  /\ \A n \in DOMAIN Live : Live[n] > 0
  /\ torn' = torn \ {path}
  /\ writer' = [step |-> "open", file |-> path]
  /\ UNCHANGED <<files, path, index, segFiles, locks, run, reader, written, faults, runs>>

-----------------------------------------------------------------------------
(* The archive run. *)

(* recoverIndex: what a run that died left past the live file's base is    *)
(* taken out of the index, and the segment files it named are removed. It  *)
(* refuses a live file the index does not know, and segments with a gap.   *)
RecoverIndex(base) == [segs |-> SegmentsBelow(index, base), gens |-> GenerationsUpTo(index, base)]

Reaches(segs, base) ==
  /\ \A j \in DOMAIN segs : segs[j].from = IF j = 1 THEN 0 ELSE segs[j - 1].to
  /\ base = IF segs = <<>> THEN 0 ELSE segs[Len(segs)].to

StartRun ==
  /\ run.step = "idle" /\ runs < MaxRuns
  /\ runs' = runs + 1
  /\ index.gens = <<>> \/ Matching(index, FirstLine(Live)) # {}
  /\ LET base == BaseOf(index, FirstLine(Live))
         stale == {sg.name : sg \in Range(index.segs) \ Range(index'.segs)}
     IN /\ index' = RecoverIndex(base)
        /\ Reaches(index'.segs, base)
        /\ segFiles' = Restrict(segFiles, DOMAIN segFiles \ stale)
        /\ run' = [NoRun EXCEPT !.step = "cut", !.file = path, !.base = base, !.end = Len(Live)]
  /\ UNCHANGED <<files, path, torn, locks, writer, reader, written, faults>>

(* findCut: some lines from the start, never the last one and never past a *)
(* line with no date; what was appended since the run began is dated after *)
(* any cutoff. writeSegment: they are read back and fsynced before the     *)
(* segment has its name.                                                   *)
Cuts(lines) == {c \in 1 .. Len(lines) - 1 : \A j \in 1 .. c : lines[j] > 0}

WriteSegment ==
  /\ run.step = "cut"
  /\ \E c \in Cuts(files[run.file]) :
       /\ c <= run.end
       /\ segFiles' =
           [name \in DOMAIN segFiles \cup {Len(index.segs) + 1} |->
             IF name = Len(index.segs) + 1 THEN SubSeq(files[run.file], 1, c) ELSE segFiles[name]]
       /\ run' = [run EXCEPT !.step = "copy", !.cut = c]
  /\ UNCHANGED <<files, path, torn, index, locks, writer, reader, written, faults, runs>>

(* The rest, without a lock. *)
CopyTail ==
  /\ run.step = "copy"
  /\ run' = [run EXCEPT !.step = "lock", !.copy = SubSeq(files[run.file], run.cut + 1, run.end)]
  /\ UNCHANGED <<disk, locks, writer, reader, written, faults, runs>>

(* Mutant: what was appended since the copy is left behind. *)
SwapWhatWasCopied ==
  /\ run.step = "lock" /\ shared # run.file
  /\ exclusive' = run.file
  /\ run' = [run EXCEPT !.step = "index"]
  /\ UNCHANGED <<disk, shared, writer, reader, written, faults, runs>>

(* Under the exclusive lock: what was appended since. A file that ends in  *)
(* a partial line is not swapped.                                          *)
LockExclusive ==
  /\ run.step = "lock" /\ shared # run.file
  /\ IF run.file \in torn
     THEN run' = NoRun /\ UNCHANGED exclusive
     ELSE /\ exclusive' = run.file
          /\ run' = [run EXCEPT !.step = "index",
                                !.copy = @ \o SubSeq(files[run.file], run.end + 1, Len(files[run.file]))]
  /\ UNCHANGED <<disk, shared, writer, reader, written, faults, runs>>

(* The index names the new segment and the new generation. *)
SaveIndex ==
  /\ run.step = "index"
  /\ LET first == IF index.gens = <<>> THEN <<[base |-> 0, head |-> FirstLine(files[run.file])]>> ELSE index.gens
         cut == run.base + run.cut
     IN index' = [segs |-> Append(index.segs, [name |-> Len(index.segs) + 1, from |-> run.base, to |-> cut]),
                  gens |-> Append(first, [base |-> cut, head |-> FirstLine(run.copy)])]
  /\ run' = [run EXCEPT !.step = "rename"]
  /\ UNCHANGED <<files, path, torn, segFiles, locks, writer, reader, written, faults, runs>>

(* The copy is renamed over the live file, and the lock released. *)
Rename ==
  /\ run.step = "rename"
  /\ files' = Append(files, run.copy) /\ path' = Len(files) + 1
  /\ exclusive' = 0 /\ run' = NoRun
  /\ UNCHANGED <<torn, index, segFiles, shared, writer, reader, written, faults, runs>>

(* It ends with nothing to move, or dies, or gives up on an error. *)
NothingToMove ==
  /\ run.step = "cut" /\ run' = NoRun
  /\ UNCHANGED <<disk, locks, writer, reader, written, faults, runs>>

RunDies ==
  /\ run.step # "idle" /\ Fault("archive")
  /\ exclusive' = 0 /\ run' = NoRun
  /\ UNCHANGED <<disk, shared, writer, reader, written, runs>>

-----------------------------------------------------------------------------
(* The collector: Open, ReaderFrom and tail. *)

(* The live file is opened first. *)
OpenLive ==
  /\ tail.step = "idle"
  /\ tail' = [NoPass EXCEPT !.step = "opened", !.file = path, !.size = Len(Live)]
  /\ UNCHANGED <<disk, locks, writer, run, cursor, stored, written, faults, runs>>

(* Its base comes from its own first line, whatever the index has become.  *)
(* A cursor past the file's end means it was replaced: all is read again.  *)
LoadIndex ==
  /\ tail.step = "opened"
  /\ LET base == BaseOf(index, FirstLine(files[tail.file]))
         from == IF base + tail.size < cursor THEN 0 ELSE cursor
     IN tail' = [tail EXCEPT !.step = "indexed", !.base = base, !.segs = index.segs, !.at = from, !.saved = from]
  /\ UNCHANGED <<disk, locks, writer, run, cursor, stored, written, faults, runs>>

(* Mutant: a segment the cursor stands in is taken for one it has passed. *)
WholeSegments == {sg \in Range(tail.segs) : sg.from >= tail.at /\ sg.from < tail.base}

SegmentsNeeded == {sg \in Range(tail.segs) : sg.to > tail.at /\ sg.from < tail.base}

(* The segments below the base are opened, which must reach from the       *)
(* cursor to it without a gap; otherwise the pass fails.                   *)
OpenSegments ==
  /\ tail.step = "indexed"
  /\ LET needed == SegmentsNeeded
         of(n) == CHOOSE sg \in needed : sg.from < n /\ n <= sg.to
         there == /\ \A n \in tail.at + 1 .. tail.base : \E sg \in needed : sg.from < n /\ n <= sg.to
                  /\ \A sg \in needed : sg.name \in DOMAIN segFiles
     IN tail' = IF there
                THEN [tail EXCEPT !.step = "reading",
                                  !.archived = [n \in tail.at + 1 .. tail.base |-> segFiles[of(n).name][n - of(n).from]]]
                ELSE NoPass
  /\ UNCHANGED <<disk, locks, writer, run, cursor, stored, written, faults, runs>>

(* The next line: an archived one, then those of the file that was opened, *)
(* with what is appended to it meanwhile.                                  *)
AtEnd == tail.at - tail.base >= Len(files[tail.file])
NextLine ==
  IF tail.at < tail.base THEN tail.archived[tail.at + 1] ELSE files[tail.file][tail.at - tail.base + 1]

(* One line: its row is stored, a line that cannot be decoded is stepped   *)
(* over. The cursor follows every CursorEvery lines.                       *)
Rows(line) == IF line > 0 THEN {line} ELSE {}

TakeLine ==
  /\ tail.step = "reading" /\ ~AtEnd
  /\ LET line == NextLine
         at == tail.at + 1
         save == at - tail.saved >= CursorEvery
     IN /\ stored' = stored \cup Rows(line)
        /\ tail' = [tail EXCEPT !.at = at, !.saved = IF save THEN at ELSE @]
        /\ cursor' = IF save THEN at ELSE cursor
  /\ UNCHANGED <<disk, locks, writer, run, written, faults, runs>>

(* flush: the cursor follows if a line was read since. *)
EndOfPass ==
  /\ tail.step = "reading" /\ AtEnd
  /\ cursor' = IF tail.at = tail.saved THEN cursor ELSE tail.at
  /\ tail' = NoPass
  /\ UNCHANGED <<disk, locks, writer, run, stored, written, faults, runs>>

(* The store refuses the line, or it asks to be retried: the cursor stays  *)
(* before it and the pass ends.                                            *)
StoreRefuses ==
  /\ tail.step = "reading" /\ ~AtEnd /\ NextLine > 0 /\ Fault("store")
  /\ cursor' = IF tail.at = tail.saved THEN cursor ELSE tail.at
  /\ tail' = NoPass
  /\ UNCHANGED <<disk, locks, writer, run, stored, written, runs>>

(* The collector dies and starts a new pass from the cursor. *)
TailDies ==
  /\ tail.step # "idle" /\ Fault("tail")
  /\ tail' = NoPass
  /\ UNCHANGED <<disk, locks, writer, run, cursor, stored, written, runs>>

-----------------------------------------------------------------------------
Init ==
  /\ files = <<<<>>>> /\ path = 1 /\ torn = {}
  /\ index = [segs |-> <<>>, gens |-> <<>>] /\ segFiles = <<>>
  /\ shared = 0 /\ exclusive = 0
  /\ writer = [step |-> "open", file |-> 1] /\ run = NoRun
  /\ tail = NoPass /\ cursor = 0 /\ stored = {}
  /\ written = <<>> /\ faults = 0 /\ runs = 0

Write == LockShared \/ WriteLine \/ Reopen
Archive == StartRun \/ WriteSegment \/ CopyTail \/ LockExclusive \/ SaveIndex \/ Rename \/ NothingToMove
Ingest == OpenLive \/ LoadIndex \/ OpenSegments \/ TakeLine \/ EndOfPass
Fail == ShortWrite \/ WriterDies \/ RunDies \/ StoreRefuses \/ TailDies

Next == Write \/ WriterReturns \/ Archive \/ Ingest \/ Fail

Spec == Init /\ [][Next]_recordVars

(* Passes are made for as long as the collector runs; nothing is asked of  *)
(* the writer or of the archive run.                                       *)
FairSpec == Spec /\ WF_recordVars(Ingest)

-----------------------------------------------------------------------------
(* Properties. *)

(* The segments below the live file's base and the live file are together  *)
(* every line the file was given, once and in order, at the offset it was  *)
(* written at: in every state between two steps of a rotation, and after   *)
(* whatever process has died.                                              *)
LiveBase == BaseOf(index, FirstLine(Live))

RecordIsWhole ==
  /\ LiveBase + Len(Live) = Len(written)
  /\ \A n \in DOMAIN written :
       IF n > LiveBase
       THEN Live[n - LiveBase] = written[n]
       ELSE \E s \in Range(index.segs) :
              /\ s.from < n /\ n <= s.to /\ s.to <= LiveBase
              /\ s.name \in DOMAIN segFiles /\ segFiles[s.name][n - s.from] = written[n]

(* The record file is one log with one reader: a rotation is no step of    *)
(* either, and a line is stored only as the one written at the offset the  *)
(* reader has come to, whichever file, index and segments it opened and    *)
(* whatever has been rotated since.                                        *)
Log == INSTANCE RecordLog WITH
         log <- written, pos <- IF tail.step = "reading" THEN tail.at ELSE cursor, got <- stored
ImplementsLog == Log!Spec

(* Every line written that can be decoded is in the store sooner or later. *)
EveryLineIsStored ==
  \A n \in 1 .. MaxWrites :
    (n \in DOMAIN written) ~> (n \in DOMAIN written /\ Rows(written[n]) \subseteq stored)
=============================================================================
