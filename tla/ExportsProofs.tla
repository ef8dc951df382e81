---------------------------- MODULE ExportsProofs ----------------------------
(***************************************************************************)
(* What holds of the exports for every record, every length of the day and *)
(* of the grace after it, every clock that runs ahead, every set of keys   *)
(* and every number of interruptions.                                      *)
(***************************************************************************)
EXTENDS Exports, Integers, SequenceTheorems, FiniteSetTheorems, WellFoundedInduction, TLAPS

Line == [day : Nat, written : Nat]
Bounds == [Files -> Nat]
Tarballs == [day : Nat, build : Nat, from : Bounds, to : Bounds]
Entries == [key : Keys, last : Nat]
Steps == {"tarball", "sidecar", "key", "signature", "index", "state"}
Runs == [at : Steps \cup {"next"}, day : Nat \ {0}, now : Nat, of : Tarballs]

Building == run.at \in Steps

(* What is read up to these offsets stops at a line of the next day, or at *)
(* one that was written after this day.                                    *)
StopsAtNextDay(offsets, day) ==
  \A f \in Files : LET first == offsets[f] + 1 IN
    first \in DOMAIN file[f] /\ file[f][first].written <= day => file[f][first].day = day + 1

Within(offsets) == \A f \in Files : offsets[f] <= Len(file[f])

(* A day a run may have begun to build by now, and none later. *)
Reached(d) == IF saved.last = NoDay THEN d + 1 <= DayOf(instant - ExportHour) ELSE d <= saved.last + 1

-----------------------------------------------------------------------------
TypeInv ==
  /\ instant \in Nat /\ DayLength <= instant /\ builds \in Nat
  /\ file \in [Files -> Seq(Line)]
  /\ saved \in [last : Nat, offsets : Bounds]
  /\ run = Idle \/ run \in Runs
  /\ key \in Keys \cup {NoKey}
  /\ finished \subseteq Nat \ {0}
  /\ keys \in Seq(Entries)

(* A build is of a day that is over and not finished, and goes on from     *)
(* where the state says.                                                   *)
RunInv ==
  run # Idle =>
    /\ DayOf(run.now) <= Today /\ run.day + 1 <= DayOf(run.now)
    /\ run.at = "next" => run.day = saved.last
    /\ Building =>
         /\ saved.last < run.day /\ Reached(run.day)
         /\ run.of.from = saved.offsets
         /\ \A f \in Files : run.of.from[f] <= run.of.to[f]
         /\ Within(run.of.to) /\ StopsAtNextDay(run.of.to, run.day)

(* The finished exports follow one another and end where the state says.   *)
OffsetInv ==
  /\ saved.last < Today
  /\ Within(saved.offsets) /\ StopsAtNextDay(saved.offsets, saved.last)
  /\ saved.last = NoDay => saved.offsets = [f \in Files |-> 0]
  /\ finished \subseteq 1 .. saved.last /\ finished \subseteq DOMAIN tar
  /\ \A d \in finished : \A f \in Files :
       tar[d].from[f] \in Nat /\ tar[d].to[f] \in Nat /\ tar[d].to[f] <= saved.offsets[f]
  /\ \A d, e \in finished : \A f \in Files : d < e => tar[d].to[f] <= tar[e].from[f]
  /\ \A f \in Files : \A i \in 1 .. saved.offsets[f] :
       \E d \in finished : tar[d].from[f] < i /\ i <= tar[d].to[f]

(* What a build has written so far. *)
WrittenInv ==
  /\ Building /\ run.at # "tarball" => run.day \in DOMAIN tar /\ tar[run.day] = run.of
  /\ Building /\ run.at \notin {"tarball", "sidecar"} => run.day \in DOMAIN side /\ side[run.day] = run.of
  /\ Building /\ run.at \in {"signature", "index", "state"} /\ key # NoKey =>
       1 \in DOMAIN keys /\ keys[1].key = key /\ keys[1].last = run.day
  /\ Building /\ run.at \in {"index", "state"} /\ key # NoKey =>
       run.day \in DOMAIN sig /\ sig[run.day] = [of |-> run.of, key |-> key]
  /\ run.at = "state" => run.day \in DOMAIN index /\ index[run.day] = [of |-> run.of, key |-> key]
  /\ run.at \in {"key", "signature"} => key # NoKey

(* Before a signer is configured nothing is signed. *)
UnsignedInv ==
  key = NoKey => DOMAIN sig = {} /\ DOMAIN keys = {} /\ Signed = {}

(* A finished day is whole. *)
FinishedInv ==
  \A d \in finished : d \in DOMAIN side /\ d \in DOMAIN index /\ Passes(d)

(* The newest entry is first, and of the keys that were recorded for its   *)
(* day the one that signed it.                                             *)
KeysInv ==
  /\ \A i \in DOMAIN keys :
       /\ keys[i].last <= keys[1].last
       /\ Reached(keys[i].last) /\ (Building => keys[i].last <= run.day)
  /\ DOMAIN index \subseteq Nat
  /\ \A d \in Signed : \E i \in DOMAIN keys : keys[i].key = index[d].key /\ d <= keys[i].last
  /\ DOMAIN keys # {} =>
       /\ keys[1].last \in DOMAIN tar
       /\ keys[1].last \in finished => keys[1].last \in DOMAIN index /\ index[keys[1].last].key = keys[1].key

ExportsInv == TypeInv /\ RunInv /\ OffsetInv /\ WrittenInv /\ UnsignedInv /\ FinishedInv /\ KeysInv

-----------------------------------------------------------------------------
(* Days, tables, and where a build stops reading. *)

LEMMA DayMonotone ==
  ASSUME NEW a \in Nat, NEW b \in Nat, a <= b
  PROVE  DayOf(a) \in Nat /\ DayOf(b) \in Nat /\ DayOf(a) <= DayOf(b)
<1>1. DayLength \in Nat /\ DayLength > 0
  BY ExportsAssumption
<1> QED
  BY <1>1 DEF DayOf

LEMMA FirstDay ==
  ASSUME NEW a \in Nat, DayLength <= a
  PROVE  DayOf(a) \in Nat /\ 1 <= DayOf(a)
<1>1. DayLength \in Nat /\ DayLength > 0
  BY ExportsAssumption
<1> QED
  BY <1>1 DEF DayOf

LEMMA Smallest ==
  ASSUME NEW T \in SUBSET Nat, T # {}
  PROVE  \E x \in T : \A y \in T : x <= y
<1> DEFINE R == {ss \in Nat \X Nat : ss[1] < ss[2]}
<1>1. IsWellFoundedOn(R, Nat)
  BY NatLessThanWellFounded DEF OpToRel
<1>2. \E x \in T : \A y \in T : ~ (<<y, x>> \in R)
  <2> HIDE DEF R
  <2> QED
    BY <1>1, WFMin
<1>3. ASSUME NEW x \in T, NEW y \in T, ~ (<<y, x>> \in R)
      PROVE  x <= y
  <2>1. x \in Nat /\ y \in Nat /\ <<y, x>> \in Nat \X Nat /\ <<y, x>>[1] = y /\ <<y, x>>[2] = x
    OBVIOUS
  <2>2. ~(y < x)
    BY <1>3, <2>1
  <2> QED
    BY <2>1, <2>2
<1> QED
  BY <1>2, <1>3

(* A build reads up to the first line of the next day.                     *)
LEMMA CollectIs ==
  ASSUME NEW f \in Files, file[f] \in Seq(Line), NEW day \in Nat, NEW from \in Nat, from <= Len(file[f]),
         NEW to, to = Collect(f, day, from)
  PROVE  /\ to \in Nat /\ from <= to /\ to <= Len(file[f])
         /\ to + 1 \in DOMAIN file[f] => file[f][to + 1].day = day + 1
<1> DEFINE later == {i \in from + 1 .. Len(file[f]) : BelongsLater(file[f][i], day)}
<1>1. Len(file[f]) \in Nat /\ DOMAIN file[f] = 1 .. Len(file[f])
  BY LenProperties
<1>2. CASE later = {}
  <2>1. to = Len(file[f])
    BY <1>2 DEF Collect
  <2> QED
    BY <1>1, <2>1
<1>3. CASE later # {}
  <2>1. later \in SUBSET Nat
    BY <1>1
  <2>2. PICK i : i = (CHOOSE k \in later : \A j \in later : k <= j)
    OBVIOUS
  <2>3. i \in later
    <3> HIDE DEF later
    <3> QED
      BY <1>3, <2>1, <2>2, Smallest
  <2>4. to = i - 1
    BY <1>3, <2>2 DEF Collect
  <2>5. i \in from + 1 .. Len(file[f]) /\ file[f][i].day = day + 1
    BY <2>3 DEF BelongsLater
  <2>6. to \in Nat /\ from <= to /\ to <= Len(file[f]) /\ to + 1 = i
    BY <1>1, <2>4, <2>5
  <2> QED
    BY <2>5, <2>6
<1> QED
  BY <1>2, <1>3

-----------------------------------------------------------------------------
(* The steps. *)

LEMMA Clock ==
  ASSUME TypeInv
  PROVE  /\ Today \in Nat /\ 1 <= Today /\ instant - ExportHour \in Nat /\ DayOf(instant - ExportHour) \in Nat
         /\ DayLength \in Nat /\ ExportHour \in Nat
<1>1. instant \in Nat /\ DayLength <= instant /\ DayLength \in Nat /\ ExportHour \in Nat /\ ExportHour <= DayLength
  BY ExportsAssumption DEF TypeInv
<1>2. instant - ExportHour \in Nat
  BY <1>1
<1>3. DayOf(instant - ExportHour) \in Nat
  BY <1>2, DayMonotone
<1> QED
  BY <1>1, <1>2, <1>3, FirstDay DEF Today

LEMMA KeyEntries ==
  ASSUME TypeInv
  PROVE  /\ Len(keys) \in Nat /\ DOMAIN keys = 1 .. Len(keys)
         /\ \A i \in DOMAIN keys : keys[i] \in Entries /\ keys[i].last \in Nat /\ keys[i].key \in Keys /\ keys[i].key # NoKey
<1>1. keys \in Seq(Entries)
  BY DEF TypeInv
<1>2. Len(keys) \in Nat /\ DOMAIN keys = 1 .. Len(keys) /\ \A i \in 1 .. Len(keys) : keys[i] \in Entries
  BY <1>1, LenProperties, ElementOfSeq
<1> QED
  BY <1>2, ExportsAssumption DEF Entries, NoKey

LEMMA InitExports == Init => ExportsInv
<1> SUFFICES ASSUME Init PROVE ExportsInv
  OBVIOUS
<1>1. /\ instant = DayLength /\ file = [f \in Files |-> <<>>]
      /\ tar = <<>> /\ side = <<>> /\ sig = <<>> /\ index = <<>> /\ keys = <<>>
      /\ saved = [last |-> NoDay, offsets |-> [f \in Files |-> 0]]
      /\ run = Idle /\ key \in Keys \cup {NoKey} /\ builds = 0 /\ finished = {}
  BY DEF Init
<1>2. \A f \in Files : file[f] = <<>> /\ Len(file[f]) = 0 /\ DOMAIN file[f] = {} /\ saved.offsets[f] = 0
  BY <1>1
<1>3. TypeInv
  <2>1. <<>> \in Seq(Line)
    BY EmptySeq
  <2>2. [f \in Files |-> 0] \in Bounds
    BY DEF Bounds
  <2> QED
    BY <1>1, <2>1, <2>2, ExportsAssumption DEF TypeInv, NoDay
<1>4. DOMAIN tar = {} /\ DOMAIN sig = {} /\ DOMAIN index = {} /\ DOMAIN keys = {} /\ DOMAIN keys = 1 .. 0
  BY <1>1
<1>5. ~Building /\ run.at = "idle"
  BY <1>1 DEF Building, Idle, Steps
<1>6. OffsetInv
  <2>1. Within(saved.offsets) /\ StopsAtNextDay(saved.offsets, saved.last)
    BY <1>2 DEF Within, StopsAtNextDay
  <2>2. saved.last < Today
    BY <1>1, <1>3, Clock DEF NoDay
  <2> QED
    BY <1>1, <1>2, <2>1, <2>2 DEF OffsetInv
<1>7. Signed = {}
  BY <1>4 DEF Signed
<1>8. RunInv /\ WrittenInv /\ UnsignedInv /\ FinishedInv
  BY <1>1, <1>4, <1>5, <1>7 DEF RunInv, WrittenInv, UnsignedInv, FinishedInv
<1>9. KeysInv
  BY <1>4, <1>7 DEF KeysInv
<1> QED
  BY <1>3, <1>6, <1>8, <1>9 DEF ExportsInv

(* Time passes, and lines are written. *)
LEMMA TickExports ==
  ASSUME ExportsInv, Tick
  PROVE  ExportsInv'
<1>1. /\ instant' = instant + 1 /\ UNCHANGED <<file, tar, side, sig, index, keys, saved, run, key, builds, finished>>
      /\ ~Building
  BY DEF Tick, exportDir, NotWriting, Building, Steps
<1>2. TypeInv'
  <2>1. instant' \in Nat /\ DayLength <= instant'
    BY <1>1, ExportsAssumption DEF ExportsInv, TypeInv
  <2> QED
    BY <1>1, <2>1 DEF ExportsInv, TypeInv
<1>3. Today' \in Nat /\ Today <= Today' /\ Today \in Nat /\ ~Building'
  <2>1. instant \in Nat /\ instant' \in Nat /\ instant <= instant'
    BY <1>1 DEF ExportsInv, TypeInv
  <2> QED
    BY <1>1, <2>1, DayMonotone DEF Today, Building
<1>4. \A d \in Nat : Reached(d) => Reached(d)'
  <2>1. instant - ExportHour \in Nat /\ instant' - ExportHour \in Nat /\ instant - ExportHour <= instant' - ExportHour
    BY <1>1, Clock DEF ExportsInv, TypeInv
  <2>2. DayOf(instant - ExportHour) \in Nat /\ DayOf(instant' - ExportHour) \in Nat /\ DayOf(instant - ExportHour) <= DayOf(instant' - ExportHour)
    BY <2>1, DayMonotone
  <2> QED
    BY <1>1, <2>2 DEF Reached
<1>5. RunInv'
  <2>1. run \in Runs => run.now \in Nat /\ DayOf(run.now) \in Nat
    <3>1. run \in Runs => run.now \in Nat
      BY DEF Runs
    <3> QED
      BY <3>1, DayMonotone
  <2> QED
    BY <1>1, <1>3, <2>1 DEF ExportsInv, TypeInv, RunInv, Building
<1>6. OffsetInv'
  <2>1. saved.last \in Nat
    BY DEF ExportsInv, TypeInv
  <2>2. StopsAtNextDay(saved.offsets, saved.last)' <=> StopsAtNextDay(saved.offsets, saved.last)
    BY <1>1 DEF StopsAtNextDay
  <2>3. Within(saved.offsets)' <=> Within(saved.offsets)
    BY <1>1 DEF Within
  <2> QED
    BY <1>1, <1>3, <2>1, <2>2, <2>3 DEF ExportsInv, OffsetInv
<1>7. WrittenInv' /\ UnsignedInv' /\ FinishedInv'
  BY <1>1 DEF ExportsInv, WrittenInv, UnsignedInv, FinishedInv, Building, Signed, Passes, VerifySignature, Published
<1>8. KeysInv'
  <2>1. Signed' = Signed
    BY <1>1 DEF Signed
  <2>2. \A i \in DOMAIN keys : keys[i].last \in Nat
    BY KeyEntries DEF ExportsInv
  <2> QED
    BY <1>1, <1>3, <1>4, <2>1, <2>2 DEF ExportsInv, KeysInv
<1> QED
  BY <1>2, <1>5, <1>6, <1>7, <1>8 DEF ExportsInv


(* A line that is written is later than every day that is over. *)
LEMMA AppendExports ==
  ASSUME ExportsInv, NEW g \in Files, AppendLine(g)
  PROVE  ExportsInv'
<1>1. /\ UNCHANGED <<instant, tar, side, sig, index, keys, saved, run, key, builds, finished>>
      /\ ~Building /\ Building' = Building
  BY DEF AppendLine, exportDir, NotWriting, Building, Steps
<1>2. PICK line : file' = [file EXCEPT ![g] = Append(file[g], line)] /\ line \in Line /\ line.written = Today
  <2>1. PICK d \in Dates : file' = [file EXCEPT ![g] = @ \o <<[day |-> d, written |-> Today]>>]
    BY DEF AppendLine
  <2>2. d \in Nat /\ Today \in Nat
    BY Clock DEF Dates, Undated, ExportsInv
  <2>3. [day |-> d, written |-> Today] \in Line
    BY <2>2 DEF Line
  <2>4. file[g] \in Seq(Line)
    BY DEF ExportsInv, TypeInv
  <2>5. file[g] \o <<[day |-> d, written |-> Today]>> = Append(file[g], [day |-> d, written |-> Today])
    BY <2>3, <2>4, AppendIsConcat
  <2>6. PICK line : line = [day |-> d, written |-> Today]
    OBVIOUS
  <2>7. file' = [file EXCEPT ![g] = Append(file[g], line)]
    BY <2>1, <2>5, <2>6
  <2>8. line \in Line /\ line.written = Today
    BY <2>3, <2>6
  <2> QED
    BY <2>7, <2>8
<1>3. ASSUME NEW f \in Files
      PROVE  /\ file[f] \in Seq(Line) /\ file'[f] \in Seq(Line) /\ Len(file[f]) \in Nat /\ Len(file[f]) <= Len(file'[f])
             /\ DOMAIN file[f] = 1 .. Len(file[f]) /\ DOMAIN file'[f] = 1 .. Len(file'[f])
             /\ \A i \in DOMAIN file'[f] : IF i \in DOMAIN file[f] THEN file'[f][i] = file[f][i] ELSE file'[f][i].written = Today
  <2>1. file \in [Files -> Seq(Line)]
    BY DEF ExportsInv, TypeInv
  <2>2. file[f] \in Seq(Line) /\ Len(file[f]) \in Nat /\ DOMAIN file[f] = 1 .. Len(file[f])
    BY <2>1, LenProperties
  <2>3. CASE f # g
    BY <1>2, <2>1, <2>2, <2>3
  <2>4. CASE f = g
    <3>1. file'[f] = Append(file[f], line)
      BY <1>2, <2>1, <2>4
    <3>2. /\ Append(file[f], line) \in Seq(Line) /\ Len(Append(file[f], line)) = Len(file[f]) + 1
          /\ \A i \in 1 .. Len(file[f]) : Append(file[f], line)[i] = file[f][i]
          /\ Append(file[f], line)[Len(file[f]) + 1] = line
      BY <1>2, <2>2, AppendProperties
    <3>3. file'[f] \in Seq(Line) /\ Len(file'[f]) = Len(file[f]) + 1 /\ DOMAIN file'[f] = 1 .. Len(file'[f])
      BY <3>1, <3>2, LenProperties
    <3> QED
      BY <1>2, <2>2, <3>1, <3>2, <3>3
  <2> QED
    BY <2>3, <2>4
<1>4. TypeInv'
  <2>1. file' \in [Files -> Seq(Line)]
    <3>1. DOMAIN file' = Files
      BY <1>2 DEF ExportsInv, TypeInv
    <3>2. file' = [f \in Files |-> file'[f]]
      BY <1>2, <3>1 DEF ExportsInv, TypeInv
    <3> QED
      BY <1>3, <3>2
  <2> QED
    BY <1>1, <2>1 DEF ExportsInv, TypeInv
<1>5. ASSUME NEW offsets \in Bounds, Within(offsets), NEW d \in Nat, d < Today, StopsAtNextDay(offsets, d)
      PROVE  Within(offsets)' /\ StopsAtNextDay(offsets, d)'
  <2>1. ASSUME NEW f \in Files PROVE offsets[f] <= Len(file'[f])
    <3>1. offsets[f] \in Nat /\ offsets[f] <= Len(file[f])
      BY <1>5 DEF Bounds, Within
    <3> QED
      BY <1>3, <3>1
  <2>2. ASSUME NEW f \in Files, offsets[f] + 1 \in DOMAIN file'[f], file'[f][offsets[f] + 1].written <= d
        PROVE  file'[f][offsets[f] + 1].day = d + 1
    <3>1. Today \in Nat
      BY Clock DEF ExportsInv
    <3>2. offsets[f] + 1 \in DOMAIN file[f]
      BY <1>3, <1>5, <2>2, <3>1
    <3> QED
      BY <1>3, <1>5, <2>2, <3>2 DEF StopsAtNextDay
  <2> QED
    BY <2>1, <2>2 DEF Within, StopsAtNextDay
<1>6. Today' = Today
  BY <1>1 DEF Today
<1>7. OffsetInv'
  <2>1. saved.offsets \in Bounds /\ saved.last \in Nat /\ saved.last < Today /\ Within(saved.offsets) /\ StopsAtNextDay(saved.offsets, saved.last)
    BY DEF ExportsInv, OffsetInv, TypeInv
  <2>2. PICK x, y : x = saved.offsets /\ y = saved.last
    OBVIOUS
  <2>3. Within(x)' /\ StopsAtNextDay(x, y)'
    BY <1>5, <2>1, <2>2
  <2>4. Within(saved.offsets)' /\ StopsAtNextDay(saved.offsets, saved.last)'
    BY <1>1, <2>2, <2>3 DEF Within, StopsAtNextDay
  <2> QED
    BY <1>1, <1>6, <2>4 DEF ExportsInv, OffsetInv
<1>8. RunInv' /\ WrittenInv' /\ UnsignedInv' /\ FinishedInv'
  BY <1>1, <1>6 DEF ExportsInv, RunInv, WrittenInv, UnsignedInv, FinishedInv, Building, Signed, Passes, VerifySignature, Published
<1>9. KeysInv'
  BY <1>1 DEF ExportsInv, KeysInv, Signed, Reached
<1> QED
  BY <1>4, <1>7, <1>8, <1>9 DEF ExportsInv


(* A build begins: what it will write is read at once. *)
LEMMA BuildExports ==
  ASSUME ExportsInv, NEW day \in Nat \ {0}, NEW t \in Nat, Build(day, t), saved.last < day, Reached(day),
         day + 1 <= DayOf(t), DayOf(t) <= Today, \A i \in DOMAIN keys : keys[i].last <= day
  PROVE  ExportsInv'
<1>1. UNCHANGED <<instant, file, tar, side, sig, index, keys, saved, key, finished>> /\ builds' = builds + 1
  BY DEF Build, record, exportDir
<1>2. PICK x : x = Export(day)
  OBVIOUS
<1>3. ASSUME NEW f \in Files
      PROVE  /\ x.to[f] \in Nat /\ saved.offsets[f] <= x.to[f] /\ x.to[f] <= Len(file[f])
             /\ x.to[f] + 1 \in DOMAIN file[f] => file[f][x.to[f] + 1].day = day + 1
  <2>1. file[f] \in Seq(Line) /\ saved.offsets[f] \in Nat /\ saved.offsets[f] <= Len(file[f])
    BY DEF ExportsInv, TypeInv, OffsetInv, Within, Bounds
  <2>2. x.to[f] = Collect(f, day, saved.offsets[f])
    BY <1>2 DEF Export
  <2>3. /\ x.to[f] \in Nat /\ saved.offsets[f] <= x.to[f] /\ x.to[f] <= Len(file[f])
        /\ x.to[f] + 1 \in DOMAIN file[f] => file[f][x.to[f] + 1].day = day + 1
    <3>1. PICK to : to = x.to[f]
      OBVIOUS
    <3> QED
      BY <2>1, <2>2, <3>1, CollectIs
  <2> QED
    BY <2>3
<1>4. x.day = day /\ x.from = saved.offsets /\ x \in Tarballs
  <2>1. x = [day |-> day, build |-> builds + 1, from |-> saved.offsets, to |-> [f \in Files |-> Collect(f, day, saved.offsets[f])]]
    BY <1>2 DEF Export
  <2>2. x.to = [f \in Files |-> x.to[f]]
    BY <2>1
  <2>3. x.to \in Bounds
    BY <1>3, <2>2 DEF Bounds
  <2>4. builds + 1 \in Nat /\ saved.offsets \in Bounds
    BY DEF ExportsInv, TypeInv
  <2> QED
    BY <2>1, <2>3, <2>4 DEF Tarballs
<1>5. run' = [at |-> "tarball", day |-> day, now |-> t, of |-> x]
  BY <1>2 DEF Build
<1>6. /\ run'.at = "tarball" /\ run'.day = day /\ run'.now = t /\ run'.of = x /\ run' # Idle /\ Building'
      /\ run' \in Runs
  BY <1>4, <1>5 DEF Idle, Building, Runs, Steps
<1>7. TypeInv'
  BY <1>1, <1>6 DEF ExportsInv, TypeInv
<1>8. RunInv'
  <2>1. Within(x.to) /\ StopsAtNextDay(x.to, day)
    BY <1>3 DEF Within, StopsAtNextDay
  <2>2. Within(run.of.to)' /\ StopsAtNextDay(run.of.to, run.day)'
    BY <1>1, <1>6, <2>1 DEF Within, StopsAtNextDay
  <2>3. Reached(run.day)' /\ (saved.last < run.day)'
    BY <1>1, <1>6 DEF Reached
  <2>4. \A f \in Files : x.from[f] <= x.to[f]
    BY <1>3, <1>4
  <2>5. DayOf(run.now)' <= Today' /\ run'.day + 1 <= DayOf(run.now)'
    BY <1>1, <1>6 DEF Today, DayOf
  <2> QED
    BY <1>1, <1>4, <1>6, <2>2, <2>3, <2>4, <2>5 DEF RunInv
<1>9. OffsetInv'
  BY <1>1 DEF ExportsInv, OffsetInv, Within, StopsAtNextDay, Today
<1>10. WrittenInv' /\ UnsignedInv' /\ FinishedInv'
  BY <1>1, <1>6 DEF ExportsInv, WrittenInv, UnsignedInv, FinishedInv, Signed, Passes, VerifySignature, Published
<1>11. KeysInv'
  BY <1>1, <1>6 DEF ExportsInv, KeysInv, Signed, Reached
<1> QED
  BY <1>7, <1>8, <1>9, <1>10, <1>11 DEF ExportsInv

LEMMA RunBegins ==
  ASSUME ExportsInv, BeginRun \/ NextDay
  PROVE  ExportsInv'
<1>1. /\ saved.last \in Nat /\ DayOf(instant - ExportHour) \in Nat /\ instant \in Nat /\ Today \in Nat
      /\ \A i \in DOMAIN keys : keys[i].last \in Nat /\ Reached(keys[i].last)
  BY Clock, KeyEntries DEF ExportsInv, TypeInv, KeysInv
<1>2. CASE BeginRun
  <2>1. PICK day : day = FirstDue(instant)
    OBVIOUS
  <2>2. day > NoDay /\ Due(day, instant) /\ Build(day, instant)
    BY <1>2, <2>1 DEF BeginRun
  <2>3. CASE saved.last = NoDay
    <3>1. day = DayOf(instant - ExportHour) - 1
      BY <2>1, <2>3 DEF FirstDue
    <3>2. day \in Nat \ {0} /\ saved.last < day /\ Reached(day) /\ \A i \in DOMAIN keys : keys[i].last <= day
      BY <1>1, <2>2, <2>3, <3>1 DEF Reached, NoDay
    <3>3. day + 1 <= DayOf(instant) /\ DayOf(instant) <= Today
      BY <1>1, <2>2 DEF Due, Today
    <3> QED
      BY <1>1, <2>2, <3>2, <3>3, BuildExports
  <2>4. CASE saved.last # NoDay
    <3>1. day = saved.last + 1
      BY <2>1, <2>4 DEF FirstDue
    <3>2. day \in Nat \ {0} /\ saved.last < day /\ Reached(day) /\ \A i \in DOMAIN keys : keys[i].last <= day
      BY <1>1, <2>2, <2>4, <3>1 DEF Reached, NoDay
    <3>3. day + 1 <= DayOf(instant) /\ DayOf(instant) <= Today
      BY <1>1, <2>2 DEF Due, Today
    <3> QED
      BY <1>1, <2>2, <3>2, <3>3, BuildExports
  <2> QED
    BY <2>3, <2>4
<1>3. CASE NextDay
  <2>1. run.at = "next" /\ Due(run.day + 1, run.now) /\ Build(run.day + 1, run.now)
    BY <1>3 DEF NextDay
  <2>2. run \in Runs /\ run # Idle
    BY <2>1 DEF ExportsInv, TypeInv, Idle
  <2>3. run.day \in Nat \ {0} /\ run.now \in Nat /\ run.day = saved.last /\ DayOf(run.now) <= Today
    BY <2>1, <2>2 DEF ExportsInv, RunInv, Runs
  <2>4. PICK day, t : day = run.day + 1 /\ t = run.now
    OBVIOUS
  <2>5. day \in Nat \ {0} /\ saved.last < day /\ Reached(day) /\ \A i \in DOMAIN keys : keys[i].last <= day
    BY <1>1, <2>3, <2>4 DEF Reached, NoDay
  <2>6. day + 1 <= DayOf(t) /\ DayOf(t) <= Today /\ Build(day, t) /\ t \in Nat
    BY <2>1, <2>3, <2>4 DEF Due
  <2> QED
    BY <2>5, <2>6, BuildExports
<1> QED
  BY <1>2, <1>3

(* A run ends, by itself or by force; what it wrote stays. *)
LEMMA RunEnds ==
  ASSUME ExportsInv, EndRun \/ Interrupt \/ Restart
  PROVE  ExportsInv'
<1>1. /\ UNCHANGED <<instant, file, tar, side, sig, index, keys, saved, builds, finished>> /\ run' = Idle
      /\ key' = key \/ key' \in Keys
  BY DEF EndRun, Interrupt, Restart, record, exportDir
<1>2. ~Building' /\ run'.at = "idle"
  BY <1>1 DEF Building, Idle, Steps
<1>3. TypeInv'
  BY <1>1 DEF ExportsInv, TypeInv
<1>4. RunInv'
  BY <1>1 DEF RunInv
<1>5. OffsetInv'
  BY <1>1 DEF ExportsInv, OffsetInv, Within, StopsAtNextDay, Today
<1>6. UnsignedInv'
  BY <1>1, ExportsAssumption DEF ExportsInv, UnsignedInv, Signed, NoKey
<1>7. WrittenInv' /\ FinishedInv'
  BY <1>1, <1>2 DEF ExportsInv, WrittenInv, FinishedInv, Passes, VerifySignature, Published
<1>8. KeysInv'
  BY <1>1, <1>2 DEF ExportsInv, KeysInv, Signed, Reached
<1> QED
  BY <1>3, <1>4, <1>5, <1>6, <1>7, <1>8 DEF ExportsInv


(* A file of the build is put in its place and the build goes on. *)
LEMMA Running ==
  ASSUME ExportsInv, Building, NEW step \in Steps \cup {"next"}, Then(step)
  PROVE  /\ run \in Runs /\ run # Idle /\ run' \in Runs /\ run' # Idle
         /\ run'.at = step /\ run'.day = run.day /\ run'.now = run.now /\ run'.of = run.of
         /\ run.day \in Nat \ {0} /\ saved.last \in Nat /\ saved.last < run.day /\ run.day \notin finished
         /\ UNCHANGED <<instant, file, key, builds>>
<1>1. run' = [run EXCEPT !.at = step] /\ UNCHANGED <<instant, file, key, builds>>
  BY DEF Then, record
<1>2. run # Idle
  BY DEF Building, Idle, Steps
<1>3. run \in Runs
  BY <1>2 DEF ExportsInv, TypeInv
<1>4. /\ run' \in Runs /\ run'.at = step /\ run'.day = run.day /\ run'.now = run.now /\ run'.of = run.of
      /\ run.day \in Nat \ {0}
  BY <1>1, <1>3 DEF Runs
<1>5. run' # Idle
  BY <1>4 DEF Idle, Runs, Steps
<1>6. saved.last \in Nat /\ saved.last < run.day
  BY <1>2 DEF ExportsInv, RunInv, TypeInv
<1>7. run.day \notin finished
  BY <1>4, <1>6 DEF ExportsInv, OffsetInv
<1> QED
  BY <1>1, <1>2, <1>3, <1>4, <1>5, <1>6, <1>7

LEMMA OneFile ==
  ASSUME ExportsInv, Building, NEW step \in Steps, Then(step), UNCHANGED <<saved, finished>>, keys' \in Seq(Entries),
         \A d \in finished : d \in DOMAIN tar' /\ tar'[d] = tar[d]
  PROVE  TypeInv' /\ RunInv' /\ OffsetInv'
<1>1. /\ run \in Runs /\ run # Idle /\ run' \in Runs /\ run' # Idle
      /\ run'.at = step /\ run'.day = run.day /\ run'.now = run.now /\ run'.of = run.of
      /\ UNCHANGED <<instant, file, key, builds>>
  BY Running
<1>2. TypeInv'
  BY <1>1 DEF ExportsInv, TypeInv
<1>3. RunInv'
  <2>1. run'.at # "next"
    BY <1>1 DEF Steps
  <2> QED
    BY <1>1, <2>1 DEF ExportsInv, RunInv, Reached, Within, StopsAtNextDay, Today
<1>4. OffsetInv'
  BY <1>1 DEF ExportsInv, OffsetInv, Within, StopsAtNextDay, Today
<1> QED
  BY <1>2, <1>3, <1>4

LEMMA TarballExports ==
  ASSUME ExportsInv, PutTarball
  PROVE  ExportsInv'
<1>1. /\ run.at = "tarball" /\ Building /\ Then("sidecar") /\ tar' = Put(tar, run.day, run.of)
      /\ UNCHANGED <<side, sig, index, keys, saved, finished>> /\ "sidecar" \in Steps
  BY DEF PutTarball, Building, Steps
<1>2. /\ run'.at = "sidecar" /\ run'.day = run.day /\ run'.of = run.of /\ run.day \notin finished
      /\ UNCHANGED <<instant, file, key, builds>> /\ Building'
  BY <1>1, Running DEF Building
<1>3. /\ DOMAIN tar' = DOMAIN tar \cup {run.day} /\ tar'[run.day] = run.of
      /\ \A d \in DOMAIN tar : d # run.day => tar'[d] = tar[d]
  BY <1>1 DEF Put
<1>4. \A d \in finished : d \in DOMAIN tar' /\ tar'[d] = tar[d]
  BY <1>2, <1>3 DEF ExportsInv, OffsetInv
<1>5. TypeInv' /\ RunInv' /\ OffsetInv'
  <2>1. keys' \in Seq(Entries)
    BY <1>1 DEF ExportsInv, TypeInv
  <2> QED
    BY <1>1, <1>4, <2>1, OneFile
<1>6. WrittenInv' /\ UnsignedInv'
  BY <1>1, <1>2, <1>3 DEF ExportsInv, WrittenInv, UnsignedInv, Signed
<1>7. FinishedInv'
  BY <1>1, <1>4 DEF ExportsInv, FinishedInv, Passes, VerifySignature, Published
<1>8. KeysInv'
  BY <1>1, <1>2, <1>3 DEF ExportsInv, KeysInv, Signed, Reached
<1> QED
  BY <1>5, <1>6, <1>7, <1>8 DEF ExportsInv

LEMMA SidecarExports ==
  ASSUME ExportsInv, PutSidecar
  PROVE  ExportsInv'
<1> DEFINE step == IF key = NoKey THEN "index" ELSE "key"
<1>1. /\ run.at = "sidecar" /\ Building /\ Then(step) /\ side' = Put(side, run.day, run.of)
      /\ UNCHANGED <<tar, sig, index, keys, saved, finished>> /\ step \in Steps
  BY DEF PutSidecar, Building, Steps
<1>2. /\ run'.at = step /\ run'.day = run.day /\ run'.of = run.of /\ run.day \notin finished
      /\ UNCHANGED <<instant, file, key, builds>> /\ Building'
  BY <1>1, Running DEF Building
<1>3. /\ DOMAIN side' = DOMAIN side \cup {run.day} /\ side'[run.day] = run.of
      /\ \A d \in DOMAIN side : d # run.day => side'[d] = side[d]
  BY <1>1 DEF Put
<1>4. \A d \in finished : d \in DOMAIN tar' /\ tar'[d] = tar[d]
  BY <1>1 DEF ExportsInv, OffsetInv
<1>5. TypeInv' /\ RunInv' /\ OffsetInv'
  <2>1. keys' \in Seq(Entries)
    BY <1>1 DEF ExportsInv, TypeInv
  <2> QED
    BY <1>1, <1>4, <2>1, OneFile
<1>6. WrittenInv' /\ UnsignedInv'
  BY <1>1, <1>2, <1>3 DEF ExportsInv, WrittenInv, UnsignedInv, Signed
<1>7. FinishedInv'
  BY <1>1, <1>2, <1>3 DEF ExportsInv, FinishedInv, Passes, VerifySignature, Published
<1>8. KeysInv'
  BY <1>1, <1>2 DEF ExportsInv, KeysInv, Signed, Reached
<1> QED
  BY <1>5, <1>6, <1>7, <1>8 DEF ExportsInv

LEMMA SignatureExports ==
  ASSUME ExportsInv, PutSignature
  PROVE  ExportsInv'
<1>1. /\ run.at = "signature" /\ Building /\ Then("index") /\ sig' = Put(sig, run.day, [of |-> run.of, key |-> key])
      /\ UNCHANGED <<tar, side, index, keys, saved, finished>> /\ "index" \in Steps
  BY DEF PutSignature, Building, Steps
<1>2. /\ run'.at = "index" /\ run'.day = run.day /\ run'.of = run.of /\ run.day \notin finished
      /\ UNCHANGED <<instant, file, key, builds>> /\ Building'
  BY <1>1, Running DEF Building
<1>3. /\ DOMAIN sig' = DOMAIN sig \cup {run.day} /\ sig'[run.day] = [of |-> run.of, key |-> key]
      /\ \A d \in DOMAIN sig : d # run.day => sig'[d] = sig[d]
  BY <1>1 DEF Put
<1>4. \A d \in finished : d \in DOMAIN tar' /\ tar'[d] = tar[d]
  BY <1>1 DEF ExportsInv, OffsetInv
<1>5. TypeInv' /\ RunInv' /\ OffsetInv'
  <2>1. keys' \in Seq(Entries)
    BY <1>1 DEF ExportsInv, TypeInv
  <2> QED
    BY <1>1, <1>4, <2>1, OneFile
<1>6. key # NoKey
  BY <1>1 DEF ExportsInv, WrittenInv
<1>7. WrittenInv' /\ UnsignedInv'
  BY <1>1, <1>2, <1>3, <1>6 DEF ExportsInv, WrittenInv, UnsignedInv, Signed
<1>8. FinishedInv'
  BY <1>1, <1>2, <1>3 DEF ExportsInv, FinishedInv, Passes, VerifySignature, Published
<1>9. KeysInv'
  BY <1>1, <1>2 DEF ExportsInv, KeysInv, Signed, Reached
<1> QED
  BY <1>5, <1>7, <1>8, <1>9 DEF ExportsInv


(* The key that signs is in the list, for the day it signs, and no entry   *)
(* is of a later day.                                                      *)
LEMMA WidenedIs ==
  ASSUME ExportsInv, run.at = "key", NEW w, w = Widened
  PROVE  /\ w \in Seq(Entries)
         /\ \A i \in DOMAIN keys : i \in DOMAIN w /\ w[i].key = keys[i].key /\ keys[i].last <= w[i].last
         /\ \A i \in DOMAIN w : w[i].last <= run.day /\ (w[i].last = run.day \/ (i \in DOMAIN keys /\ w[i] = keys[i]))
         /\ \E i \in DOMAIN w : w[i].key = key /\ w[i].last = run.day
<1>1. /\ Building /\ run # Idle
  BY DEF Building, Steps, Idle
<1>2. run.day \in Nat /\ key \in Keys /\ keys \in Seq(Entries)
  BY <1>1, ExportsAssumption DEF ExportsInv, TypeInv, WrittenInv, Runs
<1>3. /\ Len(keys) \in Nat /\ DOMAIN keys = 1 .. Len(keys)
      /\ \A i \in DOMAIN keys : keys[i] \in Entries /\ keys[i].last \in Nat /\ keys[i].key \in Keys /\ keys[i].last <= run.day
  BY <1>1, KeyEntries DEF ExportsInv, KeysInv
<1>4. CASE \E i \in DOMAIN keys : keys[i].key = key
  <2>1. w = [i \in DOMAIN keys |->
               IF keys[i].key = key /\ keys[i].last < run.day THEN [keys[i] EXCEPT !.last = run.day] ELSE keys[i]]
    BY <1>4 DEF Widened
  <2>2. ASSUME NEW i \in DOMAIN keys
        PROVE  /\ w[i] \in Entries /\ w[i].key = keys[i].key /\ keys[i].last <= w[i].last /\ w[i].last <= run.day
               /\ w[i].last = run.day \/ w[i] = keys[i]
               /\ keys[i].key = key => w[i].last = run.day
    <3>1. CASE keys[i].key = key /\ keys[i].last < run.day
      <4>1. w[i] = [keys[i] EXCEPT !.last = run.day]
        BY <2>1, <3>1
      <4> QED
        BY <1>2, <1>3, <3>1, <4>1 DEF Entries
    <3>2. CASE ~(keys[i].key = key /\ keys[i].last < run.day)
      <4>1. w[i] = keys[i]
        BY <2>1, <3>2
      <4> QED
        BY <1>2, <1>3, <3>2, <4>1
    <3> QED
      BY <3>1, <3>2
  <2>3. DOMAIN w = DOMAIN keys
    BY <2>1
  <2>4. w \in Seq(Entries)
    <3>1. w \in [1 .. Len(keys) -> Entries]
      <4>1. w = [i \in DOMAIN w |-> w[i]]
        BY <2>1
      <4> QED
        BY <1>3, <2>2, <2>3, <4>1
    <3> QED
      BY <1>3, <3>1, SeqDef
  <2> QED
    BY <1>4, <2>2, <2>3, <2>4
<1>5. CASE ~(\E i \in DOMAIN keys : keys[i].key = key)
  <2> DEFINE e == [key |-> key, last |-> run.day]
  <2>1. e \in Entries /\ e.key = key /\ e.last = run.day
    BY <1>2 DEF Entries
  <2>2. w = keys \o <<e>>
    BY <1>5 DEF Widened
  <2> HIDE DEF e
  <2>3. w = Append(keys, e)
    BY <1>2, <2>1, <2>2, AppendIsConcat
  <2>4. /\ w \in Seq(Entries) /\ Len(w) = Len(keys) + 1 /\ w[Len(keys) + 1] = e
        /\ \A i \in 1 .. Len(keys) : w[i] = keys[i]
    BY <1>2, <2>1, <2>3, AppendProperties
  <2>5. DOMAIN w = 1 .. Len(keys) + 1
    BY <2>4, LenProperties
  <2> QED
    BY <1>2, <1>3, <2>1, <2>4, <2>5
<1> QED
  BY <1>4, <1>5

LEMMA KeyExports ==
  ASSUME ExportsInv, RecordKey
  PROVE  ExportsInv'
<1>1. /\ run.at = "key" /\ Building /\ Then("signature") /\ UNCHANGED <<tar, side, sig, index, saved, finished>>
      /\ "signature" \in Steps
  BY DEF RecordKey, Building, Steps
<1>2. /\ run'.at = "signature" /\ run'.day = run.day /\ run'.of = run.of /\ run.day \notin finished /\ run.day \in Nat
      /\ UNCHANGED <<instant, file, key, builds>> /\ Building' /\ run # Idle /\ key # NoKey
  BY <1>1, Running DEF Building, ExportsInv, WrittenInv
<1>3. PICK w : w = Widened
  OBVIOUS
<1>4. PICK place \in Bijection(DOMAIN w, DOMAIN w) : Sorts(place, w) /\ keys' = [i \in DOMAIN w |-> w[place[i]]]
  BY <1>3 DEF RecordKey
<1>5. /\ w \in Seq(Entries)
      /\ \A i \in DOMAIN keys : i \in DOMAIN w /\ w[i].key = keys[i].key /\ keys[i].last <= w[i].last
      /\ \A i \in DOMAIN w : w[i].last <= run.day /\ (w[i].last = run.day \/ (i \in DOMAIN keys /\ w[i] = keys[i]))
  BY <1>1, <1>3, WidenedIs
<1>6. PICK mine \in DOMAIN w : w[mine].key = key /\ w[mine].last = run.day
  BY <1>1, <1>3, WidenedIs
<1>7. Len(w) \in Nat /\ DOMAIN w = 1 .. Len(w) /\ \A i \in DOMAIN w : w[i] \in Entries /\ w[i].last \in Nat
  <2>1. Len(w) \in Nat /\ DOMAIN w = 1 .. Len(w) /\ \A i \in 1 .. Len(w) : w[i] \in Entries
    BY <1>5, LenProperties, ElementOfSeq
  <2> QED
    BY <2>1 DEF Entries
<1>8. /\ \A i \in DOMAIN w : place[i] \in DOMAIN w /\ keys'[i] = w[place[i]]
      /\ \A j \in DOMAIN w : \E i \in DOMAIN w : place[i] = j
      /\ DOMAIN keys' = DOMAIN w
  <2>1. place \in [DOMAIN w -> DOMAIN w] /\ \A j \in DOMAIN w : \E i \in DOMAIN w : place[i] = j
    BY <1>4 DEF Bijection, Surjection, Injection
  <2> QED
    BY <1>4, <2>1
<1>9. keys' \in Seq(Entries)
  <2>1. keys' \in [1 .. Len(w) -> Entries]
    BY <1>4, <1>7, <1>8
  <2> QED
    BY <1>7, <2>1, SeqDef
<1>10. 1 \in DOMAIN w /\ keys'[1].key = key /\ keys'[1].last = run.day
  <2>1. 1 \in DOMAIN w
    BY <1>6, <1>7
  <2>2. PICK i \in DOMAIN w : place[i] = mine
    BY <1>6, <1>8
  <2>3. CASE i = 1
    BY <1>6, <1>8, <2>1, <2>2, <2>3
  <2>4. CASE i # 1
    <3>1. 1 < i /\ i \in DOMAIN w
      BY <1>7, <2>4
    <3>2. PICK first \in DOMAIN w : keys'[1] = w[first] /\ first = place[1]
      BY <1>8, <2>1
    <3>3. ~Newer(w[mine], w[first])
      BY <1>4, <1>8, <2>1, <2>2, <3>1, <3>2 DEF Sorts
    <3>4. w[first].last <= run.day /\ w[first].last \in Nat /\ w[mine].last \in Nat
      BY <1>5, <1>7
    <3>5. ~(run.day > w[first].last) /\ ~(run.day = w[first].last /\ w[first].key # key)
      BY <1>6, <3>3 DEF Newer
    <3>6. w[first].last = run.day
      BY <1>2, <3>4, <3>5
    <3> QED
      BY <2>1, <3>2, <3>5, <3>6
  <2> QED
    BY <2>3, <2>4
<1>11. ASSUME NEW d, NEW i \in DOMAIN keys, d \in Nat, d <= keys[i].last
       PROVE  \E j \in DOMAIN keys' : keys'[j].key = keys[i].key /\ d <= keys'[j].last
  <2>1. i \in DOMAIN w /\ w[i].key = keys[i].key /\ d <= w[i].last
    <3>1. keys[i].last \in Nat
      BY KeyEntries DEF ExportsInv
    <3> QED
      BY <1>5, <1>7, <1>11, <3>1
  <2>2. PICK j \in DOMAIN w : place[j] = i
    BY <1>8, <2>1
  <2> QED
    BY <1>8, <2>1, <2>2
<1>12. \A d \in finished : d \in DOMAIN tar' /\ tar'[d] = tar[d]
  BY <1>1 DEF ExportsInv, OffsetInv
<1>13. TypeInv' /\ RunInv' /\ OffsetInv'
  BY <1>1, <1>9, <1>12, OneFile
<1>14. WrittenInv' /\ UnsignedInv'
  BY <1>1, <1>2, <1>8, <1>10 DEF ExportsInv, WrittenInv, UnsignedInv, Signed
<1>15. FinishedInv'
  <2>1. \A k : Published(k) => Published(k)'
    <3> SUFFICES ASSUME NEW i \in DOMAIN keys PROVE \E j \in DOMAIN keys' : keys'[j].key = keys[i].key
      BY DEF Published
    <3>1. keys[i].last \in Nat /\ keys[i].last <= keys[i].last
      BY KeyEntries DEF ExportsInv
    <3> QED
      BY <1>11, <3>1
  <2> QED
    BY <1>1, <2>1 DEF ExportsInv, FinishedInv, Passes, VerifySignature
<1>16. KeysInv'
  <2>1. \A d : Reached(d) => Reached(d)'
    BY <1>1, <1>2 DEF Reached
  <2>2. ASSUME NEW i \in DOMAIN keys', NEW d, d = keys'[i].last
        PROVE  d <= keys'[1].last /\ Reached(d)' /\ d <= run'.day
    <3>1. place[i] \in DOMAIN w /\ keys'[i] = w[place[i]]
      BY <1>8, <2>2
    <3>2. d <= run.day /\ (d = run.day \/ (place[i] \in DOMAIN keys /\ d = keys[place[i]].last))
      BY <1>5, <2>2, <3>1
    <3>3. Reached(run.day) /\ \A j \in DOMAIN keys : Reached(keys[j].last)
      BY <1>1, <1>2 DEF ExportsInv, RunInv, KeysInv
    <3>4. Reached(d)
      BY <3>2, <3>3
    <3> QED
      BY <1>2, <1>10, <2>1, <3>2, <3>4
  <2>3. \A d \in Signed' : \E j \in DOMAIN keys' : keys'[j].key = index'[d].key /\ d <= keys'[j].last
    <3>1. Signed' = Signed /\ index' = index /\ Signed \subseteq Nat
      BY <1>1 DEF Signed, ExportsInv, KeysInv
    <3> QED
      BY <1>11, <3>1 DEF ExportsInv, KeysInv
  <2>4. keys'[1].last \in DOMAIN tar' /\ keys'[1].last \notin finished'
    BY <1>1, <1>2, <1>10 DEF ExportsInv, WrittenInv
  <2> QED
    <3>1. \A i \in DOMAIN keys' : keys'[i].last <= keys'[1].last /\ Reached(keys[i].last)' /\ keys'[i].last <= run'.day
      <4> SUFFICES ASSUME NEW i \in DOMAIN keys'
                   PROVE  keys'[i].last <= keys'[1].last /\ Reached(keys[i].last)' /\ keys'[i].last <= run'.day
        OBVIOUS
      <4>1. PICK d : d = keys'[i].last
        OBVIOUS
      <4> QED
        BY <2>2, <4>1 DEF Reached
    <3>2. DOMAIN index' \subseteq Nat
      BY <1>1 DEF ExportsInv, KeysInv
    <3> QED
      BY <2>3, <2>4, <3>1, <3>2 DEF KeysInv
<1> QED
  BY <1>13, <1>14, <1>15, <1>16 DEF ExportsInv


LEMMA IndexExports ==
  ASSUME ExportsInv, PutIndex
  PROVE  ExportsInv'
<1>1. /\ run.at = "index" /\ Building /\ Then("state") /\ index' = Put(index, run.day, [of |-> run.of, key |-> key])
      /\ UNCHANGED <<tar, side, sig, keys, saved, finished>> /\ "state" \in Steps
  BY DEF PutIndex, Building, Steps
<1>2. /\ run'.at = "state" /\ run'.day = run.day /\ run'.of = run.of /\ run.day \notin finished /\ run.day \in Nat
      /\ UNCHANGED <<instant, file, key, builds>> /\ Building'
  BY <1>1, Running DEF Building
<1>3. /\ DOMAIN index' = DOMAIN index \cup {run.day}
      /\ index'[run.day] = [of |-> run.of, key |-> key] /\ index'[run.day].key = key
      /\ \A d \in DOMAIN index : d # run.day => index'[d] = index[d]
  BY <1>1 DEF Put
<1>4. \A d \in finished : d \in DOMAIN tar' /\ tar'[d] = tar[d]
  BY <1>1 DEF ExportsInv, OffsetInv
<1>5. TypeInv' /\ RunInv' /\ OffsetInv'
  <2>1. keys' \in Seq(Entries)
    BY <1>1 DEF ExportsInv, TypeInv
  <2> QED
    BY <1>1, <1>4, <2>1, OneFile
<1>6. \A d \in Signed' : (d \in Signed /\ d # run.day /\ index'[d] = index[d]) \/ (d = run.day /\ key # NoKey)
  <2> SUFFICES ASSUME NEW d \in Signed'
               PROVE  (d \in Signed /\ d # run.day /\ index'[d] = index[d]) \/ (d = run.day /\ key # NoKey)
    OBVIOUS
  <2>1. d \in DOMAIN index' /\ index'[d].key # NoKey
    BY DEF Signed
  <2>2. CASE d = run.day
    BY <1>3, <2>1, <2>2
  <2>3. CASE d # run.day
    BY <1>3, <2>1, <2>3 DEF Signed
  <2> QED
    BY <2>2, <2>3
<1>7. WrittenInv'
  BY <1>1, <1>2, <1>3 DEF ExportsInv, WrittenInv
<1>8. UnsignedInv'
  BY <1>1, <1>2, <1>6 DEF ExportsInv, UnsignedInv
<1>9. FinishedInv'
  BY <1>1, <1>2, <1>3 DEF ExportsInv, FinishedInv, Passes, VerifySignature, Published
<1>10. KeysInv'
  <2>1. \A d \in Signed' : \E i \in DOMAIN keys : keys[i].key = index'[d].key /\ d <= keys[i].last
    <3>1. key # NoKey => 1 \in DOMAIN keys /\ keys[1].key = key /\ keys[1].last = run.day
      BY <1>1 DEF ExportsInv, WrittenInv
    <3> SUFFICES ASSUME NEW d \in Signed' PROVE \E i \in DOMAIN keys : keys[i].key = index'[d].key /\ d <= keys[i].last
      OBVIOUS
    <3>2. CASE d \in Signed /\ index'[d] = index[d]
      BY <3>2 DEF ExportsInv, KeysInv
    <3>3. CASE d = run.day /\ key # NoKey
      BY <1>2, <1>3, <3>1, <3>3
    <3> QED
      BY <1>6, <3>2, <3>3
  <2> QED
    BY <1>1, <1>2, <1>3, <2>1 DEF ExportsInv, KeysInv, Reached
<1> QED
  BY <1>5, <1>7, <1>8, <1>9, <1>10 DEF ExportsInv

(* The state is saved, and with it the day is finished.                    *)
LEMMA SaveExports ==
  ASSUME ExportsInv, SaveState
  PROVE  ExportsInv'
<1>1. /\ run.at = "state" /\ Building /\ Then("next") /\ saved' = [last |-> run.day, offsets |-> run.of.to]
      /\ finished' = finished \cup {run.day} /\ UNCHANGED <<tar, side, sig, index, keys>>
  BY DEF SaveState, Building, Steps
<1>2. /\ run \in Runs /\ run # Idle /\ run' \in Runs
      /\ run'.at = "next" /\ run'.day = run.day /\ run'.now = run.now /\ run'.of = run.of
      /\ run.day \in Nat \ {0} /\ saved.last \in Nat /\ saved.last < run.day /\ run.day \notin finished
      /\ UNCHANGED <<instant, file, key, builds>> /\ ~Building'
  BY <1>1, Running DEF Building, Steps
<1>3. saved'.last = run.day /\ saved'.offsets = run.of.to /\ run.of.to \in Bounds /\ run.of.from = saved.offsets /\ saved.offsets \in Bounds
  <2>1. run.of.to \in Bounds
    BY <1>2 DEF Runs, Tarballs
  <2> QED
    BY <1>1, <1>2, <2>1 DEF ExportsInv, RunInv, TypeInv
<1>4. TypeInv'
  BY <1>1, <1>2, <1>3 DEF ExportsInv, TypeInv
<1>5. Today' = Today /\ DayOf(run.now) \in Nat /\ Today \in Nat /\ run.day + 1 <= DayOf(run.now) /\ DayOf(run.now) <= Today
  <2>1. DayOf(run.now) \in Nat
    <3>1. run.now \in Nat
      BY <1>2 DEF Runs
    <3> QED
      BY <3>1, DayMonotone
  <2>2. Today \in Nat
    BY Clock DEF ExportsInv
  <2> QED
    BY <1>1, <1>2, <2>1, <2>2 DEF ExportsInv, RunInv, Today
<1>6. RunInv'
  BY <1>2, <1>3, <1>5 DEF RunInv
<1>7. /\ run.day \in DOMAIN tar /\ tar[run.day] = run.of
      /\ \A f \in Files : run.of.from[f] <= run.of.to[f] /\ run.of.from[f] \in Nat /\ run.of.to[f] \in Nat
  BY <1>1, <1>2, <1>3 DEF ExportsInv, WrittenInv, RunInv, Bounds
<1>8. OffsetInv'
  <2>1. (saved.last < Today)'
    BY <1>2, <1>3, <1>5
  <2>2. Within(saved.offsets)' /\ StopsAtNextDay(saved.offsets, saved.last)'
    <3>1. Within(run.of.to) /\ StopsAtNextDay(run.of.to, run.day)
      BY <1>1, <1>2 DEF ExportsInv, RunInv
    <3> QED
      BY <1>2, <1>3, <3>1 DEF Within, StopsAtNextDay
  <2>3. saved'.last # NoDay
    BY <1>2, <1>3 DEF NoDay
  <2>4. finished' \subseteq 1 .. saved'.last /\ finished' \subseteq DOMAIN tar'
    <3>1. finished \subseteq 1 .. saved.last /\ finished \subseteq DOMAIN tar
      BY DEF ExportsInv, OffsetInv
    <3>2. saved.last \in Nat /\ run.day \in Nat /\ 1 <= run.day /\ saved.last <= run.day
      BY <1>2
    <3>3. run.day \in 1 .. run.day /\ 1 .. saved.last \subseteq 1 .. run.day
      BY <3>2
    <3>4. finished' \subseteq 1 .. saved'.last
      BY <1>1, <1>3, <3>1, <3>3
    <3>5. finished' \subseteq DOMAIN tar'
      BY <1>1, <1>7, <3>1
    <3> QED
      BY <3>4, <3>5
  <2>5. ASSUME NEW d \in finished, NEW f \in Files
        PROVE  tar[d].from[f] \in Nat /\ tar[d].to[f] \in Nat /\ tar[d].to[f] <= run.of.from[f]
    BY <1>3 DEF ExportsInv, OffsetInv
  <2>6. ASSUME NEW d \in finished', NEW f \in Files
        PROVE  tar'[d].from[f] \in Nat /\ tar'[d].to[f] \in Nat /\ tar'[d].to[f] <= saved'.offsets[f]
    <3>1. CASE d \in finished
      BY <1>1, <1>3, <1>7, <2>5, <3>1
    <3>2. CASE d = run.day
      BY <1>1, <1>3, <1>7, <3>2
    <3> QED
      BY <1>1, <3>1, <3>2
  <2>7. ASSUME NEW d \in finished', NEW e \in finished', NEW f \in Files, d < e
        PROVE  tar'[d].to[f] <= tar'[e].from[f]
    <3>1. CASE d \in finished /\ e \in finished
      BY <1>1, <2>7, <3>1 DEF ExportsInv, OffsetInv
    <3>2. CASE d \in finished /\ e = run.day
      BY <1>1, <1>7, <2>5, <3>2
    <3>3. CASE d = run.day
      <4>1. e \in Nat /\ e <= run.day
        BY <1>2, <1>3, <2>4
      <4> QED
        BY <1>2, <2>7, <3>3, <4>1
    <3> QED
      BY <1>1, <3>1, <3>2, <3>3
  <2>8. ASSUME NEW f \in Files, NEW i \in 1 .. saved'.offsets[f]
        PROVE  \E d \in finished' : tar'[d].from[f] < i /\ i <= tar'[d].to[f]
    <3>1. CASE i <= run.of.from[f]
      <4>1. i \in 1 .. saved.offsets[f]
        BY <1>3, <1>7, <3>1
      <4>2. PICK d \in finished : tar[d].from[f] < i /\ i <= tar[d].to[f]
        BY <4>1 DEF ExportsInv, OffsetInv
      <4> QED
        BY <1>1, <4>2
    <3>2. CASE ~(i <= run.of.from[f])
      <4>1. run.of.from[f] < i /\ i <= run.of.to[f]
        BY <1>3, <1>7, <3>2
      <4> QED
        BY <1>1, <1>7, <4>1
    <3> QED
      BY <3>1, <3>2
  <2> QED
    BY <2>1, <2>2, <2>3, <2>4, <2>6, <2>7, <2>8 DEF OffsetInv
<1>9. WrittenInv' /\ UnsignedInv'
  BY <1>1, <1>2 DEF ExportsInv, WrittenInv, UnsignedInv, Signed
<1>10. key = NoKey => DOMAIN sig = {} /\ DOMAIN keys = {}
  BY DEF ExportsInv, UnsignedInv
<1>11. /\ key # NoKey => /\ 1 \in DOMAIN keys /\ keys[1].key = key /\ keys[1].last = run.day
                         /\ run.day \in DOMAIN sig /\ sig[run.day] = [of |-> run.of, key |-> key]
       /\ run.day \in DOMAIN side /\ side[run.day] = run.of
       /\ run.day \in DOMAIN index /\ index[run.day] = [of |-> run.of, key |-> key]
  BY <1>1 DEF ExportsInv, WrittenInv
<1>12. FinishedInv'
  <2>1. ASSUME NEW d \in finished' PROVE d \in DOMAIN side /\ d \in DOMAIN index /\ Passes(d)
    <3>1. CASE d \in finished
      BY <3>1 DEF ExportsInv, FinishedInv
    <3>2. CASE d = run.day
      <4>1. key # NoKey => Published(key)
        BY <1>11 DEF Published
      <4>2. index[d].of = run.of /\ index[d].key = key /\ (key # NoKey => sig[d].of = run.of /\ sig[d].key = key)
        BY <1>11, <3>2
      <4> QED
        BY <1>7, <1>10, <1>11, <3>2, <4>1, <4>2 DEF Passes, VerifySignature
    <3> QED
      BY <1>1, <3>1, <3>2
  <2> QED
    BY <1>1, <2>1 DEF FinishedInv, Passes, VerifySignature, Published
<1>13. KeysInv'
  <2>1. \A i \in DOMAIN keys : keys[i].last <= run.day /\ keys[i].last \in Nat
    BY <1>1, KeyEntries DEF ExportsInv, KeysInv
  <2>2. \A i \in DOMAIN keys : Reached(keys[i].last)'
    BY <1>1, <1>2, <1>3, <2>1 DEF Reached, NoDay
  <2>3. DOMAIN keys # {} => keys[1].last \in DOMAIN tar /\ (keys[1].last \in finished' => keys[1].last \in DOMAIN index /\ index[keys[1].last].key = keys[1].key)
    <3>1. SUFFICES ASSUME DOMAIN keys # {}, keys[1].last \in finished'
                   PROVE  keys[1].last \in DOMAIN index /\ index[keys[1].last].key = keys[1].key
      BY DEF ExportsInv, KeysInv
    <3>2. CASE keys[1].last = run.day
      BY <1>10, <1>11, <3>1, <3>2
    <3>3. CASE keys[1].last \in finished
      BY <3>1, <3>3 DEF ExportsInv, KeysInv
    <3> QED
      BY <1>1, <3>1, <3>2, <3>3
  <2>4. Signed' = Signed
    BY <1>1 DEF Signed
  <2> QED
    BY <1>1, <1>2, <2>2, <2>3, <2>4 DEF ExportsInv, KeysInv
<1> QED
  BY <1>4, <1>6, <1>8, <1>9, <1>12, <1>13 DEF ExportsInv


LEMMA ExportsInvKept ==
  ASSUME ExportsInv, [Next]_exportVars
  PROVE  ExportsInv'
<1>1. CASE Tick
  BY <1>1, TickExports
<1>2. ASSUME NEW f \in Files, AppendLine(f) PROVE ExportsInv'
  BY <1>2, AppendExports
<1>3. CASE BeginRun \/ NextDay
  BY <1>3, RunBegins
<1>4. CASE EndRun \/ Interrupt \/ Restart
  BY <1>4, RunEnds
<1>5. CASE PutTarball \/ PutSidecar
  BY <1>5, TarballExports, SidecarExports
<1>6. CASE RecordKey
  BY <1>6, KeyExports
<1>7. CASE PutSignature \/ PutIndex
  BY <1>7, SignatureExports, IndexExports
<1>8. CASE SaveState
  BY <1>8, SaveExports
<1>9. CASE UNCHANGED exportVars
  BY <1>9 DEF exportVars, record, exportDir, ExportsInv, TypeInv, RunInv, Building, Today, Reached,
    Within, StopsAtNextDay, OffsetInv, WrittenInv, UnsignedInv, Signed, FinishedInv, Passes,
    VerifySignature, Published, KeysInv
<1> QED
  BY <1>1, <1>2, <1>3, <1>4, <1>5, <1>6, <1>7, <1>8, <1>9 DEF Next

(* What record, exports directory, build under way and keys have in common *)
(* in every state that builds, interruptions and key changes can reach     *)
(* (export.go, sign.go).                                                   *)
THEOREM ExportsInvariant == Spec => []ExportsInv
<1>1. ExportsInv /\ [Next]_exportVars => ExportsInv'
  BY ExportsInvKept
<1> QED
  BY <1>1, InitExports, PTL DEF Spec

-----------------------------------------------------------------------------
(* The results. *)

(* Every line the exports have read is in exactly one finished export and  *)
(* no line behind is in any, for every record and however often builds     *)
(* were interrupted (export.go: collect, and the state that is saved last).*)
THEOREM ExactlyOneAlways == Spec => []ExactlyOneExport
<1>1. ExportsInv => ExactlyOneExport
  <2> SUFFICES ASSUME ExportsInv, NEW f \in Files, NEW i \in 1 .. Capacity[f]
               PROVE  Cardinality({d \in finished : tar[d].from[f] < i /\ i <= tar[d].to[f]})
                        = (IF i <= saved.offsets[f] THEN 1 ELSE 0)
    BY DEF ExactlyOneExport
  <2> DEFINE having == {d \in finished : tar[d].from[f] < i /\ i <= tar[d].to[f]}
  <2>1. i \in Nat /\ 1 <= i /\ saved.offsets[f] \in Nat /\ finished \subseteq Nat
    BY ExportsAssumption DEF ExportsInv, TypeInv, Bounds
  <2>2. \A d \in finished : tar[d].from[f] \in Nat /\ tar[d].to[f] \in Nat /\ tar[d].to[f] <= saved.offsets[f]
    BY DEF ExportsInv, OffsetInv
  <2>3. CASE i <= saved.offsets[f]
    <3>1. PICK d \in finished : tar[d].from[f] < i /\ i <= tar[d].to[f]
      <4>1. i \in 1 .. saved.offsets[f]
        BY <2>1, <2>3
      <4> QED
        BY <4>1 DEF ExportsInv, OffsetInv
    <3>2. ASSUME NEW e \in having PROVE e = d
      <4>1. e \in finished /\ tar[e].from[f] < i /\ i <= tar[e].to[f]
        OBVIOUS
      <4>2. (d < e => tar[d].to[f] <= tar[e].from[f]) /\ (e < d => tar[e].to[f] <= tar[d].from[f])
        BY <4>1 DEF ExportsInv, OffsetInv
      <4>3. /\ tar[d].from[f] \in Nat /\ tar[d].to[f] \in Nat /\ tar[e].from[f] \in Nat /\ tar[e].to[f] \in Nat
            /\ d \in Nat /\ e \in Nat
        BY <2>1, <2>2, <3>1, <4>1
      <4>4. ~(tar[d].to[f] <= tar[e].from[f]) /\ ~(tar[e].to[f] <= tar[d].from[f])
        BY <2>1, <3>1, <4>1, <4>3
      <4> QED
        BY <4>2, <4>3, <4>4
    <3>3. having = {d}
      BY <3>1, <3>2
    <3>4. Cardinality(having) = 1
      BY <3>3, FS_Singleton
    <3> QED
      BY <2>3, <3>4
  <2>4. CASE ~(i <= saved.offsets[f])
    <3>1. ASSUME NEW d \in having PROVE FALSE
      <4>1. d \in finished /\ i <= tar[d].to[f]
        OBVIOUS
      <4>2. tar[d].to[f] \in Nat /\ tar[d].to[f] <= saved.offsets[f]
        BY <2>2, <4>1
      <4> QED
        BY <2>1, <2>4, <4>1, <4>2
    <3>2. Cardinality(having) = 0
      <4>1. having = {}
        BY <3>1
      <4> QED
        BY <4>1, FS_EmptySet
    <3> QED
      BY <2>4, <3>2
  <2> QED
    BY <2>3, <2>4
<1> QED
  BY <1>1, ExportsInvariant, PTL

(* The line a finished export stopped at is dated the very next day, so    *)
(* the next export takes it, by however many days clocks ran ahead         *)
(* (export.go, collect).                                                   *)
THEOREM NoLineStuckEver == Spec => []NoLineIsStuck
<1>1. ExportsInv => NoLineIsStuck
  BY DEF ExportsInv, OffsetInv, StopsAtNextDay, NoLineIsStuck
<1> QED
  BY <1>1, ExportsInvariant, PTL

(* Every finished export verifies and the index never names a key that is  *)
(* not published, whichever keys signed and at whatever step builds were   *)
(* interrupted (export.go, build; sign.go, recordSigningKey).              *)
THEOREM ExportsVerifyAlways == Spec => []ExportsVerify
<1>1. ExportsInv => ExportsVerify
  <2> SUFFICES ASSUME ExportsInv PROVE ExportsVerify
    OBVIOUS
  <2>1. \A d \in finished : Passes(d)
    BY DEF ExportsInv, FinishedInv
  <2>2. ASSUME NEW d \in DOMAIN index, index[d].key # NoKey PROVE Published(index[d].key)
    <3>1. d \in Signed
      BY <2>2 DEF Signed
    <3> QED
      BY <3>1 DEF ExportsInv, KeysInv, Published
  <2> QED
    BY <2>1, <2>2 DEF ExportsVerify
<1> QED
  BY <1>1, ExportsInvariant, PTL

(* While no build is unfinished, the key listed first is the one that      *)
(* signed the newest signed export, across any number of rotations and     *)
(* rebuilds (sign.go, recordSigningKey; exports_signing.go).               *)
THEOREM CurrentKeyAlways == Spec => []CurrentKeySignedNewest
<1>1. ExportsInv => CurrentKeySignedNewest
  <2> SUFFICES ASSUME ExportsInv, Signed # {}, \A d \in DOMAIN tar : d \in finished
               PROVE  Current = index[CHOOSE d \in Signed : \A e \in Signed : e <= d].key
    BY DEF CurrentKeySignedNewest
  <2>1. DOMAIN keys # {} /\ Signed \subseteq Nat
    BY DEF ExportsInv, KeysInv, Signed
  <2>2. PICK newest : newest = keys[1].last
    OBVIOUS
  <2>3. newest \in DOMAIN index /\ index[newest].key = keys[1].key
    BY <2>1, <2>2 DEF ExportsInv, KeysInv
  <2>4. 1 \in DOMAIN keys /\ keys[1].key # NoKey /\ newest \in Nat
    BY <2>1, <2>2, KeyEntries DEF ExportsInv
  <2>5. newest \in Signed
    BY <2>3, <2>4 DEF Signed
  <2>6. ASSUME NEW e \in Signed PROVE e <= newest
    <3>1. PICK i \in DOMAIN keys : e <= keys[i].last
      BY DEF ExportsInv, KeysInv
    <3>2. keys[i].last <= newest /\ keys[i].last \in Nat
      BY <2>2, KeyEntries DEF ExportsInv, KeysInv
    <3> QED
      BY <2>1, <2>4, <3>1, <3>2
  <2>7. \A d \in Signed : (\A e \in Signed : e <= d) => d = newest
    BY <2>1, <2>4, <2>5, <2>6
  <2>8. (CHOOSE d \in Signed : \A e \in Signed : e <= d) = newest
    BY <2>5, <2>6, <2>7
  <2> QED
    BY <2>2, <2>3, <2>8 DEF Current
<1> QED
  BY <1>1, ExportsInvariant, PTL
=============================================================================
