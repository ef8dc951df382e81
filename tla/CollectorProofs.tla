-------------------------- MODULE CollectorProofs --------------------------
(***************************************************************************)
(* What holds of the collector's store and of the API's caches over it, for *)
(* every scanner run, every number of publications, probes and readers and *)
(* every bound on the faults: no publication a holding range covers is     *)
(* ever released, no row of a held publication is, a closed range is never *)
(* reopened and a verified one keeps its values, every decision in the     *)
(* tables has its line in corrections.jsonl, a range closes only when      *)
(* every deadline under it is proven, only a correction read again can     *)
(* publish a row against another deadline than its publication's; a reader *)
(* is not served a figure a hold had withdrawn; and the history of the     *)
(* withdrawal queue says what happened, for every chain, every order of    *)
(* reads and every block that was not read.                                *)
(***************************************************************************)
EXTENDS ParamHold, SnapshotCache, Withdrawals, ParamHistoryProofs

tables == <<pubs, ranges, rows>>

(* The rows of the tables are records with exactly these columns. *)
PubShape ==
  \A i \in DOMAIN pubs :
    /\ pubs[i] = [promise |-> pubs[i].promise, settle |-> pubs[i].settle, tx |-> pubs[i].tx, msu |-> pubs[i].msu,
                  stamped |-> pubs[i].stamped, movedBy |-> pubs[i].movedBy, held |-> pubs[i].held]
    /\ pubs[i].held \in BOOLEAN

RangeShape ==
  \A r \in DOMAIN ranges :
    /\ ranges[r] = [resolution |-> ranges[r].resolution, values |-> ranges[r].values,
                    holds |-> ranges[r].holds, corrected |-> ranges[r].corrected]
    /\ ranges[r].holds \in BOOLEAN /\ ranges[r].corrected \in BOOLEAN

RowShape ==
  \A k \in DOMAIN rows :
    /\ rows[k] = [msu |-> rows[k].msu, held |-> rows[k].held, raw |-> rows[k].raw,
                  fixedFor |-> rows[k].fixedFor, orphan |-> rows[k].orphan]
    /\ rows[k].held \in BOOLEAN /\ rows[k].orphan \in BOOLEAN

(* The tables are functions on the keys they hold. *)
AreTables ==
  /\ pubs = [i \in DOMAIN pubs |-> pubs[i]]
  /\ ranges = [r \in DOMAIN ranges |-> ranges[r]]
  /\ rows = [k \in DOMAIN rows |-> rows[k]]

Shape == AreTables /\ PubShape /\ RangeShape /\ RowShape

(* A row whose publication is not in the store was stored before it. *)
EarlyIsOrphan == \A k \in DOMAIN rows : ~Stored(k) => rows[k].orphan

(* A range whose corrections have landed does not withhold. *)
ClosedDoesNotHold == \A r \in DOMAIN ranges : ranges[r].corrected => ~ranges[r].holds

(* The inductive invariant: what is held, with the two facts it rests on.  *)
(* A row is born without a publication only as an orphan, so a publication *)
(* that arrives held finds no row it would have had to hold.               *)
StoreInv == Shape /\ CoveredIsHeld /\ EarlyIsOrphan /\ HeldWithPublication /\ ClosedDoesNotHold

-----------------------------------------------------------------------------
(* The statements of the store, one by one. *)

LEMMA UpsertPublicationKeeps ==
  ASSUME StoreInv, NEW line, UpsertPublication(line)
  PROVE  StoreInv'
<1> USE DEF StoreInv, Shape
<1>1. CASE line.id \in DOMAIN pubs
  <2>1. pubs' = pubs /\ ranges' = ranges /\ rows' = rows
    BY <1>1 DEF UpsertPublication
  <2> QED
    BY <2>1 DEF AreTables, PubShape, RangeShape, RowShape, EarlyIsOrphan, ClosedDoesNotHold,
                CoveredIsHeld, HeldWithPublication, Withheld, CoversPub, Stored
<1>2. CASE line.id \notin DOMAIN pubs
  <2>1. /\ DOMAIN pubs' = DOMAIN pubs \cup {line.id}
        /\ \A i \in DOMAIN pubs : pubs'[i] = pubs[i]
        /\ pubs'[line.id] = [promise |-> line.promise, settle |-> line.settle, tx |-> line.tx, msu |-> line.msu,
                             stamped |-> line.msu, movedBy |-> {}, held |-> Withheld(line)]
        /\ pubs' = [i \in DOMAIN pubs' |-> pubs'[i]]
    BY <1>2 DEF UpsertPublication, With
  <2>2. ranges' = ranges /\ rows' = rows
    BY DEF UpsertPublication
  <2>3. Withheld(line) \in BOOLEAN
    BY DEF Withheld
  <2>4. Shape'
    BY <2>1, <2>2, <2>3 DEF AreTables, PubShape, RangeShape, RowShape
  <2>5. CoveredIsHeld'
    BY <2>1, <2>2 DEF CoveredIsHeld, Withheld, CoversPub
  <2>6. EarlyIsOrphan'
    BY <2>1, <2>2 DEF EarlyIsOrphan, Stored
  <2>7. HeldWithPublication'
    BY <1>2, <2>1, <2>2 DEF HeldWithPublication, EarlyIsOrphan, Stored
  <2> QED
    BY <2>2, <2>4, <2>5, <2>6, <2>7 DEF ClosedDoesNotHold
<1> QED
  BY <1>1, <1>2

LEMMA UpsertRangeKeeps ==
  ASSUME StoreInv, NEW line, UpsertRange(line)
  PROVE  StoreInv'
<1> USE DEF StoreInv, Shape
<1> DEFINE r == RangeId(line)
           new == Upserted(line)
           raised == IF new.holds THEN Covered(r) ELSE {}
<1>1. /\ DOMAIN ranges' = DOMAIN ranges \cup {r}
      /\ ranges' = [x \in DOMAIN ranges' |-> ranges'[x]]
      /\ ranges'[r] = new
      /\ \A x \in DOMAIN ranges : x # r => ranges'[x] = ranges[x]
  BY DEF UpsertRange, With
<1>2. /\ new = [resolution |-> new.resolution, values |-> new.values, holds |-> new.holds, corrected |-> new.corrected]
      /\ new.holds \in BOOLEAN /\ new.corrected \in BOOLEAN
      /\ new.corrected => ~new.holds
  BY DEF Upserted, RangeShape, ClosedDoesNotHold
<1> HIDE DEF new
<1>3. /\ pubs' = [i \in DOMAIN pubs |-> [pubs[i] EXCEPT !.held = @ \/ i \in raised]]
      /\ rows' = [k \in DOMAIN rows |-> [rows[k] EXCEPT !.held = @ \/ k[1] \in raised]]
  BY DEF UpsertRange, new
<1> DEFINE heldNow(i) == pubs[i].held \/ i \in raised
           rowHeldNow(k) == rows[k].held \/ k[1] \in raised
<1>4. ASSUME NEW i \in DOMAIN pubs
      PROVE  /\ pubs'[i] = [pubs[i] EXCEPT !.held = heldNow(i)]
             /\ pubs'[i].held = heldNow(i)
             /\ pubs'[i].promise = pubs[i].promise /\ pubs'[i].settle = pubs[i].settle
             /\ pubs'[i] = [promise |-> pubs'[i].promise, settle |-> pubs'[i].settle, tx |-> pubs'[i].tx, msu |-> pubs'[i].msu,
                            stamped |-> pubs'[i].stamped, movedBy |-> pubs'[i].movedBy, held |-> pubs'[i].held]
  <2>1. pubs'[i] = [pubs[i] EXCEPT !.held = heldNow(i)]
    BY <1>3
  <2> HIDE DEF heldNow
  <2> QED
    BY <2>1 DEF PubShape
<1>5. ASSUME NEW k \in DOMAIN rows
      PROVE  /\ rows'[k].held = rowHeldNow(k) /\ rows'[k].orphan = rows[k].orphan
             /\ rows'[k] = [msu |-> rows'[k].msu, held |-> rows'[k].held, raw |-> rows'[k].raw,
                            fixedFor |-> rows'[k].fixedFor, orphan |-> rows'[k].orphan]
  <2>1. rows'[k] = [rows[k] EXCEPT !.held = rowHeldNow(k)]
    BY <1>3
  <2> HIDE DEF rowHeldNow
  <2> QED
    BY <2>1 DEF RowShape
<1>6. DOMAIN pubs' = DOMAIN pubs /\ DOMAIN rows' = DOMAIN rows
  BY <1>3
<1>7. Shape'
  <2>1. AreTables' /\ RangeShape'
    BY <1>1, <1>2, <1>3 DEF AreTables, RangeShape
  <2>2. PubShape'
    BY <1>4, <1>6 DEF PubShape
  <2>3. RowShape'
    BY <1>5, <1>6 DEF RowShape
  <2> QED
    BY <2>1, <2>2, <2>3
<1>8. CoveredIsHeld'
  <2> SUFFICES ASSUME NEW i \in DOMAIN pubs, NEW x \in DOMAIN ranges', ranges'[x].holds, CoversPub(x, pubs'[i])
               PROVE  pubs'[i].held
    BY <1>6 DEF CoveredIsHeld, Withheld, CoversPub
  <2>1. CoversPub(x, pubs[i])
    BY <1>4 DEF CoversPub
  <2>2. CASE x = r
    BY <1>1, <1>4, <2>1, <2>2 DEF Covered
  <2>3. CASE x # r
    <3>1. Withheld(pubs[i])
      BY <1>1, <2>1, <2>3 DEF Withheld
    <3> QED
      BY <1>4, <3>1 DEF CoveredIsHeld
  <2> QED
    BY <2>2, <2>3
<1>9. EarlyIsOrphan'
  BY <1>5, <1>6 DEF EarlyIsOrphan, Stored
<1>10. HeldWithPublication'
  BY <1>4, <1>5, <1>6 DEF HeldWithPublication, Stored
<1>11. ClosedDoesNotHold'
  BY <1>1, <1>2 DEF ClosedDoesNotHold
<1> QED
  BY <1>7, <1>8, <1>9, <1>10, <1>11

LEMMA InsertProbeKeeps ==
  ASSUME StoreInv, NEW line, InsertProbe(line)
  PROVE  StoreInv'
<1> USE DEF StoreInv, Shape
<1> DEFINE k == <<line.id, line.point>>
<1>1. pubs' = pubs /\ ranges' = ranges
  BY DEF InsertProbe
<1>2. CASE k \in DOMAIN rows
  <2>1. rows' = rows
    BY <1>2 DEF InsertProbe
  <2> QED
    BY <1>1, <2>1 DEF AreTables, PubShape, RangeShape, RowShape, EarlyIsOrphan, ClosedDoesNotHold,
                      CoveredIsHeld, HeldWithPublication, Withheld, CoversPub, Stored
<1>3. CASE k \notin DOMAIN rows
  <2> DEFINE born == /\ line.id \in DOMAIN pubs
                     /\ \/ pubs[line.id].held
                        \/ pubs[line.id].msu # line.msu
                        \/ Withheld(pubs[line.id])
             early == line.id \notin DOMAIN pubs
  <2>1. /\ DOMAIN rows' = DOMAIN rows \cup {k}
        /\ \A x \in DOMAIN rows : rows'[x] = rows[x]
        /\ rows'[k] = [msu |-> line.msu, held |-> born, raw |-> TRUE, fixedFor |-> {}, orphan |-> early]
        /\ rows' = [x \in DOMAIN rows' |-> rows'[x]]
    BY <1>3 DEF InsertProbe, HeldAtInsert, With
  <2>2. born \in BOOLEAN /\ early \in BOOLEAN /\ k[1] = line.id
    OBVIOUS
  <2> HIDE DEF k, born, early
  <2>3. rows'[k].held = born /\ rows'[k].orphan = early
    BY <2>1
  <2>4. Shape'
    BY <1>1, <2>1, <2>2 DEF AreTables, PubShape, RangeShape, RowShape
  <2>5. CoveredIsHeld' /\ ClosedDoesNotHold'
    BY <1>1 DEF CoveredIsHeld, ClosedDoesNotHold, Withheld, CoversPub
  <2>6. EarlyIsOrphan'
    BY <1>1, <2>1, <2>2, <2>3 DEF EarlyIsOrphan, Stored, early
  <2>7. HeldWithPublication'
    BY <1>1, <2>1, <2>2, <2>3 DEF HeldWithPublication, Stored, born
  <2> QED
    BY <2>4, <2>5, <2>6, <2>7
<1> QED
  BY <1>2, <1>3

(* A correction moves deadlines and closes ranges; no hold is touched. *)
LEMMA ApplyCorrectionKeeps ==
  ASSUME StoreInv, NEW line, ApplyCorrection(line)
  PROVE  StoreInv'
<1> USE DEF StoreInv, Shape
<1>1. CASE line.kind = "deadline"
  <2>1. pubs' = [pubs EXCEPT ![line.id].msu = line.to, ![line.id].movedBy = @ \cup {line.range}]
        /\ ranges' = ranges /\ rows' = rows
    BY <1>1 DEF ApplyCorrection
  <2>2. DOMAIN pubs' = DOMAIN pubs /\ pubs' = [i \in DOMAIN pubs' |-> pubs'[i]]
    BY <2>1
  <2>3. ASSUME NEW i \in DOMAIN pubs
        PROVE  /\ pubs'[i].held = pubs[i].held /\ pubs'[i].promise = pubs[i].promise /\ pubs'[i].settle = pubs[i].settle
               /\ pubs'[i] = [promise |-> pubs'[i].promise, settle |-> pubs'[i].settle, tx |-> pubs'[i].tx,
                              msu |-> pubs'[i].msu, stamped |-> pubs'[i].stamped, movedBy |-> pubs'[i].movedBy,
                              held |-> pubs'[i].held]
    <3>1. CASE i = line.id
      BY <2>1, <3>1 DEF PubShape, AreTables
    <3>2. CASE i # line.id
      BY <2>1, <3>2 DEF PubShape, AreTables
    <3> QED
      BY <3>1, <3>2
  <2>4. Shape'
    <3>1. AreTables' /\ DOMAIN pubs' = DOMAIN pubs
      BY <2>1, <2>2 DEF AreTables
    <3>2. PubShape'
      BY <2>3, <3>1 DEF PubShape
    <3>3. RangeShape' /\ RowShape'
      BY <2>1 DEF RangeShape, RowShape
    <3> QED
      BY <3>1, <3>2, <3>3
  <2>5. CoveredIsHeld'
    BY SMTT(30), <2>1, <2>2, <2>3 DEF CoveredIsHeld, Withheld, CoversPub
  <2>6. EarlyIsOrphan' /\ HeldWithPublication' /\ ClosedDoesNotHold'
    BY <2>1, <2>2, <2>3 DEF EarlyIsOrphan, HeldWithPublication, ClosedDoesNotHold, Stored
  <2> QED
    BY <2>4, <2>5, <2>6
<1>2. CASE line.kind = "verdict"
  <2>1. rows' = [rows EXCEPT ![<<line.id, line.point>>].msu = line.to,
                             ![<<line.id, line.point>>].fixedFor = @ \cup {line.range}]
        /\ pubs' = pubs /\ ranges' = ranges
    BY <1>2 DEF ApplyCorrection
  <2>2. DOMAIN rows' = DOMAIN rows /\ rows' = [k \in DOMAIN rows' |-> rows'[k]]
    BY <2>1
  <2>3. ASSUME NEW k \in DOMAIN rows
        PROVE  /\ rows'[k].held = rows[k].held /\ rows'[k].orphan = rows[k].orphan
               /\ rows'[k] = [msu |-> rows'[k].msu, held |-> rows'[k].held, raw |-> rows'[k].raw,
                              fixedFor |-> rows'[k].fixedFor, orphan |-> rows'[k].orphan]
    <3> DEFINE key == <<line.id, line.point>>
    <3> HIDE DEF key
    <3>1. CASE k = key
      <4>1. rows' = [rows EXCEPT ![key].msu = line.to, ![key].fixedFor = @ \cup {line.range}]
        BY <2>1 DEF key
      <4>2. rows'[k] = [rows[k] EXCEPT !.msu = line.to, !.fixedFor = @ \cup {line.range}]
        BY <3>1, <4>1 DEF AreTables
      <4> QED
        BY <4>2 DEF RowShape
    <3>2. CASE k # key
      BY <2>1, <3>2 DEF RowShape, AreTables, key
    <3> QED
      BY <3>1, <3>2
  <2>4. Shape'
    <3>1. AreTables' /\ DOMAIN rows' = DOMAIN rows
      BY <2>1, <2>2 DEF AreTables
    <3>2. RowShape'
      BY <2>3, <3>1 DEF RowShape
    <3>3. PubShape' /\ RangeShape'
      BY <2>1 DEF PubShape, RangeShape
    <3> QED
      BY <3>1, <3>2, <3>3
  <2>5. CoveredIsHeld' /\ ClosedDoesNotHold'
    BY <2>1 DEF CoveredIsHeld, ClosedDoesNotHold, Withheld, CoversPub
  <2>6. DOMAIN rows' = DOMAIN rows /\ \A k : Stored(k)' <=> Stored(k)
    BY <2>1, <2>2 DEF Stored
  <2>7. EarlyIsOrphan'
    BY <2>3, <2>6 DEF EarlyIsOrphan
  <2>8. HeldWithPublication'
    BY <2>1, <2>3, <2>6 DEF HeldWithPublication
  <2> QED
    BY <2>4, <2>5, <2>7, <2>8
<1>3. CASE line.kind = "complete"
  <2>1. ranges' = [r \in DOMAIN ranges |->
                     IF r = line.range /\ ranges[r].resolution = "verified"
                     THEN [ranges[r] EXCEPT !.holds = FALSE, !.corrected = TRUE] ELSE ranges[r]]
        /\ pubs' = pubs /\ rows' = rows
    BY <1>3 DEF ApplyCorrection
  <2>2. DOMAIN ranges' = DOMAIN ranges /\ ranges' = [r \in DOMAIN ranges' |-> ranges'[r]]
    BY <2>1
  <2>3. ASSUME NEW r \in DOMAIN ranges
        PROVE  /\ ranges'[r].holds \in BOOLEAN /\ ranges'[r].corrected \in BOOLEAN
               /\ ranges'[r].holds => ranges[r].holds
               /\ ranges'[r].corrected => ~ranges'[r].holds
               /\ ranges'[r] = [resolution |-> ranges'[r].resolution, values |-> ranges'[r].values,
                                holds |-> ranges'[r].holds, corrected |-> ranges'[r].corrected]
    <3>1. CASE r = line.range /\ ranges[r].resolution = "verified"
      <4>1. ranges'[r] = [ranges[r] EXCEPT !.holds = FALSE, !.corrected = TRUE]
        BY <2>1, <3>1
      <4>2. ranges'[r] = [resolution |-> ranges[r].resolution, values |-> ranges[r].values,
                          holds |-> FALSE, corrected |-> TRUE]
        BY <4>1 DEF RangeShape
      <4> QED
        BY <4>2
    <3>2. CASE ~(r = line.range /\ ranges[r].resolution = "verified")
      <4>1. ranges'[r] = ranges[r]
        BY <2>1, <3>2
      <4> QED
        BY <4>1 DEF RangeShape, ClosedDoesNotHold
    <3> QED
      BY <3>1, <3>2
  <2>4. Shape'
    BY <2>1, <2>2, <2>3 DEF AreTables, PubShape, RangeShape, RowShape
  <2>5. CoveredIsHeld'
    BY <2>1, <2>2, <2>3 DEF CoveredIsHeld, Withheld, CoversPub
  <2>6. EarlyIsOrphan' /\ HeldWithPublication' /\ ClosedDoesNotHold'
    BY <2>1, <2>2, <2>3 DEF EarlyIsOrphan, HeldWithPublication, ClosedDoesNotHold, Stored
  <2> QED
    BY <2>4, <2>5, <2>6
<1>4. CASE line.kind \notin {"deadline", "verdict", "complete"}
  <2>1. pubs' = pubs /\ ranges' = ranges /\ rows' = rows
    BY <1>4 DEF ApplyCorrection
  <2> QED
    BY <2>1 DEF AreTables, PubShape, RangeShape, RowShape, EarlyIsOrphan, ClosedDoesNotHold,
                CoveredIsHeld, HeldWithPublication, Withheld, CoversPub, Stored
<1> QED
  BY <1>1, <1>2, <1>3, <1>4

LEMMA EmptyStoreKeeps ==
  ASSUME EmptyStore
  PROVE  StoreInv'
BY DEF EmptyStore, StoreInv, Shape, AreTables, PubShape, RangeShape, RowShape, EarlyIsOrphan,
       ClosedDoesNotHold, CoveredIsHeld, HeldWithPublication

LEMMA UnchangedKeeps ==
  ASSUME StoreInv, UNCHANGED tables
  PROVE  StoreInv'
BY DEF tables, StoreInv, Shape, AreTables, PubShape, RangeShape, RowShape, EarlyIsOrphan,
       ClosedDoesNotHold, CoveredIsHeld, HeldWithPublication, Withheld, CoversPub, Stored

(* The sync recomputes every hold from the ranges and the deadlines. *)
LEMMA SyncKeeps ==
  ASSUME StoreInv, SyncParamHolds
  PROVE  StoreInv'
<1> USE DEF StoreInv, Shape
<1>1. CASE UNCHANGED <<pubs, rows>>
  BY <1>1, UnchangedKeeps DEF SyncParamHolds, tables
<1>2. CASE RecomputeHolds
  <2> DEFINE rowHeld(k) ==
               Stored(k) /\ (pubs'[k[1]].held \/ (Stale(k) /\ (rows[k].held \/ pubs[k[1]].movedBy # {})))
             early(k) == ~Stored(k)
             covered(i) == Withheld(pubs[i])
  <2>1. ranges' = ranges /\ DOMAIN pubs' = DOMAIN pubs /\ DOMAIN rows' = DOMAIN rows
    BY <1>2 DEF SyncParamHolds, RecomputeHolds
  <2>2. ASSUME NEW i \in DOMAIN pubs
        PROVE  /\ covered(i) \in BOOLEAN /\ pubs'[i].held = covered(i)
               /\ pubs'[i].promise = pubs[i].promise /\ pubs'[i].settle = pubs[i].settle
               /\ pubs'[i] = [promise |-> pubs'[i].promise, settle |-> pubs'[i].settle, tx |-> pubs'[i].tx,
                              msu |-> pubs'[i].msu, stamped |-> pubs'[i].stamped, movedBy |-> pubs'[i].movedBy,
                              held |-> pubs'[i].held]
    <3>1. pubs'[i] = [pubs[i] EXCEPT !.held = covered(i)]
      BY <1>2 DEF RecomputeHolds
    <3>2. covered(i) \in BOOLEAN
      BY DEF Withheld
    <3> HIDE DEF covered
    <3> QED
      BY <3>1, <3>2 DEF PubShape
  <2>3. ASSUME NEW k \in DOMAIN rows
        PROVE  /\ rowHeld(k) \in BOOLEAN /\ early(k) \in BOOLEAN
               /\ rows'[k].held = rowHeld(k) /\ rows'[k].orphan = early(k)
               /\ rows'[k] = [msu |-> rows'[k].msu, held |-> rows'[k].held, raw |-> rows'[k].raw,
                              fixedFor |-> rows'[k].fixedFor, orphan |-> rows'[k].orphan]
    <3>1. rows'[k] = [rows[k] EXCEPT !.held = rowHeld(k), !.orphan = early(k)]
      BY <1>2 DEF RecomputeHolds
    <3>2. rowHeld(k) \in BOOLEAN /\ early(k) \in BOOLEAN
      BY DEF Stored
    <3> HIDE DEF rowHeld, early
    <3> QED
      BY <3>1, <3>2 DEF RowShape
  <2>4. Shape'
    <3>1. AreTables' /\ RangeShape'
      BY <1>2, <2>1 DEF RecomputeHolds, AreTables, RangeShape
    <3>2. PubShape'
      BY <2>1, <2>2 DEF PubShape
    <3>3. RowShape'
      BY <2>1, <2>3 DEF RowShape
    <3> QED
      BY <3>1, <3>2, <3>3
  <2>5. CoveredIsHeld'
    BY <2>1, <2>2 DEF CoveredIsHeld, Withheld, CoversPub
  <2>6. EarlyIsOrphan'
    BY <2>1, <2>3 DEF EarlyIsOrphan, Stored
  <2>7. HeldWithPublication'
    <3>1. ASSUME NEW k \in DOMAIN rows, k[1] \in DOMAIN pubs, pubs'[k[1]].held
          PROVE  rows'[k].held
      BY <2>3, <3>1 DEF Stored
    <3> QED
      BY <2>1, <3>1 DEF HeldWithPublication, Stored
  <2>8. ClosedDoesNotHold'
    BY <2>1 DEF ClosedDoesNotHold
  <2> QED
    BY <2>4, <2>5, <2>6, <2>7, <2>8
<1> QED
  BY <1>1, <1>2 DEF SyncParamHolds

(* Retention takes a row's record and nothing else. *)
LEMMA RetentionKeeps ==
  ASSUME StoreInv, Retention
  PROVE  StoreInv'
<1> USE DEF StoreInv, Shape
<1>1. CASE UNCHANGED rows
  BY <1>1, UnchangedKeeps DEF Retention, tables
<1>2. ASSUME NEW strip \in DOMAIN rows, rows' = [rows EXCEPT ![strip].raw = FALSE]
      PROVE  StoreInv'
  <2>1. /\ pubs' = pubs /\ ranges' = ranges
        /\ DOMAIN rows' = DOMAIN rows /\ rows' = [k \in DOMAIN rows' |-> rows'[k]]
    BY <1>2 DEF Retention
  <2>2. ASSUME NEW k \in DOMAIN rows
        PROVE  /\ rows'[k].held = rows[k].held /\ rows'[k].orphan = rows[k].orphan
               /\ rows'[k] = [msu |-> rows'[k].msu, held |-> rows'[k].held, raw |-> rows'[k].raw,
                              fixedFor |-> rows'[k].fixedFor, orphan |-> rows'[k].orphan]
    <3>1. rows'[k] = IF k = strip THEN [rows[k] EXCEPT !.raw = FALSE] ELSE rows[k]
      BY <1>2 DEF AreTables
    <3> QED
      BY <3>1 DEF RowShape
  <2>3. Shape'
    BY <2>1, <2>2 DEF AreTables, PubShape, RangeShape, RowShape
  <2> QED
    BY <2>1, <2>2, <2>3 DEF EarlyIsOrphan, ClosedDoesNotHold, CoveredIsHeld, HeldWithPublication,
                            Withheld, CoversPub, Stored
<1> QED
  BY <1>1, <1>2 DEF Retention

-----------------------------------------------------------------------------
(* The specification. *)

LEMMA InitStoreInv == Init => StoreInv
BY DEF Init, InitStore, StoreInv, Shape, AreTables, PubShape, RangeShape, RowShape, EarlyIsOrphan,
       ClosedDoesNotHold, CoveredIsHeld, HeldWithPublication

LEMMA IngestLineKeeps ==
  ASSUME StoreInv, IngestLine
  PROVE  StoreInv'
<1> DEFINE line == FileOf(pc)[pos + 1]
<1>1. Handle(line) /\ pc \in Range(Files)
  BY DEF IngestLine, Reading
<1>2. pc \in {"pubs", "ranges", "corrs", "meas"}
  <2>1. DOMAIN Files = 1 .. 4
    BY DEF Files
  <2>2. PICK j \in 1 .. 4 : pc = Files[j]
    BY <1>1, <2>1 DEF Range
  <2> QED
    BY <2>2 DEF Files
<1> HIDE DEF line
<1>3. CASE pc = "pubs"
  BY <1>1, <1>3, UpsertPublicationKeeps DEF Handle
<1>4. CASE pc = "ranges"
  <2>1. CASE Undecodable(line)
    BY <1>1, <1>4, <2>1, UnchangedKeeps DEF Handle, tables
  <2>2. CASE ~Undecodable(line)
    BY <1>1, <1>4, <2>2, UpsertRangeKeeps DEF Handle
  <2> QED
    BY <2>1, <2>2
<1>5. CASE pc = "corrs"
  BY <1>1, <1>5, ApplyCorrectionKeeps DEF Handle
<1>6. CASE pc = "meas"
  BY <1>1, <1>6, InsertProbeKeeps DEF Handle
<1> QED
  BY <1>2, <1>3, <1>4, <1>5, <1>6

LEMMA NextKeeps ==
  ASSUME StoreInv, [Next]_holdVars
  PROVE  StoreInv'
<1> USE UnchangedKeeps DEF tables, store
<1>1. CASE ScannerWrites
  BY <1>1 DEF ScannerWrites
<1>2. CASE ProberWrites
  BY <1>2 DEF ProberWrites
<1>3. CASE Pass
  <2>1. CASE IngestState
    BY <2>1 DEF IngestState
  <2>2. CASE IngestLine
    BY <2>2, IngestLineKeeps
  <2>3. CASE RetryLater
    BY <2>3 DEF RetryLater
  <2>4. CASE EndOfFile
    BY <2>4 DEF EndOfFile
  <2>5. CASE BeginRun
    BY <2>5 DEF BeginRun
  <2>6. CASE PickRange
    BY <2>6 DEF PickRange
  <2>7. CASE MoveDeadline
    BY <2>7 DEF MoveDeadline
  <2>8. CASE RegradeRow
    BY <2>8 DEF RegradeRow
  <2>9. CASE FinishRange
    BY <2>9 DEF FinishRange
  <2>10. CASE ApplyPending
    BY <2>10, ApplyCorrectionKeeps DEF ApplyPending
  <2>11. CASE SweepRow
    BY <2>11 DEF SweepRow
  <2>12. CASE EndSweep
    BY <2>12 DEF EndSweep
  <2>13. CASE SyncParamHolds
    BY <2>13, SyncKeeps
  <2>14. CASE Retention
    BY <2>14, RetentionKeeps
  <2> QED
    BY <1>3, <2>1, <2>2, <2>3, <2>4, <2>5, <2>6, <2>7, <2>8, <2>9, <2>10, <2>11, <2>12, <2>13, <2>14 DEF Pass
<1>4. CASE Failure
  <2>1. CASE IngestError
    BY <2>1 DEF IngestError
  <2>2. CASE RunError
    BY <2>2 DEF RunError
  <2>3. CASE Crash
    BY <2>3 DEF Crash
  <2>4. CASE Rebuild
    BY <2>4, EmptyStoreKeeps DEF Rebuild
  <2> QED
    BY <1>4, <2>1, <2>2, <2>3, <2>4 DEF Failure
<1>5. CASE UNCHANGED holdVars
  BY <1>5 DEF holdVars
<1> QED
  BY <1>1, <1>2, <1>3, <1>4, <1>5 DEF Next

(* The inductive invariant holds of every behaviour. *)
THEOREM StoreInvariant == Spec => []StoreInv
<1>1. StoreInv /\ [Next]_holdVars => StoreInv'
  BY NextKeeps
<1> QED
  BY <1>1, InitStoreInv, PTL DEF Spec

(* A publication a holding range covers is held, whichever of the two the  *)
(* store learnt first, and across crashes, store errors and rebuilds.      *)
THEOREM CoveredIsHeldAlways == Spec => []CoveredIsHeld
<1>1. StoreInv => CoveredIsHeld
  BY DEF StoreInv
<1> QED
  BY <1>1, StoreInvariant, PTL

(* The rows of a held publication are held with it, those stored before it *)
(* aside until the next sync.                                              *)
THEOREM HeldWithPublicationAlways == Spec => []HeldWithPublication
<1>1. StoreInv => HeldWithPublication
  BY DEF StoreInv
<1> QED
  BY <1>1, StoreInvariant, PTL

-----------------------------------------------------------------------------
(* Corrections: closed ranges and the record of every decision. *)

(* Every fault counter counts. *)
FaultsCount == faults \in [{"crash", "error", "rebuild", "strip"} -> Nat]

(* What no statement but a rebuild does to a range. *)
KeepsRanges ==
  \A r \in DOMAIN ranges :
    /\ r \in DOMAIN ranges'
    /\ ranges[r].corrected => ranges'[r].corrected /\ ~ranges'[r].holds
    /\ ranges[r].resolution = "verified" => ranges'[r].resolution = "verified" /\ ranges'[r].values = ranges[r].values

(* A statement that moves no deadline, re-grades no row and closes no range; *)
(* what it adds is undecided.                                              *)
DecidesNothing ==
  /\ \A r \in DOMAIN ranges' : ranges'[r].corrected => r \in DOMAIN ranges /\ ranges[r].corrected
  /\ \A i \in DOMAIN pubs' :
       \/ i \in DOMAIN pubs /\ pubs'[i].msu = pubs[i].msu /\ pubs'[i].stamped = pubs[i].stamped
       \/ pubs'[i].msu = pubs'[i].stamped
  /\ \A k \in DOMAIN rows' :
       \/ k \in DOMAIN rows /\ rows'[k].msu = rows[k].msu /\ rows'[k].fixedFor = rows[k].fixedFor
       \/ rows'[k].fixedFor = {}

-----------------------------------------------------------------------------
(* The statements of the store. *)

LEMMA UnchangedEffect ==
  ASSUME StoreInv, UNCHANGED tables
  PROVE  KeepsRanges /\ DecidesNothing
BY DEF tables, KeepsRanges, DecidesNothing, StoreInv, ClosedDoesNotHold

LEMMA UpsertPublicationEffect ==
  ASSUME StoreInv, NEW line, UpsertPublication(line)
  PROVE  KeepsRanges /\ DecidesNothing
<1>1. ranges' = ranges /\ rows' = rows
  BY DEF UpsertPublication
<1>2. ASSUME NEW i \in DOMAIN pubs'
      PROVE  \/ i \in DOMAIN pubs /\ pubs'[i] = pubs[i]
             \/ pubs'[i].msu = pubs'[i].stamped
  <2> DEFINE born == Withheld(line)
  <2>1. CASE line.id \in DOMAIN pubs
    BY <2>1 DEF UpsertPublication
  <2>2. CASE line.id \notin DOMAIN pubs
    <3>1. pubs' = [x \in DOMAIN pubs \cup {line.id} |->
                     IF x = line.id
                     THEN [promise |-> line.promise, settle |-> line.settle, tx |-> line.tx, msu |-> line.msu,
                           stamped |-> line.msu, movedBy |-> {}, held |-> born]
                     ELSE pubs[x]]
      BY <2>2 DEF UpsertPublication, With
    <3> HIDE DEF born
    <3> QED
      BY <3>1
  <2> QED
    BY <2>1, <2>2
<1> QED
  BY <1>1, <1>2 DEF KeepsRanges, DecidesNothing, StoreInv, ClosedDoesNotHold

LEMMA UpsertRangeEffect ==
  ASSUME StoreInv, NEW line, UpsertRange(line)
  PROVE  KeepsRanges /\ DecidesNothing
<1> DEFINE r == RangeId(line)
           new == Upserted(line)
           raised == IF new.holds THEN Covered(r) ELSE {}
           heldNow(i) == pubs[i].held \/ i \in raised
           rowHeldNow(k) == rows[k].held \/ k[1] \in raised
<1>1. /\ DOMAIN ranges' = DOMAIN ranges \cup {r}
      /\ ranges'[r] = new
      /\ \A x \in DOMAIN ranges : x # r => ranges'[x] = ranges[x]
  BY DEF UpsertRange, With
<1>2. /\ new.corrected => r \in DOMAIN ranges /\ ranges[r].corrected
      /\ r \in DOMAIN ranges =>
           /\ ranges[r].corrected => new.corrected /\ ~new.holds
           /\ ranges[r].resolution = "verified" => new.resolution = "verified" /\ new.values = ranges[r].values
  BY DEF Upserted, StoreInv, Shape, RangeShape, ClosedDoesNotHold
<1>3. /\ DOMAIN pubs' = DOMAIN pubs /\ \A i \in DOMAIN pubs : pubs'[i] = [pubs[i] EXCEPT !.held = heldNow(i)]
      /\ DOMAIN rows' = DOMAIN rows /\ \A k \in DOMAIN rows : rows'[k] = [rows[k] EXCEPT !.held = rowHeldNow(k)]
  BY DEF UpsertRange
<1> HIDE DEF new, heldNow, rowHeldNow
<1>4. KeepsRanges
  BY <1>1, <1>2 DEF KeepsRanges, StoreInv, ClosedDoesNotHold
<1>5. \A i \in DOMAIN pubs : pubs'[i].msu = pubs[i].msu /\ pubs'[i].stamped = pubs[i].stamped
  BY <1>3 DEF StoreInv, Shape, PubShape
<1>6. \A k \in DOMAIN rows : rows'[k].msu = rows[k].msu /\ rows'[k].fixedFor = rows[k].fixedFor
  BY <1>3 DEF StoreInv, Shape, RowShape
<1> QED
  BY <1>1, <1>2, <1>3, <1>4, <1>5, <1>6 DEF DecidesNothing

LEMMA InsertProbeEffect ==
  ASSUME StoreInv, NEW line, InsertProbe(line)
  PROVE  KeepsRanges /\ DecidesNothing
<1> DEFINE k == <<line.id, line.point>>
           born == /\ line.id \in DOMAIN pubs
                   /\ \/ pubs[line.id].held
                      \/ pubs[line.id].msu # line.msu
                      \/ Withheld(pubs[line.id])
           early == line.id \notin DOMAIN pubs
<1>1. ranges' = ranges /\ pubs' = pubs
  BY DEF InsertProbe
<1>2. rows' = IF k \in DOMAIN rows THEN rows
              ELSE [x \in DOMAIN rows \cup {k} |->
                      IF x = k THEN [msu |-> line.msu, held |-> born, raw |-> TRUE, fixedFor |-> {}, orphan |-> early]
                      ELSE rows[x]]
  BY DEF InsertProbe, HeldAtInsert, With
<1> HIDE DEF k, born, early
<1>3. \A x \in DOMAIN rows' :
        \/ x \in DOMAIN rows /\ rows'[x] = rows[x]
        \/ rows'[x].fixedFor = {}
  BY <1>2
<1> QED
  BY <1>1, <1>3 DEF KeepsRanges, DecidesNothing, StoreInv, ClosedDoesNotHold

LEMMA SyncEffect ==
  ASSUME StoreInv, SyncParamHolds
  PROVE  KeepsRanges /\ DecidesNothing
<1>1. CASE UNCHANGED <<pubs, rows>>
  BY <1>1, UnchangedEffect DEF SyncParamHolds, tables
<1>2. CASE RecomputeHolds
  <2> DEFINE covered(i) == Withheld(pubs[i])
             rowHeld(k) ==
               Stored(k) /\ (pubs'[k[1]].held \/ (Stale(k) /\ (rows[k].held \/ pubs[k[1]].movedBy # {})))
             early(k) == ~Stored(k)
  <2>1. \A i \in DOMAIN pubs : pubs'[i] = [pubs[i] EXCEPT !.held = covered(i)]
    BY <1>2 DEF RecomputeHolds
  <2>2. \A k \in DOMAIN rows : rows'[k] = [rows[k] EXCEPT !.held = rowHeld(k), !.orphan = early(k)]
    BY <1>2 DEF RecomputeHolds
  <2>3. DOMAIN pubs' = DOMAIN pubs /\ DOMAIN rows' = DOMAIN rows /\ ranges' = ranges
    BY <1>2 DEF SyncParamHolds, RecomputeHolds
  <2> HIDE DEF covered, rowHeld, early
  <2>4. \A i \in DOMAIN pubs : pubs'[i].msu = pubs[i].msu /\ pubs'[i].stamped = pubs[i].stamped
    BY <2>1 DEF StoreInv, Shape, PubShape
  <2>5. \A k \in DOMAIN rows : rows'[k].msu = rows[k].msu /\ rows'[k].fixedFor = rows[k].fixedFor
    BY <2>2 DEF StoreInv, Shape, RowShape
  <2> QED
    BY <2>3, <2>4, <2>5 DEF KeepsRanges, DecidesNothing, StoreInv, ClosedDoesNotHold
<1> QED
  BY <1>1, <1>2 DEF SyncParamHolds

LEMMA RetentionEffect ==
  ASSUME StoreInv, Retention
  PROVE  KeepsRanges /\ DecidesNothing
<1>1. CASE UNCHANGED rows
  BY <1>1, UnchangedEffect DEF Retention, tables
<1>2. ASSUME NEW strip \in DOMAIN rows, rows' = [rows EXCEPT ![strip].raw = FALSE]
      PROVE  KeepsRanges /\ DecidesNothing
  <2>1. \A k \in DOMAIN rows' : k \in DOMAIN rows /\ rows'[k].msu = rows[k].msu /\ rows'[k].fixedFor = rows[k].fixedFor
    BY <1>2 DEF StoreInv, Shape, AreTables, RowShape
  <2> QED
    BY <2>1 DEF Retention, KeepsRanges, DecidesNothing, StoreInv, ClosedDoesNotHold
<1> QED
  BY <1>1, <1>2 DEF Retention

(* A correction closes a range for good. *)
LEMMA ApplyCorrectionKeepsRanges ==
  ASSUME StoreInv, NEW line, ApplyCorrection(line)
  PROVE  KeepsRanges
<1>1. CASE line.kind # "complete"
  <2>1. ranges' = ranges
    BY <1>1 DEF ApplyCorrection
  <2> QED
    BY <2>1 DEF KeepsRanges, StoreInv, ClosedDoesNotHold
<1>2. CASE line.kind = "complete"
  <2>1. ranges' = [r \in DOMAIN ranges |->
                     IF r = line.range /\ ranges[r].resolution = "verified"
                     THEN [ranges[r] EXCEPT !.holds = FALSE, !.corrected = TRUE] ELSE ranges[r]]
    BY <1>2 DEF ApplyCorrection
  <2> SUFFICES ASSUME NEW r \in DOMAIN ranges
               PROVE  /\ r \in DOMAIN ranges'
                      /\ ranges[r].corrected => ranges'[r].corrected /\ ~ranges'[r].holds
                      /\ ranges[r].resolution = "verified" =>
                           ranges'[r].resolution = "verified" /\ ranges'[r].values = ranges[r].values
    BY DEF KeepsRanges
  <2>2. CASE r = line.range /\ ranges[r].resolution = "verified"
    <3>1. ranges'[r] = [resolution |-> ranges[r].resolution, values |-> ranges[r].values,
                        holds |-> FALSE, corrected |-> TRUE]
      <4>1. ranges'[r] = [ranges[r] EXCEPT !.holds = FALSE, !.corrected = TRUE]
        BY <2>1, <2>2
      <4> QED
        BY <4>1 DEF StoreInv, Shape, RangeShape
    <3>2. r \in DOMAIN ranges'
      BY <2>1
    <3> QED
      BY <3>1, <3>2
  <2>3. CASE ~(r = line.range /\ ranges[r].resolution = "verified")
    BY <2>1, <2>3 DEF StoreInv, ClosedDoesNotHold
  <2> QED
    BY <2>2, <2>3
<1> QED
  BY <1>1, <1>2

-----------------------------------------------------------------------------
(* The steps of the collector. *)

LEMMA FilesRange == Range(Files) = {"pubs", "ranges", "corrs", "meas"}
<1>1. DOMAIN Files = 1 .. 4
  BY DEF Files
<1>2. Range(Files) = {Files[j] : j \in 1 .. 4}
  BY <1>1 DEF Range
<1> QED
  BY <1>2 DEF Files

(* A line read applies a correction, or decides nothing. *)
LEMMA IngestLineEffect ==
  ASSUME StoreInv, IngestLine
  PROVE  /\ KeepsRanges
         /\ \/ DecidesNothing
            \/ pc = "corrs" /\ ApplyCorrection(corrFile[pos + 1])
<1> DEFINE line == FileOf(pc)[pos + 1]
<1>1. Handle(line) /\ pc \in {"pubs", "ranges", "corrs", "meas"}
  BY FilesRange DEF IngestLine, Reading
<1>2. CASE pc = "corrs"
  <2>1. line = corrFile[pos + 1]
    BY <1>2 DEF FileOf
  <2> HIDE DEF line
  <2> QED
    BY <1>1, <1>2, <2>1, ApplyCorrectionKeepsRanges DEF Handle
<1> HIDE DEF line
<1>3. CASE pc = "pubs"
  BY <1>1, <1>3, UpsertPublicationEffect DEF Handle
<1>4. CASE pc = "ranges"
  <2>1. CASE Undecodable(line)
    BY <1>1, <1>4, <2>1, UnchangedEffect DEF Handle, tables
  <2>2. CASE ~Undecodable(line)
    BY <1>1, <1>4, <2>2, UpsertRangeEffect DEF Handle
  <2> QED
    BY <2>1, <2>2
<1>5. CASE pc = "meas"
  BY <1>1, <1>5, InsertProbeEffect DEF Handle
<1> QED
  BY <1>1, <1>2, <1>3, <1>4, <1>5

(* What a step of the collector's tables can be. *)
LEMMA NextEffect ==
  ASSUME StoreInv, FaultsCount, [Next]_holdVars
  PROVE  /\ FaultsCount'
         /\ \/ EmptyStore /\ faults'.rebuild # faults.rebuild /\ corrFile' = corrFile
            \/ KeepsRanges /\ DecidesNothing
            \/ KeepsRanges /\ IngestLine /\ pc = "corrs" /\ ApplyCorrection(corrFile[pos + 1])
            \/ KeepsRanges /\ ApplyPending
<1> USE DEF FaultsCount, Fault
<1>1. CASE ScannerWrites \/ ProberWrites
  BY <1>1, UnchangedEffect DEF ScannerWrites, ProberWrites, tables, store
<1>2. CASE IngestLine
  BY <1>2, IngestLineEffect DEF IngestLine
<1>3. CASE IngestState \/ RetryLater \/ EndOfFile \/ BeginRun \/ PickRange
  BY <1>3, UnchangedEffect DEF IngestState, RetryLater, EndOfFile, BeginRun, PickRange, tables, store
<1>4. CASE MoveDeadline \/ RegradeRow \/ FinishRange \/ SweepRow \/ EndSweep
  BY <1>4, UnchangedEffect DEF MoveDeadline, RegradeRow, FinishRange, SweepRow, EndSweep, tables, store
<1>5. CASE ApplyPending
  BY <1>5, ApplyCorrectionKeepsRanges DEF ApplyPending
<1>6. CASE SyncParamHolds
  BY <1>6, SyncEffect DEF SyncParamHolds
<1>7. CASE Retention
  BY <1>7, RetentionEffect DEF Retention
<1>8. CASE IngestError \/ RunError \/ Crash
  BY <1>8, UnchangedEffect DEF IngestError, RunError, Crash, tables, store
<1>9. CASE Rebuild
  BY <1>9 DEF Rebuild
<1>10. CASE UNCHANGED holdVars
  BY <1>10, UnchangedEffect DEF holdVars, tables, store
<1> QED
  BY <1>1, <1>2, <1>3, <1>4, <1>5, <1>6, <1>7, <1>8, <1>9, <1>10 DEF Next, Pass, Failure

LEMMA InitFaultsCount == Init => FaultsCount
BY DEF Init, InitStore, FaultsCount

LEMMA FaultsCountAlways == Spec => []FaultsCount
<1>1. StoreInv /\ FaultsCount /\ [Next]_holdVars => FaultsCount'
  BY NextEffect
<1> QED
  BY <1>1, InitFaultsCount, StoreInvariant, PTL DEF Spec

(* A closed range stays closed and a verified one keeps its values, through *)
(* every step but the rebuild of the database.                             *)
THEOREM RangeNeverReopenedAlways == Spec => RangeNeverReopened
<1>1. StoreInv /\ FaultsCount /\ [Next]_holdVars =>
        [faults'.rebuild = faults.rebuild => KeepsRanges]_holdVars
  BY NextEffect
<1>2. [][faults'.rebuild = faults.rebuild => KeepsRanges]_holdVars => RangeNeverReopened
  BY PTL DEF RangeNeverReopened, KeepsRanges
<1> QED
  BY <1>1, <1>2, StoreInvariant, FaultsCountAlways, PTL DEF Spec

-----------------------------------------------------------------------------
(* Decisions are on record before they are in the tables. *)

(* The log is a sequence, reading it stays inside it, and a correction the *)
(* corrector is about to apply is in it.                                   *)
LogInv ==
  /\ corrFile \in Seq(Range(corrFile))
  /\ pos \in Nat /\ cur \in [Range(Files) -> Nat]
  /\ pending = NoLine \/ pending \in Range(corrFile)

LEMMA AppendToLog ==
  ASSUME corrFile \in Seq(Range(corrFile)), NEW line, corrFile' = Append(corrFile, line)
  PROVE  corrFile' \in Seq(Range(corrFile')) /\ Range(corrFile') = Range(corrFile) \cup {line}
<1> DEFINE S == Range(corrFile) \cup {line}
<1>1. corrFile \in Seq(S)
  BY SeqMonotonic
<1>2. /\ corrFile' \in Seq(S) /\ Len(corrFile') = Len(corrFile) + 1
      /\ \A j \in 1 .. Len(corrFile) : corrFile'[j] = corrFile[j]
      /\ corrFile'[Len(corrFile) + 1] = line
  BY <1>1, AppendProperties
<1>3. Len(corrFile) \in Nat /\ DOMAIN corrFile = 1 .. Len(corrFile) /\ DOMAIN corrFile' = 1 .. Len(corrFile) + 1
  BY <1>1, <1>2, LenProperties
<1>4. Range(corrFile') = S
  BY <1>2, <1>3 DEF Range
<1> QED
  BY <1>2, <1>4

LEMMA LogInvKept ==
  ASSUME LogInv, [Next]_holdVars
  PROVE  LogInv' /\ Range(corrFile) \subseteq Range(corrFile')
<1> USE DEF LogInv
<1>1. CASE ScannerWrites \/ ProberWrites
  BY <1>1 DEF ScannerWrites, ProberWrites, memory, store
<1>2. CASE IngestState \/ RetryLater \/ EndOfFile \/ IngestError
  BY <1>2, FilesRange DEF IngestState, RetryLater, EndOfFile, IngestError, Goto
<1>3. CASE IngestLine
  <2>1. pos' = pos + 1 /\ UNCHANGED <<corrFile, pending>> /\ (cur' = cur \/ cur' = [cur EXCEPT ![pc] = pos + 1])
    BY <1>3 DEF IngestLine
  <2> QED
    BY <2>1
<1>4. CASE BeginRun \/ PickRange \/ EndSweep \/ SyncParamHolds \/ Retention
  BY <1>4 DEF BeginRun, PickRange, EndSweep, SyncParamHolds, Retention, store
<1>5. CASE MoveDeadline \/ RegradeRow \/ FinishRange \/ SweepRow
  <2>1. UNCHANGED <<pos, cur>>
    BY <1>5 DEF MoveDeadline, RegradeRow, FinishRange, SweepRow, store
  <2>2. \/ UNCHANGED <<corrFile, pending>>
        \/ \E line : AppendCorrection(line)
    BY <1>5 DEF MoveDeadline, RegradeRow, FinishRange, SweepRow
  <2> QED
    BY <2>1, <2>2, AppendToLog DEF AppendCorrection
<1>6. CASE ApplyPending \/ RunError
  BY <1>6 DEF ApplyPending, RunError, store
<1>7. CASE Crash \/ Rebuild
  BY <1>7, FilesRange DEF Crash, Rebuild, Restart, EmptyStore, store
<1>8. CASE UNCHANGED holdVars
  BY <1>8 DEF holdVars, memory, store
<1> QED
  BY <1>1, <1>2, <1>3, <1>4, <1>5, <1>6, <1>7, <1>8 DEF Next, Pass, Failure

LEMMA ApplyCorrectionOnRecord ==
  ASSUME StoreInv, DecisionsOnRecord, NEW line \in Range(corrFile), ApplyCorrection(line),
         Range(corrFile) \subseteq Range(corrFile')
  PROVE  DecisionsOnRecord'
<1>1. CASE line.kind = "deadline"
  <2>1. pubs' = [pubs EXCEPT ![line.id].msu = line.to, ![line.id].movedBy = @ \cup {line.range}]
        /\ ranges' = ranges /\ rows' = rows
    BY <1>1 DEF ApplyCorrection
  <2>2. ASSUME NEW i \in DOMAIN pubs
        PROVE  \/ i = line.id /\ pubs'[i].msu = line.to
               \/ pubs'[i] = pubs[i]
    BY <2>1 DEF StoreInv, Shape, AreTables, PubShape
  <2>3. DOMAIN pubs' = DOMAIN pubs
    BY <2>1
  <2> QED
    BY <1>1, <2>1, <2>2, <2>3 DEF DecisionsOnRecord
<1>2. CASE line.kind = "verdict"
  <2> DEFINE key == <<line.id, line.point>>
  <2>1. rows' = [rows EXCEPT ![key].msu = line.to, ![key].fixedFor = @ \cup {line.range}]
        /\ pubs' = pubs /\ ranges' = ranges
    BY <1>2 DEF ApplyCorrection
  <2>2. ASSUME NEW k \in DOMAIN rows
        PROVE  \/ k = key /\ rows'[k].msu = line.to
               \/ rows'[k] = rows[k]
    <3> HIDE DEF key
    <3> QED
      BY <2>1 DEF StoreInv, Shape, AreTables, RowShape
  <2>3. DOMAIN rows' = DOMAIN rows
    BY <2>1
  <2> QED
    BY <1>2, <2>1, <2>2, <2>3 DEF DecisionsOnRecord
<1>3. CASE line.kind = "complete"
  <2>1. ranges' = [r \in DOMAIN ranges |->
                     IF r = line.range /\ ranges[r].resolution = "verified"
                     THEN [ranges[r] EXCEPT !.holds = FALSE, !.corrected = TRUE] ELSE ranges[r]]
        /\ pubs' = pubs /\ rows' = rows
    BY <1>3 DEF ApplyCorrection
  <2>2. DOMAIN ranges' = DOMAIN ranges /\ \A r \in DOMAIN ranges : r = line.range \/ ranges'[r] = ranges[r]
    BY <2>1
  <2>3. \A r \in DOMAIN ranges' :
          ranges'[r].corrected => \E c \in Range(corrFile') : c.kind = "complete" /\ c.range = r
    BY <1>3, <2>2 DEF DecisionsOnRecord
  <2>4. pubs' = pubs /\ rows' = rows
    BY <2>1
  <2> QED
    BY <2>3, <2>4 DEF DecisionsOnRecord
<1>4. CASE line.kind \notin {"deadline", "verdict", "complete"}
  <2>1. pubs' = pubs /\ ranges' = ranges /\ rows' = rows
    BY <1>4 DEF ApplyCorrection
  <2>2. DecidesNothing
    BY <2>1, UnchangedEffect DEF tables
  <2> QED
    BY <2>2 DEF DecidesNothing, DecisionsOnRecord
<1>5. line.kind \in {"deadline", "verdict", "complete"} \/ line.kind \notin {"deadline", "verdict", "complete"}
  OBVIOUS
<1> QED
  BY <1>1, <1>2, <1>3, <1>4, <1>5

LEMMA DecisionsKept ==
  ASSUME StoreInv, FaultsCount, LogInv, DecisionsOnRecord, [Next]_holdVars
  PROVE  DecisionsOnRecord'
<1>1. Range(corrFile) \subseteq Range(corrFile')
  BY LogInvKept
<1>2. CASE EmptyStore
  BY <1>2 DEF EmptyStore, DecisionsOnRecord
<1>3. CASE DecidesNothing
  BY <1>1, <1>3 DEF DecidesNothing, DecisionsOnRecord
<1>4. CASE IngestLine /\ pc = "corrs" /\ ApplyCorrection(corrFile[pos + 1])
  <2>1. pos \in Nat /\ pos < Len(corrFile)
    BY <1>4 DEF IngestLine, Reading, FileOf, LogInv
  <2>2. corrFile[pos + 1] \in Range(corrFile)
    BY <2>1, ElementOfSeq, LenProperties DEF LogInv
  <2> QED
    BY <1>1, <1>4, <2>2, ApplyCorrectionOnRecord
<1>5. CASE ApplyPending
  BY <1>1, <1>5, ApplyCorrectionOnRecord DEF ApplyPending, Idle, LogInv
<1> QED
  BY <1>2, <1>3, <1>4, <1>5, NextEffect

LEMMA InitDecisions == Init => LogInv /\ DecisionsOnRecord
<1> SUFFICES ASSUME Init PROVE LogInv /\ DecisionsOnRecord
  OBVIOUS
<1>1. corrFile = <<>> /\ pos = 0 /\ pending = NoLine
  BY DEF Init, InitStore
<1>2. corrFile \in Seq(Range(corrFile))
  BY <1>1, EmptySeq
<1> QED
  BY <1>1, <1>2 DEF Init, InitStore, LogInv, DecisionsOnRecord

(* Every closed range, moved deadline and re-graded row of the tables has  *)
(* its line in corrections.jsonl.                                          *)
THEOREM DecisionsOnRecordAlways == Spec => []DecisionsOnRecord
<1>1. StoreInv /\ FaultsCount /\ LogInv /\ DecisionsOnRecord /\ [Next]_holdVars =>
        LogInv' /\ DecisionsOnRecord'
  BY LogInvKept, DecisionsKept
<1> QED
  BY <1>1, InitDecisions, StoreInvariant, FaultsCountAlways, PTL DEF Spec

-----------------------------------------------------------------------------
(* params_history in order. *)

(* A table of entries has one for each key. *)
IsTable(es) ==
  /\ es \in SUBSET Entry /\ IsFiniteSet(es)
  /\ \A a, b \in es : SameKey(a, b) => a = b

(* Its rows in key order are a history. *)
LEMMA TableInOrder ==
  ASSUME NEW es, IsTable(es)
  PROVE  IsHistory(History(es))
<1> DEFINE less(a, b) == KeyLess(a.height, a.tx, b.height, b.tx)
           below(e) == {x \in es : less(x, e)}
           rank(e) == Cardinality(below(e))
           N == Cardinality(es)
<1>1. IsFiniteSet(es) /\ N \in Nat
  BY FS_CardinalityType DEF IsTable
<1>2. \A e \in es : e.height \in Nat /\ e.tx \in Int
  BY DEF IsTable, Entry
<1>3. \A a, b \in es : a = b \/ less(a, b) \/ less(b, a)
  BY <1>2 DEF IsTable, SameKey, KeyLess
<1>4. \A a, b \in es : less(a, b) => ~less(b, a) /\ a # b
  BY <1>2 DEF KeyLess
<1>5. \A a, b, c \in es : less(a, b) /\ less(b, c) => less(a, c)
  BY <1>2 DEF KeyLess
<1> HIDE DEF less
<1>6. ASSUME NEW e \in es
      PROVE  IsFiniteSet(below(e)) /\ rank(e) \in 0 .. N - 1
  <2>1. IsFiniteSet(es \ {e}) /\ Cardinality(es \ {e}) = N - 1
    BY <1>1, FS_RemoveElement
  <2>2. below(e) \in SUBSET (es \ {e})
    BY <1>4
  <2>3. IsFiniteSet(below(e)) /\ rank(e) <= N - 1
    BY <2>1, <2>2, FS_Subset
  <2>4. rank(e) \in Nat
    BY <2>3, FS_CardinalityType
  <2> QED
    BY <1>1, <2>3, <2>4
<1>7. ASSUME NEW a \in es, NEW b \in es, less(a, b)
      PROVE  rank(a) < rank(b)
  <2>1. below(a) \cup {a} \in SUBSET below(b)
    BY <1>5, <1>7
  <2>2. a \notin below(a)
    BY <1>4
  <2>3. Cardinality(below(a) \cup {a}) = rank(a) + 1
    BY <1>6, <2>2, FS_AddElement
  <2>4. rank(a) + 1 <= rank(b)
    <3> HIDE DEF below
    <3> QED
      BY <1>6, <2>1, <2>3, FS_Subset
  <2> HIDE DEF below
  <2> QED
    BY <1>6, <2>4
<1> HIDE DEF below
<1>8. \A a, b \in es : rank(a) = rank(b) => a = b
  BY <1>3, <1>6, <1>7
<1>9. ASSUME NEW n \in 1 .. N
      PROVE  \E e \in es : rank(e) = n - 1
  <2> SUFFICES ASSUME \A e \in es : rank(e) # n - 1 PROVE FALSE
    OBVIOUS
  <2> DEFINE T == (0 .. N - 1) \ {n - 1}
             f == [e \in es |-> rank(e)]
  <2>1. IsFiniteSet(0 .. N - 1) /\ Cardinality(0 .. N - 1) = N
    <3>1. 0 \in Int /\ N - 1 \in Int /\ N \in Nat
      BY <1>1
    <3> HIDE DEF N
    <3> QED
      BY <3>1, FS_Interval
  <2>2. IsFiniteSet(T) /\ Cardinality(T) = N - 1
    <3>1. n - 1 \in 0 .. N - 1
      BY <1>1
    <3> HIDE DEF N
    <3> QED
      BY <2>1, <3>1, FS_RemoveElement
  <2>3. f \in [es -> T]
    BY <1>6
  <2>4. \E a, b \in es : a # b /\ f[a] = f[b]
    <3> HIDE DEF T, f
    <3> QED
      BY <1>1, <2>2, <2>3, FS_PigeonHole
  <2> QED
    BY <1>8, <2>4
<1> DEFINE row(n) == CHOOSE e \in es : rank(e) = n - 1
<1>10. \A n \in 1 .. N : row(n) \in es /\ rank(row(n)) = n - 1
  BY <1>9
<1>11. History(es) = [n \in 1 .. N |-> row(n)]
  BY DEF History, rank, below, less
<1> HIDE DEF row, rank, N
<1>12. \A n \in 1 .. N : row(n) \in Entry
  BY <1>10 DEF IsTable
<1>13. History(es) \in Seq(Entry) /\ Len(History(es)) = N /\ \A n \in 1 .. N : History(es)[n] = row(n)
  BY <1>1, <1>11, <1>12, IsASeq
<1>14. ASSUME NEW i \in 1 .. N, NEW j \in 1 .. N, i < j
       PROVE  ~less(row(j), row(i))
  BY <1>1, <1>7, <1>10, <1>14
<1> QED
  BY <1>13, <1>14 DEF IsHistory, less

-----------------------------------------------------------------------------
(* What the files of the scanner and the prober hold. *)

MeasLine == [id : PubIds, point : Points, msu : Nat]

(* publications.jsonl stamps the publication with this deadline. *)
Stamped(i, t) == \E j \in DOMAIN pubFile : pubFile[j].id = i /\ pubFile[j].msu = t

FilesInv ==
  /\ script \in ScannerRuns /\ written \in Nat
  /\ pubFile \in Seq(PubLine) /\ rangeFile \in Seq(RangeLine) /\ stateHist \in Seq(EntryType) /\ measFile \in Seq(MeasLine)
  /\ \A j \in DOMAIN pubFile : \E n \in DOMAIN script : script[n].file = "pubs" /\ script[n].line = pubFile[j]
  /\ \A j \in DOMAIN measFile : Stamped(measFile[j].id, measFile[j].msu)

LEMMA Appended ==
  ASSUME NEW S, NEW s \in Seq(S), NEW e \in S
  PROVE  /\ Append(s, e) \in Seq(S) /\ Len(s) \in Nat
         /\ DOMAIN s = 1 .. Len(s) /\ DOMAIN Append(s, e) = 1 .. Len(s) + 1
         /\ \A j \in DOMAIN s : j \in DOMAIN Append(s, e) /\ Append(s, e)[j] = s[j]
         /\ \A j \in DOMAIN Append(s, e) : j \in DOMAIN s \/ Append(s, e)[j] = e
<1>1. /\ Append(s, e) \in Seq(S) /\ Len(Append(s, e)) = Len(s) + 1
      /\ \A j \in 1 .. Len(s) : Append(s, e)[j] = s[j]
      /\ Append(s, e)[Len(s) + 1] = e
  BY AppendProperties
<1>2. Len(s) \in Nat /\ DOMAIN s = 1 .. Len(s) /\ DOMAIN Append(s, e) = 1 .. Len(s) + 1
  BY <1>1, LenProperties
<1> QED
  BY <1>1, <1>2

(* A publication is stamped once. *)
LEMMA StampedOnce ==
  ASSUME FilesInv, NEW i, NEW t, NEW u, Stamped(i, t), Stamped(i, u)
  PROVE  t = u
<1>1. PICK j \in DOMAIN pubFile : pubFile[j].id = i /\ pubFile[j].msu = t
  BY DEF Stamped
<1>2. PICK k \in DOMAIN pubFile : pubFile[k].id = i /\ pubFile[k].msu = u
  BY DEF Stamped
<1>3. PICK n \in DOMAIN script : script[n].file = "pubs" /\ script[n].line = pubFile[j]
  BY DEF FilesInv
<1>4. PICK m \in DOMAIN script : script[m].file = "pubs" /\ script[m].line = pubFile[k]
  BY DEF FilesInv
<1>5. script[n] = script[m]
  BY <1>1, <1>2, <1>3, <1>4, HoldAssumption DEF FilesInv
<1> QED
  BY <1>1, <1>2, <1>3, <1>4, <1>5

LEMMA InitFiles == Init => FilesInv
<1> SUFFICES ASSUME Init PROVE FilesInv
  OBVIOUS
<1>1. DOMAIN pubFile = {} /\ DOMAIN measFile = {}
  BY DEF Init
<1> QED
  BY <1>1, EmptySeq DEF Init, FilesInv

LEMMA ScannerWritesFiles ==
  ASSUME FilesInv, ScannerWrites
  PROVE  FilesInv' /\ \A i, t : Stamped(i, t) => Stamped(i, t)'
<1> DEFINE w == script[written + 1]
<1>1. /\ written < Len(script) /\ written' = written + 1
      /\ pubFile' = IF w.file = "pubs" THEN Append(pubFile, w.line) ELSE pubFile
      /\ rangeFile' = IF w.file = "ranges" THEN Append(rangeFile, w.line) ELSE rangeFile
      /\ stateHist' = IF w.file = "state" THEN w.line ELSE stateHist
      /\ UNCHANGED <<script, measFile>>
  BY DEF ScannerWrites
<1>2. w \in Write /\ written + 1 \in DOMAIN script
  <2>1. script \in Seq(Write)
    BY HoldAssumption DEF FilesInv
  <2>2. Len(script) \in Nat /\ DOMAIN script = 1 .. Len(script)
    BY <2>1, LenProperties
  <2>3. written + 1 \in 1 .. Len(script)
    BY <1>1, <2>2 DEF FilesInv
  <2> QED
    BY <2>1, <2>2, <2>3, ElementOfSeq
<1>3. /\ w.file = "pubs" => w.line \in PubLine
      /\ w.file = "ranges" => w.line \in RangeLine
      /\ w.file = "state" => w.line \in Seq(EntryType)
  <2> HIDE DEF w
  <2> QED
    BY <1>2 DEF Write
<1>4. pubFile' \in Seq(PubLine) /\ rangeFile' \in Seq(RangeLine) /\ stateHist' \in Seq(EntryType)
  BY <1>1, <1>3, Appended DEF FilesInv
<1> HIDE DEF w
<1>5. \A j \in DOMAIN pubFile' :
        \/ j \in DOMAIN pubFile /\ pubFile'[j] = pubFile[j]
        \/ w.file = "pubs" /\ pubFile'[j] = w.line
  <2>1. CASE w.file = "pubs"
    <3>1. w.line \in PubLine /\ pubFile \in Seq(PubLine) /\ pubFile' = Append(pubFile, w.line)
      BY <1>1, <1>3, <2>1 DEF FilesInv
    <3>2. /\ \A j \in DOMAIN Append(pubFile, w.line) : j \in DOMAIN pubFile \/ Append(pubFile, w.line)[j] = w.line
          /\ \A j \in DOMAIN pubFile : Append(pubFile, w.line)[j] = pubFile[j]
      BY <3>1, Appended
    <3> QED
      BY <2>1, <3>1, <3>2
  <2>2. CASE w.file # "pubs"
    <3>1. pubFile' = pubFile
      BY <1>1, <2>2
    <3> QED
      BY <3>1
  <2> QED
    BY <2>1, <2>2
<1>6. \A j \in DOMAIN pubFile' : \E n \in DOMAIN script : script[n].file = "pubs" /\ script[n].line = pubFile'[j]
  BY <1>2, <1>5 DEF FilesInv, w
<1>7. \A j \in DOMAIN pubFile : j \in DOMAIN pubFile' /\ pubFile'[j] = pubFile[j]
  BY <1>1, <1>3, Appended DEF FilesInv
<1>8. \A i, t : Stamped(i, t) => Stamped(i, t)'
  BY <1>7 DEF Stamped
<1>9. \A j \in DOMAIN measFile : Stamped(measFile[j].id, measFile[j].msu)'
  <2> SUFFICES ASSUME NEW j \in DOMAIN measFile
               PROVE  \E n \in DOMAIN pubFile' : pubFile'[n].id = measFile[j].id /\ pubFile'[n].msu = measFile[j].msu
    BY <1>1 DEF Stamped
  <2>1. PICK n \in DOMAIN pubFile : pubFile[n].id = measFile[j].id /\ pubFile[n].msu = measFile[j].msu
    BY DEF FilesInv, Stamped
  <2> QED
    BY <1>7, <2>1
<1> QED
  BY <1>1, <1>4, <1>6, <1>8, <1>9 DEF FilesInv

LEMMA ProberWritesFiles ==
  ASSUME FilesInv, ProberWrites
  PROVE  FilesInv' /\ \A i, t : Stamped(i, t) => Stamped(i, t)'
<1>1. UNCHANGED <<script, written, pubFile, rangeFile, stateHist>>
  BY DEF ProberWrites
<1>2. PICK j \in DOMAIN pubFile, point \in Points :
        measFile' = Append(measFile, [id |-> pubFile[j].id, point |-> point, msu |-> pubFile[j].msu])
  BY DEF ProberWrites
<1> DEFINE line == [id |-> pubFile[j].id, point |-> point, msu |-> pubFile[j].msu]
<1>3. pubFile[j] \in PubLine
  BY ElementOfSeq, LenProperties DEF FilesInv
<1>4. line \in MeasLine /\ line.id = pubFile[j].id /\ line.msu = pubFile[j].msu
  BY <1>3 DEF PubLine, MeasLine
<1> HIDE DEF line
<1>5. measFile' = Append(measFile, line)
  BY <1>2 DEF line
<1>6. /\ measFile' \in Seq(MeasLine)
      /\ \A n \in DOMAIN measFile' : (n \in DOMAIN measFile /\ measFile'[n] = measFile[n]) \/ measFile'[n] = line
  BY <1>4, <1>5, Appended DEF FilesInv
<1>7. \A n \in DOMAIN measFile' : Stamped(measFile'[n].id, measFile'[n].msu)
  BY <1>4, <1>6 DEF FilesInv, Stamped
<1> QED
  BY <1>1, <1>6, <1>7 DEF FilesInv, Stamped

LEMMA FilesKept ==
  ASSUME FilesInv, [Next]_holdVars
  PROVE  FilesInv' /\ \A i, t : Stamped(i, t) => Stamped(i, t)'
<1>1. CASE ScannerWrites
  BY <1>1, ScannerWritesFiles
<1>2. CASE ProberWrites
  BY <1>2, ProberWritesFiles
<1>3. CASE UNCHANGED files
  BY <1>3 DEF files, FilesInv, Stamped
<1>4. Pass => UNCHANGED files
  BY DEF Pass, IngestState, IngestLine, RetryLater, EndOfFile, BeginRun, PickRange, MoveDeadline, RegradeRow,
         FinishRange, ApplyPending, SweepRow, EndSweep, SyncParamHolds, Retention
<1>5. Failure => UNCHANGED files
  BY DEF Failure, IngestError, RunError, Crash, Rebuild
<1> QED
  BY <1>1, <1>2, <1>3, <1>4, <1>5 DEF Next, holdVars

-----------------------------------------------------------------------------
(* Deadlines of publications and rows. *)

(* A deadline is at most the one stamped, and that one unless a correction *)
(* moved it; a row no correction re-graded was drawn against the stamp.    *)
PubRight(i) ==
  /\ pubs[i].promise \in Nat /\ pubs[i].settle \in Nat /\ pubs[i].tx \in Nat
  /\ pubs[i].stamped \in Nat /\ Stamped(i, pubs[i].stamped)
  /\ pubs[i].msu \in Nat /\ pubs[i].msu <= pubs[i].stamped
  /\ pubs[i].movedBy = {} => pubs[i].msu = pubs[i].stamped

RowRight(k) == rows[k].fixedFor = {} => Stamped(k[1], rows[k].msu)

DeadlinesInv ==
  /\ \A i \in DOMAIN pubs : PubRight(i)
  /\ \A k \in DOMAIN rows : RowRight(k)

(* A correction on record moves a deadline back. *)
LinesInv ==
  \A c \in Range(corrFile) : c.kind = "deadline" =>
    c.to \in Nat /\ \E t \in Nat : c.to < t /\ Stamped(c.id, t)

StampsStay == \A i, t : Stamped(i, t) => Stamped(i, t)'

(* A statement on holds, orphans and records moves no deadline. *)
DeadlinesStay ==
  /\ DOMAIN pubs' = DOMAIN pubs /\ DOMAIN rows' = DOMAIN rows
  /\ \A i \in DOMAIN pubs :
       /\ pubs'[i].promise = pubs[i].promise /\ pubs'[i].settle = pubs[i].settle /\ pubs'[i].tx = pubs[i].tx
       /\ pubs'[i].msu = pubs[i].msu /\ pubs'[i].stamped = pubs[i].stamped /\ pubs'[i].movedBy = pubs[i].movedBy
  /\ \A k \in DOMAIN rows : rows'[k].msu = rows[k].msu /\ rows'[k].fixedFor = rows[k].fixedFor

LEMMA UpsertRangeStays ==
  ASSUME StoreInv, NEW line, UpsertRange(line)
  PROVE  /\ DeadlinesStay
         /\ \A k \in DOMAIN rows : rows'[k].orphan = rows[k].orphan /\ (rows[k].held => rows'[k].held)
<1> DEFINE raised == IF Upserted(line).holds THEN Covered(RangeId(line)) ELSE {}
           heldNow(i) == pubs[i].held \/ i \in raised
           rowHeldNow(k) == rows[k].held \/ k[1] \in raised
<1>1. /\ DOMAIN pubs' = DOMAIN pubs /\ \A i \in DOMAIN pubs : pubs'[i] = [pubs[i] EXCEPT !.held = heldNow(i)]
      /\ DOMAIN rows' = DOMAIN rows /\ \A k \in DOMAIN rows : rows'[k] = [rows[k] EXCEPT !.held = rowHeldNow(k)]
  BY DEF UpsertRange
<1>2. \A k : rows[k].held => rowHeldNow(k)
  OBVIOUS
<1> HIDE DEF heldNow, rowHeldNow
<1>3. \A k \in DOMAIN rows : /\ rows'[k].msu = rows[k].msu /\ rows'[k].fixedFor = rows[k].fixedFor
                             /\ rows'[k].orphan = rows[k].orphan /\ rows'[k].held = rowHeldNow(k)
  BY <1>1 DEF StoreInv, Shape, RowShape
<1>4. \A i \in DOMAIN pubs :
        /\ pubs'[i].promise = pubs[i].promise /\ pubs'[i].settle = pubs[i].settle /\ pubs'[i].tx = pubs[i].tx
        /\ pubs'[i].msu = pubs[i].msu /\ pubs'[i].stamped = pubs[i].stamped /\ pubs'[i].movedBy = pubs[i].movedBy
  BY <1>1 DEF StoreInv, Shape, PubShape
<1> QED
  BY <1>1, <1>2, <1>3, <1>4 DEF DeadlinesStay

LEMMA RecomputeStays ==
  ASSUME StoreInv, RecomputeHolds
  PROVE  /\ DeadlinesStay
         /\ \A k \in DOMAIN rows :
              /\ Stored(k) /\ Stale(k) /\ (rows[k].held \/ pubs[k[1]].movedBy # {}) => rows'[k].held
              /\ ~Stored(k) => rows'[k].orphan
<1> DEFINE covered(i) == Withheld(pubs[i])
           rowHeld(k) == Stored(k) /\ (pubs'[k[1]].held \/ (Stale(k) /\ (rows[k].held \/ pubs[k[1]].movedBy # {})))
           early(k) == ~Stored(k)
<1>1. /\ DOMAIN pubs' = DOMAIN pubs /\ \A i \in DOMAIN pubs : pubs'[i] = [pubs[i] EXCEPT !.held = covered(i)]
      /\ DOMAIN rows' = DOMAIN rows
      /\ \A k \in DOMAIN rows : rows'[k] = [rows[k] EXCEPT !.held = rowHeld(k), !.orphan = early(k)]
  BY DEF RecomputeHolds
<1>2. \A k : /\ Stored(k) /\ Stale(k) /\ (rows[k].held \/ pubs[k[1]].movedBy # {}) => rowHeld(k)
             /\ ~Stored(k) => early(k)
  OBVIOUS
<1> HIDE DEF covered, rowHeld, early
<1>3. \A k \in DOMAIN rows : /\ rows'[k].msu = rows[k].msu /\ rows'[k].fixedFor = rows[k].fixedFor
                             /\ rows'[k].orphan = early(k) /\ rows'[k].held = rowHeld(k)
  BY <1>1 DEF StoreInv, Shape, RowShape
<1>4. ASSUME NEW i \in DOMAIN pubs
      PROVE  /\ pubs'[i].promise = pubs[i].promise /\ pubs'[i].settle = pubs[i].settle /\ pubs'[i].tx = pubs[i].tx
             /\ pubs'[i].msu = pubs[i].msu /\ pubs'[i].stamped = pubs[i].stamped /\ pubs'[i].movedBy = pubs[i].movedBy
  <2>1. pubs'[i] = [pubs[i] EXCEPT !.held = covered(i)]
    BY <1>1
  <2> QED
    BY <2>1 DEF StoreInv, Shape, PubShape
<1> QED
  BY <1>1, <1>2, <1>3, <1>4 DEF DeadlinesStay

LEMMA RetentionStays ==
  ASSUME StoreInv, Retention
  PROVE  /\ DeadlinesStay /\ pubs' = pubs
         /\ \A k \in DOMAIN rows : rows'[k].held = rows[k].held /\ rows'[k].orphan = rows[k].orphan
<1>1. pubs' = pubs /\ (rows' = rows \/ \E k \in DOMAIN rows : rows' = [rows EXCEPT ![k].raw = FALSE])
  BY DEF Retention
<1>2. ASSUME NEW strip \in DOMAIN rows, rows' = [rows EXCEPT ![strip].raw = FALSE], NEW k \in DOMAIN rows
      PROVE  /\ rows'[k].msu = rows[k].msu /\ rows'[k].fixedFor = rows[k].fixedFor
             /\ rows'[k].held = rows[k].held /\ rows'[k].orphan = rows[k].orphan
  <2>1. rows'[k] = IF k = strip THEN [rows[k] EXCEPT !.raw = FALSE] ELSE rows[k]
    BY <1>2 DEF StoreInv, Shape, AreTables
  <2> QED
    BY <2>1 DEF StoreInv, Shape, RowShape
<1>3. DOMAIN rows' = DOMAIN rows
  BY <1>1
<1> QED
  BY <1>1, <1>2, <1>3 DEF DeadlinesStay

LEMMA StayRight ==
  ASSUME DeadlinesInv, DeadlinesStay, StampsStay
  PROVE  DeadlinesInv'
<1>1. ASSUME NEW i \in DOMAIN pubs PROVE PubRight(i)'
  BY <1>1 DEF DeadlinesInv, DeadlinesStay, StampsStay, PubRight
<1>2. ASSUME NEW k \in DOMAIN rows PROVE RowRight(k)'
  BY <1>2 DEF DeadlinesInv, DeadlinesStay, StampsStay, RowRight
<1> QED
  BY <1>1, <1>2 DEF DeadlinesInv, DeadlinesStay

-----------------------------------------------------------------------------
(* What a step does to the tables. *)

(* A line of a file the pass reads is in that file. *)
LEMMA LineRead ==
  ASSUME FilesInv, LogInv, Reading
  PROVE  /\ pc = "pubs" => pubFile[pos + 1] \in PubLine /\ Stamped(pubFile[pos + 1].id, pubFile[pos + 1].msu)
         /\ pc = "ranges" => rangeFile[pos + 1] \in RangeLine
         /\ pc = "corrs" => pos < Len(corrFile) /\ corrFile[pos + 1] \in Range(corrFile)
         /\ pc = "meas" => Stamped(measFile[pos + 1].id, measFile[pos + 1].msu)
<1>1. ASSUME NEW S, NEW s \in Seq(S), pos < Len(s)
      PROVE  pos + 1 \in DOMAIN s /\ s[pos + 1] \in S
  BY <1>1, ElementOfSeq, LenProperties DEF LogInv
<1>2. pos < Len(FileOf(pc))
  BY DEF Reading
<1>3. ASSUME pc = "pubs" PROVE pubFile[pos + 1] \in PubLine /\ Stamped(pubFile[pos + 1].id, pubFile[pos + 1].msu)
  BY <1>1, <1>2, <1>3 DEF FileOf, FilesInv, Stamped
<1>4. ASSUME pc = "ranges" PROVE rangeFile[pos + 1] \in RangeLine
  BY <1>1, <1>2, <1>4 DEF FileOf, FilesInv
<1>5. ASSUME pc = "corrs" PROVE pos < Len(corrFile) /\ corrFile[pos + 1] \in Range(corrFile)
  BY <1>1, <1>2, <1>5 DEF FileOf, LogInv
<1>6. ASSUME pc = "meas" PROVE Stamped(measFile[pos + 1].id, measFile[pos + 1].msu)
  BY <1>1, <1>2, <1>6 DEF FileOf, FilesInv
<1> QED
  BY <1>3, <1>4, <1>5, <1>6

(* One statement of the store, on a line that is on record. *)
Statement ==
  \/ UNCHANGED tables
  \/ pc = "pubs" /\ \E line \in PubLine : Stamped(line.id, line.msu) /\ UpsertPublication(line)
  \/ pc = "ranges" /\ \E line \in RangeLine : UpsertRange(line)
  \/ pc = "meas" /\ \E line : Stamped(line.id, line.msu) /\ InsertProbe(line)
  \/ pc = "sync" /\ RecomputeHolds /\ ranges' = ranges
  \/ Retention
  \/ EmptyStore

LEMMA StepIs ==
  ASSUME FilesInv, LogInv, [Next]_holdVars
  PROVE  \/ Statement
         \/ IngestLine /\ pc = "corrs" /\ pos < Len(corrFile) /\ ApplyCorrection(corrFile[pos + 1])
         \/ ApplyPending
<1> USE DEF Statement, tables, store
<1>1. CASE IngestLine
  <2>1. Handle(FileOf(pc)[pos + 1]) /\ Reading /\ pc \in {"pubs", "ranges", "corrs", "meas"}
    BY <1>1, FilesRange DEF IngestLine, Reading
  <2>2. CASE pc = "pubs"
    <3>1. UpsertPublication(pubFile[pos + 1])
      BY <2>1, <2>2 DEF Handle, FileOf
    <3> QED
      BY <2>1, <2>2, <3>1, LineRead
  <2>3. CASE pc = "ranges"
    <3>1. UNCHANGED <<pubs, ranges, rows>> \/ UpsertRange(rangeFile[pos + 1])
      BY <2>1, <2>3 DEF Handle, FileOf
    <3> QED
      BY <2>1, <2>3, <3>1, LineRead
  <2>4. CASE pc = "corrs"
    <3>1. ApplyCorrection(corrFile[pos + 1])
      BY <2>1, <2>4 DEF Handle, FileOf
    <3> QED
      BY <1>1, <2>1, <2>4, <3>1, LineRead
  <2>5. CASE pc = "meas"
    <3>1. InsertProbe(measFile[pos + 1])
      BY <2>1, <2>5 DEF Handle, FileOf
    <3> QED
      BY <2>1, <2>5, <3>1, LineRead
  <2> QED
    BY <2>1, <2>2, <2>3, <2>4, <2>5
<1>2. CASE ScannerWrites \/ ProberWrites
  BY <1>2 DEF ScannerWrites, ProberWrites
<1>3. CASE IngestState \/ RetryLater \/ EndOfFile \/ BeginRun \/ PickRange
  BY <1>3 DEF IngestState, RetryLater, EndOfFile, BeginRun, PickRange
<1>4. CASE MoveDeadline \/ RegradeRow \/ FinishRange \/ SweepRow \/ EndSweep
  BY <1>4 DEF MoveDeadline, RegradeRow, FinishRange, SweepRow, EndSweep
<1>5. CASE SyncParamHolds
  BY <1>5 DEF SyncParamHolds
<1>6. CASE IngestError \/ RunError \/ Crash
  BY <1>6 DEF IngestError, RunError, Crash
<1>7. CASE Rebuild
  BY <1>7 DEF Rebuild
<1>8. CASE UNCHANGED holdVars
  BY <1>8 DEF holdVars
<1> QED
  BY <1>1, <1>2, <1>3, <1>4, <1>5, <1>6, <1>7, <1>8 DEF Next, Pass, Failure

-----------------------------------------------------------------------------
(* Deadlines, step by step. *)

LEMMA UpsertPublicationRight ==
  ASSUME DeadlinesInv, StampsStay, NEW line \in PubLine, Stamped(line.id, line.msu), UpsertPublication(line)
  PROVE  DeadlinesInv'
<1> DEFINE born == Withheld(line)
           row == [promise |-> line.promise, settle |-> line.settle, tx |-> line.tx, msu |-> line.msu,
                   stamped |-> line.msu, movedBy |-> {}, held |-> born]
<1>1. /\ pubs' = IF line.id \in DOMAIN pubs THEN pubs ELSE With(pubs, line.id, row)
      /\ rows' = rows
  BY DEF UpsertPublication
<1>2. /\ row.promise \in Nat /\ row.settle \in Nat /\ row.tx \in Nat
      /\ row.msu \in Nat /\ row.stamped = row.msu /\ row.msu = line.msu
  BY DEF PubLine
<1> HIDE DEF born, row
<1>3. ASSUME NEW i \in DOMAIN pubs'
      PROVE  \/ i \in DOMAIN pubs /\ pubs'[i] = pubs[i]
             \/ i = line.id /\ pubs'[i] = row
  BY <1>1 DEF With
<1>4. ASSUME NEW i \in DOMAIN pubs' PROVE PubRight(i)'
  <2>1. CASE i \in DOMAIN pubs /\ pubs'[i] = pubs[i]
    BY <2>1 DEF DeadlinesInv, StampsStay, PubRight
  <2>2. CASE i = line.id /\ pubs'[i] = row
    BY <1>2, <2>2 DEF StampsStay, PubRight
  <2> QED
    BY <1>3, <2>1, <2>2
<1>5. ASSUME NEW k \in DOMAIN rows PROVE RowRight(k)'
  BY <1>1 DEF DeadlinesInv, StampsStay, RowRight
<1> QED
  BY <1>1, <1>4, <1>5 DEF DeadlinesInv

LEMMA InsertProbeRight ==
  ASSUME DeadlinesInv, StampsStay, NEW line, Stamped(line.id, line.msu), InsertProbe(line)
  PROVE  DeadlinesInv'
<1> DEFINE key == <<line.id, line.point>>
           born == HeldAtInsert(line)
           early == line.id \notin DOMAIN pubs
           row == [msu |-> line.msu, held |-> born, raw |-> TRUE, fixedFor |-> {}, orphan |-> early]
<1>1. /\ rows' = IF key \in DOMAIN rows THEN rows ELSE With(rows, key, row)
      /\ pubs' = pubs
  BY DEF InsertProbe
<1>2. row.msu = line.msu /\ key[1] = line.id
  OBVIOUS
<1> HIDE DEF key, born, early, row
<1>3. ASSUME NEW k \in DOMAIN rows' PROVE RowRight(k)'
  <2>1. \/ k \in DOMAIN rows /\ rows'[k] = rows[k]
        \/ k = key /\ rows'[k] = row
    BY <1>1 DEF With
  <2> QED
    BY <1>2, <2>1 DEF DeadlinesInv, StampsStay, RowRight
<1>4. ASSUME NEW i \in DOMAIN pubs PROVE PubRight(i)'
  BY <1>1 DEF DeadlinesInv, StampsStay, PubRight
<1> QED
  BY <1>1, <1>3, <1>4 DEF DeadlinesInv

(* A correction moves a publication's deadline back from the stamp, and    *)
(* leaves its name on what it moved.                                       *)
LEMMA ApplyCorrectionIs ==
  ASSUME StoreInv, NEW line, ApplyCorrection(line)
  PROVE  /\ DOMAIN pubs' = DOMAIN pubs /\ DOMAIN rows' = DOMAIN rows /\ DOMAIN ranges' = DOMAIN ranges
         /\ \A i \in DOMAIN pubs :
              \/ pubs'[i] = pubs[i]
              \/ /\ line.kind = "deadline" /\ i = line.id
                 /\ pubs'[i] = [pubs[i] EXCEPT !.msu = line.to, !.movedBy = @ \cup {line.range}]
         /\ \A k \in DOMAIN rows :
              \/ rows'[k] = rows[k]
              \/ /\ line.kind = "verdict" /\ k = <<line.id, line.point>>
                 /\ rows'[k] = [rows[k] EXCEPT !.msu = line.to, !.fixedFor = @ \cup {line.range}]
         /\ \A r \in DOMAIN ranges :
              \/ ranges'[r] = ranges[r]
              \/ /\ line.kind = "complete" /\ r = line.range
                 /\ ranges'[r] = [ranges[r] EXCEPT !.holds = FALSE, !.corrected = TRUE]
<1>1. CASE line.kind = "deadline"
  BY <1>1 DEF ApplyCorrection, StoreInv, Shape, AreTables
<1>2. CASE line.kind = "verdict"
  <2> DEFINE key == <<line.id, line.point>>
  <2>1. rows' = [rows EXCEPT ![key].msu = line.to, ![key].fixedFor = @ \cup {line.range}]
        /\ pubs' = pubs /\ ranges' = ranges
    BY <1>2 DEF ApplyCorrection
  <2> HIDE DEF key
  <2>2. ASSUME NEW k \in DOMAIN rows
        PROVE  \/ rows'[k] = rows[k]
               \/ k = key /\ rows'[k] = [rows[k] EXCEPT !.msu = line.to, !.fixedFor = @ \cup {line.range}]
    BY <2>1 DEF StoreInv, Shape, AreTables
  <2> QED
    BY <1>2, <2>1, <2>2 DEF key
<1>3. CASE line.kind = "complete"
  BY <1>3 DEF ApplyCorrection
<1>4. CASE line.kind \notin {"deadline", "verdict", "complete"}
  BY <1>4 DEF ApplyCorrection
<1> QED
  BY <1>1, <1>2, <1>3, <1>4

LEMMA ApplyCorrectionRight ==
  ASSUME StoreInv, FilesInv, DeadlinesInv, LinesInv, StampsStay, NEW line \in Range(corrFile), ApplyCorrection(line)
  PROVE  DeadlinesInv'
<1>1. ASSUME NEW i \in DOMAIN pubs PROVE PubRight(i)'
  <2>1. CASE pubs'[i] = pubs[i]
    BY <2>1 DEF DeadlinesInv, StampsStay, PubRight
  <2>2. CASE /\ line.kind = "deadline" /\ i = line.id
             /\ pubs'[i] = [pubs[i] EXCEPT !.msu = line.to, !.movedBy = @ \cup {line.range}]
    <3>1. PICK t \in Nat : line.to \in Nat /\ line.to < t /\ Stamped(line.id, t)
      BY <2>2 DEF LinesInv
    <3>2. t = pubs[i].stamped
      BY <2>2, <3>1, StampedOnce DEF DeadlinesInv, PubRight
    <3>3. /\ pubs'[i].promise = pubs[i].promise /\ pubs'[i].settle = pubs[i].settle /\ pubs'[i].tx = pubs[i].tx
          /\ pubs'[i].stamped = pubs[i].stamped /\ pubs'[i].msu = line.to /\ pubs'[i].movedBy # {}
      BY <2>2 DEF StoreInv, Shape, PubShape
    <3> QED
      BY <3>1, <3>2, <3>3 DEF DeadlinesInv, StampsStay, PubRight
  <2> QED
    BY <2>1, <2>2, ApplyCorrectionIs
<1>2. ASSUME NEW k \in DOMAIN rows PROVE RowRight(k)'
  <2>1. CASE rows'[k] = rows[k]
    BY <2>1 DEF DeadlinesInv, StampsStay, RowRight
  <2>2. CASE rows'[k] = [rows[k] EXCEPT !.msu = line.to, !.fixedFor = @ \cup {line.range}]
    BY <2>2 DEF StoreInv, Shape, RowShape, RowRight
  <2> QED
    BY <2>1, <2>2, ApplyCorrectionIs
<1> QED
  BY <1>1, <1>2, ApplyCorrectionIs DEF DeadlinesInv

-----------------------------------------------------------------------------
(* params_history and the values of the ranges. *)

ValuesInv ==
  /\ IsTable(base)
  /\ \A r \in DOMAIN ranges : AreValues(ranges[r].values)

LEMMA IngestStateTable ==
  ASSUME FilesInv, IsTable(base), IngestState
  PROVE  IsTable(base)'
<1> DEFINE J == {i \in DOMAIN stateHist :
                   /\ \A e \in base : ~SameKey(e, stateHist[i])
                   /\ \A k \in 1 .. i - 1 : ~SameKey(stateHist[k], stateHist[i])}
           new == {stateHist[j] : j \in J}
<1>1. base' = base \cup new \/ base' = base
  BY DEF IngestState
<1>2. /\ Len(stateHist) \in Nat /\ DOMAIN stateHist = 1 .. Len(stateHist)
      /\ \A j \in DOMAIN stateHist : stateHist[j] \in Entry
  <2>1. EntryType = Entry
    BY DEF EntryType, Entry, Values
  <2> QED
    BY <2>1, LenProperties, ElementOfSeq DEF FilesInv
<1>3. IsFiniteSet(new)
  <2>1. IsFiniteSet(1 .. Len(stateHist))
    BY <1>2, FS_Interval
  <2>2. IsFiniteSet(J)
    BY <1>2, <2>1, FS_Subset
  <2> DEFINE f == [j \in J |-> stateHist[j]]
  <2>3. f \in Surjection(J, new)
    BY DEF Surjection
  <2> HIDE DEF f, J, new
  <2> QED
    BY <2>2, <2>3, FS_Surjection
<1>4. new \in SUBSET Entry
  BY <1>2
<1>5. \A e \in Entry : e.height \in Nat /\ e.tx \in Int
  BY DEF Entry
<1>6. \A a, b \in new : SameKey(a, b) => a = b
  <2> SUFFICES ASSUME NEW i \in J, NEW j \in J, SameKey(stateHist[i], stateHist[j])
               PROVE  i = j
    OBVIOUS
  <2>1. SameKey(stateHist[j], stateHist[i])
    BY DEF SameKey
  <2>2. i \in Nat /\ j \in Nat /\ i \in 1 .. Len(stateHist) /\ j \in 1 .. Len(stateHist)
    BY <1>2
  <2>3. ~(i < j) /\ ~(j < i)
    BY <2>1, <2>2
  <2> QED
    BY <2>2, <2>3
<1>7. \A a \in base, b \in new : ~SameKey(a, b) /\ ~SameKey(b, a)
  BY DEF SameKey
<1> HIDE DEF new
<1> QED
  BY <1>1, <1>3, <1>4, <1>6, <1>7, FS_Union DEF IsTable

LEMMA BaseStays ==
  ASSUME [Next]_holdVars
  PROVE  base' = base \/ base' = {} \/ IngestState
<1>1. CASE Failure
  BY <1>1 DEF Failure, IngestError, RunError, Crash, Rebuild, EmptyStore, store
<1>2. CASE Pass
  <2>1. CASE IngestLine \/ RetryLater \/ EndOfFile \/ ApplyPending \/ SyncParamHolds \/ Retention
    BY <2>1 DEF IngestLine, RetryLater, EndOfFile, ApplyPending, SyncParamHolds, Retention
  <2>2. CASE BeginRun \/ PickRange \/ MoveDeadline \/ RegradeRow \/ FinishRange \/ SweepRow \/ EndSweep
    BY <2>2 DEF BeginRun, PickRange, MoveDeadline, RegradeRow, FinishRange, SweepRow, EndSweep, store
  <2> QED
    BY <1>2, <2>1, <2>2 DEF Pass
<1>3. CASE ScannerWrites \/ ProberWrites \/ UNCHANGED holdVars
  BY <1>3 DEF ScannerWrites, ProberWrites, holdVars, store
<1> QED
  BY <1>1, <1>2, <1>3 DEF Next

LEMMA ValuesKept ==
  ASSUME StoreInv, FilesInv, LogInv, ValuesInv, [Next]_holdVars
  PROVE  ValuesInv'
<1>1. IsTable(base)'
  <2>1. IsTable({})
    BY FS_EmptySet DEF IsTable
  <2>2. CASE IngestState
    BY <2>2, IngestStateTable DEF ValuesInv
  <2>3. CASE base' = base
    BY <2>3 DEF ValuesInv, IsTable
  <2>4. CASE base' = {}
    BY <2>1, <2>4 DEF IsTable
  <2> QED
    BY <2>2, <2>3, <2>4, BaseStays
<1> DEFINE right == \A r \in DOMAIN ranges' : AreValues(ranges'[r].values)
<1>2. ASSUME ranges' = ranges PROVE right
  BY <1>2 DEF ValuesInv
<1>3. ASSUME NEW line \in RangeLine, UpsertRange(line) PROVE right
  <2>1. AreValues(line.values)
    <3>1. line.values \in Seq([height : Nat, params : [timeout : Nat, retention : Nat]])
      BY DEF RangeLine
    <3>2. \A v \in [height : Nat, params : [timeout : Nat, retention : Nat]] : v.height \in Nat /\ v.params \in Values
      BY DEF Values
    <3> QED
      BY <3>1, <3>2, LenProperties, ElementOfSeq DEF AreValues
  <2> DEFINE row == Upserted(line)
             id == RangeId(line)
  <2>2. AreValues(row.values)
    BY <2>1 DEF Upserted, ValuesInv
  <2>3. ranges' = With(ranges, id, row)
    BY <1>3 DEF UpsertRange
  <2> HIDE DEF row, id
  <2> QED
    BY <2>2, <2>3 DEF With, ValuesInv
<1>4. ASSUME NEW line, ApplyCorrection(line) PROVE right
  <2>1. DOMAIN ranges' = DOMAIN ranges
    BY <1>4, ApplyCorrectionIs
  <2>2. ASSUME NEW r \in DOMAIN ranges PROVE ranges'[r].values = ranges[r].values
    <3>1. CASE ranges'[r] = [ranges[r] EXCEPT !.holds = FALSE, !.corrected = TRUE]
      BY <3>1 DEF StoreInv, Shape, RangeShape
    <3> QED
      BY <1>4, <3>1, ApplyCorrectionIs
  <2> QED
    BY <2>1, <2>2 DEF ValuesInv
<1>5. ASSUME Statement PROVE right
  <2>1. ranges' = <<>> => right
    OBVIOUS
  <2>2. \/ ranges' = ranges \/ ranges' = <<>>
        \/ \E line \in RangeLine : UpsertRange(line)
    BY <1>5 DEF Statement, tables, UpsertPublication, InsertProbe, Retention, EmptyStore
  <2> HIDE DEF right
  <2> QED
    BY <1>2, <1>3, <2>1, <2>2
<1>6. ASSUME ApplyPending PROVE right
  BY <1>4, <1>6 DEF ApplyPending
<1> HIDE DEF right
<1>7. right
  BY <1>4, <1>5, <1>6, StepIs
<1> QED
  BY <1>1, <1>7 DEF ValuesInv, right

(* What the range proves of a publication it reaches is a deadline. *)
LEMMA RecomputedIs ==
  ASSUME DeadlinesInv, ValuesInv, NEW r \in DOMAIN ranges, NEW i \in DOMAIN pubs, Reached(r, i)
  PROVE  Recomputed(r, i) \in Nat
<1>1. IsHistory(Resolved(r))
  <2>1. IsHistory(History(base)) /\ AreValues(ranges[r].values)
    BY TableInOrder DEF ValuesInv
  <2> QED
    BY <2>1, ResolvedIs DEF Resolved
<1> QED
  BY <1>1, ServeUntilIs DEF Reached, Recomputed, DeadlinesInv, PubRight

-----------------------------------------------------------------------------
(* The corrector at its work. *)

Correctable(r) == r \in DOMAIN ranges /\ ranges[r].holds /\ ranges[r].resolution = "verified"

(* No publication the range covers stands above the deadline it proves. *)
Proven(r) == \A i \in Covered(r) : pubs[i].msu <= Recomputed(r, i)

(* The correction on its way is of the range at hand, and closes it with    *)
(* every deadline moved; one of the sweep gives a row its publication's    *)
(* deadline.                                                               *)
PendingRight ==
  \/ /\ pc = "range" /\ pending.range = now
     /\ \/ pending.kind \in {"deadline", "verdict"} /\ pending.id \in Covered(now)
        \/ pending.kind = "complete" /\ Proven(now)
  \/ /\ pc = "sweep" /\ pending.kind = "verdict"
     /\ pending.id \in DOMAIN pubs /\ pending.to = pubs[pending.id].msu

RunInv ==
  /\ todo # {} => pc \in {"pick", "range"}
  /\ \A r \in todo : Correctable(r)
  /\ pc = "range" => Correctable(now) /\ now \notin todo
  /\ pending # NoLine => PendingRight

LEMMA RunStays ==
  ASSUME RunInv, UNCHANGED <<pubs, ranges, base, pc, todo, now, pending>>
  PROVE  RunInv'
BY DEF RunInv, PendingRight, Correctable, Proven, Covered, CoversPub, Recomputed, Resolved

(* Outside the run there is nothing to correct. *)
LEMMA RunOver ==
  ASSUME todo' = {}, pc' # "range", pending' = NoLine
  PROVE  RunInv'
BY DEF RunInv

LEMMA MoveDeadlineRun ==
  ASSUME RunInv, MoveDeadline
  PROVE  RunInv'
<1>1. PICK i \in ToMove(now) : pending' = [kind |-> "deadline", range |-> now, id |-> i, to |-> Target(now, i)]
  BY DEF MoveDeadline, AppendCorrection
<1>2. pc = "range" /\ UNCHANGED <<pubs, ranges, base, pc, todo, now>>
  BY DEF MoveDeadline, store
<1>3. i \in Covered(now)
  BY DEF ToMove
<1>4. pending'.range = now /\ pending'.kind = "deadline" /\ pending'.id = i
  BY <1>1
<1>5. PendingRight'
  BY <1>2, <1>3, <1>4 DEF PendingRight, Covered, CoversPub
<1> QED
  BY <1>2, <1>5 DEF RunInv, Correctable

LEMMA RegradeRowRun ==
  ASSUME RunInv, RegradeRow
  PROVE  RunInv'
<1>1. PICK k \in ToRegrade(now) :
        pending' = [kind |-> "verdict", range |-> now, id |-> k[1], point |-> k[2], to |-> Target(now, k[1])]
  BY DEF RegradeRow, AppendCorrection
<1>2. pc = "range" /\ UNCHANGED <<pubs, ranges, base, pc, todo, now>>
  BY DEF RegradeRow, store
<1>3. k[1] \in Covered(now)
  BY DEF ToRegrade
<1>4. pending'.range = now /\ pending'.kind = "verdict" /\ pending'.id = k[1]
  BY <1>1
<1>5. PendingRight'
  BY <1>2, <1>3, <1>4 DEF PendingRight, Covered, CoversPub
<1> QED
  BY <1>2, <1>5 DEF RunInv, Correctable

(* A range with nothing left to move and nothing out of reach is proven. *)
LEMMA NothingLeft ==
  ASSUME DeadlinesInv, ValuesInv, NEW r \in DOMAIN ranges, ToMove(r) = {}, ~Unreached(r)
  PROVE  Proven(r)
<1> SUFFICES ASSUME NEW i \in Covered(r) PROVE pubs[i].msu <= Recomputed(r, i)
  BY DEF Proven
<1>1. i \in DOMAIN pubs /\ Reached(r, i)
  BY DEF Covered, Unreached
<1>2. Recomputed(r, i) \in Nat
  BY <1>1, RecomputedIs
<1>3. pubs[i].msu \in Nat /\ pubs[i].stamped \in Nat /\ pubs[i].msu <= pubs[i].stamped
  BY <1>1 DEF DeadlinesInv, PubRight
<1>4. ~(Target(r, i) < pubs[i].stamped) \/ Target(r, i) = pubs[i].msu
  BY <1>1 DEF ToMove
<1> QED
  BY <1>2, <1>3, <1>4 DEF Target, CorrectedDeadline

LEMMA FinishRangeRun ==
  ASSUME DeadlinesInv, ValuesInv, RunInv, FinishRange
  PROVE  RunInv'
<1>1. pc = "range" /\ pending = NoLine /\ ToMove(now) = {} /\ UNCHANGED <<pubs, ranges, base, todo, now>>
  BY DEF FinishRange, store, Idle
<1>2. CASE Unreached(now)
  BY <1>1, <1>2 DEF FinishRange, RunInv, Correctable
<1>3. CASE ~Unreached(now)
  <2>1. Proven(now)
    BY <1>1, <1>3, NothingLeft DEF RunInv, Correctable
  <2>2. pending' = [kind |-> "complete", range |-> now] /\ pc' = pc
    BY <1>3 DEF FinishRange, AppendCorrection
  <2>3. pending'.kind = "complete" /\ pending'.range = now
    BY <2>2
  <2>4. Proven(now)'
    BY <1>1, <2>1 DEF Proven, Covered, CoversPub, Recomputed, Resolved
  <2>5. PendingRight'
    BY <1>1, <2>2, <2>3, <2>4 DEF PendingRight
  <2> QED
    BY <1>1, <2>2, <2>5 DEF RunInv, Correctable
<1> QED
  BY <1>2, <1>3

LEMMA SweepRowRun ==
  ASSUME RunInv, SweepRow
  PROVE  RunInv'
<1>1. PICK k \in ToSweep : \E r \in pubs[k[1]].movedBy :
        AppendCorrection([kind |-> "verdict", range |-> r, id |-> k[1], point |-> k[2], to |-> pubs[k[1]].msu])
  BY DEF SweepRow
<1>2. PICK r \in pubs[k[1]].movedBy :
        pending' = [kind |-> "verdict", range |-> r, id |-> k[1], point |-> k[2], to |-> pubs[k[1]].msu]
  BY <1>1 DEF AppendCorrection
<1>3. pc = "sweep" /\ UNCHANGED <<pubs, ranges, base, pc, todo, now>>
  BY DEF SweepRow, store
<1>4. k[1] \in DOMAIN pubs
  BY DEF ToSweep, Stale, Stored
<1>5. pending'.kind = "verdict" /\ pending'.id = k[1] /\ pending'.to = pubs[k[1]].msu
  BY <1>2
<1>6. PendingRight'
  BY <1>3, <1>4, <1>5 DEF PendingRight
<1> QED
  BY <1>3, <1>6 DEF RunInv, Correctable

LEMMA ApplyPendingRun ==
  ASSUME StoreInv, RunInv, ApplyPending
  PROVE  RunInv'
<1>1. /\ pending # NoLine /\ ApplyCorrection(pending) /\ pending' = NoLine /\ UNCHANGED <<base, todo, now>>
      /\ pc' = IF pending.kind = "complete" THEN "pick" ELSE pc
  BY DEF ApplyPending, Idle
<1>2. PendingRight
  BY <1>1 DEF RunInv
<1>3. \A r \in DOMAIN ranges : r \in DOMAIN ranges' /\ (pending.kind # "complete" \/ r # now => ranges'[r] = ranges[r])
  BY <1>1, <1>2, ApplyCorrectionIs DEF PendingRight
<1>4. CASE pc = "range" /\ pending.kind # "complete"
  BY <1>1, <1>3, <1>4 DEF RunInv, Correctable
<1>5. CASE pc = "range" /\ pending.kind = "complete"
  BY <1>1, <1>3, <1>5 DEF RunInv, Correctable
<1>6. CASE pc = "sweep" /\ pending.kind = "verdict"
  BY <1>1, <1>6 DEF RunInv
<1> QED
  BY <1>2, <1>4, <1>5, <1>6 DEF PendingRight

LEMMA RunKept ==
  ASSUME StoreInv, DeadlinesInv, ValuesInv, RunInv, [Next]_holdVars
  PROVE  RunInv'
<1>1. CASE pc \notin {"pick", "range", "sweep"}
  <2>1. todo = {} /\ pending = NoLine
    BY <1>1 DEF RunInv, PendingRight
  <2>2. CASE BeginRun
    BY <2>1, <2>2 DEF BeginRun, RunInv, Correctable, store
  <2>3. CASE IngestState \/ SyncParamHolds \/ Retention
    BY <2>1, <2>3, RunOver DEF IngestState, SyncParamHolds, Retention, Goto
  <2>4. CASE RetryLater \/ EndOfFile \/ IngestError
    <3>1. pc \in {"pubs", "ranges", "corrs", "meas"} /\ UNCHANGED <<todo, pending>> /\ pc' \in {pc, After(pc)}
      BY <2>4, FilesRange DEF RetryLater, EndOfFile, IngestError, Goto, Retrying, Reading
    <3>2. pc' # "range"
      BY <3>1 DEF After
    <3> QED
      BY <2>1, <3>1, <3>2, RunOver
  <2>5. CASE IngestLine
    BY <1>1, <2>1, <2>5, RunOver DEF IngestLine
  <2>6. CASE RunError \/ Crash \/ Rebuild
    BY <2>6, RunOver DEF RunError, Crash, Rebuild, Restart
  <2>7. CASE ScannerWrites \/ ProberWrites \/ UNCHANGED holdVars
    BY <2>7, RunStays DEF ScannerWrites, ProberWrites, holdVars, store, memory
  <2> QED
    BY <1>1, <2>1, <2>2, <2>3, <2>4, <2>5, <2>6, <2>7
       DEF Next, Pass, Failure, PickRange, MoveDeadline, RegradeRow, FinishRange, ApplyPending, Idle, SweepRow, EndSweep
<1>2. CASE pc \in {"pick", "range", "sweep"}
  <2>1. pc \notin Range(Files)
    BY <1>2, FilesRange
  <2>2. CASE PickRange
    <3>1. pc = "pick" /\ UNCHANGED <<pubs, ranges, pending>>
      BY <2>2 DEF PickRange, store
    <3>2. pending = NoLine
      BY <3>1 DEF RunInv, PendingRight
    <3>3. \/ todo = {} /\ pc' = "sweep" /\ UNCHANGED <<todo, now>>
          \/ now' \in todo /\ todo' = todo \ {now'} /\ pc' = "range"
      BY <2>2 DEF PickRange
    <3> QED
      BY <3>1, <3>2, <3>3 DEF RunInv, Correctable
  <2>3. CASE MoveDeadline \/ RegradeRow \/ FinishRange \/ ApplyPending \/ SweepRow
    BY <2>3, MoveDeadlineRun, RegradeRowRun, FinishRangeRun, ApplyPendingRun, SweepRowRun
  <2>4. CASE EndSweep
    BY <2>4, RunOver DEF EndSweep, Idle, RunInv
  <2>5. CASE RunError \/ Crash \/ Rebuild
    BY <2>5, RunOver DEF RunError, Crash, Rebuild, Restart
  <2>6. CASE ScannerWrites \/ ProberWrites \/ UNCHANGED holdVars
    BY <2>6, RunStays DEF ScannerWrites, ProberWrites, holdVars, store, memory
  <2> QED
    BY <1>2, <2>1, <2>2, <2>3, <2>4, <2>5, <2>6
       DEF Next, Pass, Failure, IngestState, IngestLine, RetryLater, Retrying, Reading, EndOfFile, BeginRun,
           SyncParamHolds, Retention, IngestError
<1> QED
  BY <1>1, <1>2

-----------------------------------------------------------------------------
(* The invariant of the files, the deadlines and the run. *)

LEMMA DeadlinesKept ==
  ASSUME StoreInv, FilesInv, LogInv, DeadlinesInv, LinesInv, StampsStay, [Next]_holdVars
  PROVE  DeadlinesInv'
<1>1. CASE UNCHANGED tables
  BY <1>1, StayRight DEF tables, DeadlinesStay
<1>2. CASE RecomputeHolds
  BY <1>2, RecomputeStays, StayRight
<1>3. CASE Retention
  BY <1>3, RetentionStays, StayRight
<1>4. CASE EmptyStore
  BY <1>4 DEF EmptyStore, DeadlinesInv
<1>5. ASSUME NEW line \in RangeLine, UpsertRange(line) PROVE DeadlinesInv'
  BY <1>5, UpsertRangeStays, StayRight
<1>6. CASE Statement
  BY <1>1, <1>2, <1>3, <1>4, <1>5, <1>6, UpsertPublicationRight, InsertProbeRight DEF Statement
<1>7. CASE pc = "corrs" /\ IngestLine /\ ApplyCorrection(corrFile[pos + 1])
  BY <1>7, LineRead, ApplyCorrectionRight DEF IngestLine
<1>8. CASE ApplyPending
  BY <1>8, ApplyCorrectionRight DEF ApplyPending, Idle, LogInv
<1> QED
  BY <1>6, <1>7, <1>8, StepIs

(* A line that moves a deadline is appended by MoveDeadline alone. *)
LEMMA LogGrows ==
  ASSUME [Next]_holdVars
  PROVE  \/ corrFile' = corrFile
         \/ MoveDeadline
         \/ \E line : line.kind # "deadline" /\ corrFile' = Append(corrFile, line)
<1>1. CASE Failure
  BY <1>1 DEF Failure, IngestError, RunError, Crash, Rebuild
<1>2. CASE IngestState \/ IngestLine \/ RetryLater \/ EndOfFile \/ BeginRun \/ PickRange
  BY <1>2 DEF IngestState, IngestLine, RetryLater, EndOfFile, BeginRun, PickRange
<1>3. CASE ApplyPending \/ EndSweep \/ SyncParamHolds \/ Retention
  BY <1>3 DEF ApplyPending, EndSweep, SyncParamHolds, Retention
<1>4. CASE RegradeRow
  <2>1. PICK k \in ToRegrade(now) :
          corrFile' = Append(corrFile, [kind |-> "verdict", range |-> now, id |-> k[1], point |-> k[2], to |-> Target(now, k[1])])
    BY <1>4 DEF RegradeRow, AppendCorrection
  <2> QED
    BY <2>1
<1>5. CASE FinishRange
  BY <1>5 DEF FinishRange, AppendCorrection
<1>6. CASE SweepRow
  <2>1. PICK k \in ToSweep : \E r \in pubs[k[1]].movedBy :
          AppendCorrection([kind |-> "verdict", range |-> r, id |-> k[1], point |-> k[2], to |-> pubs[k[1]].msu])
    BY <1>6 DEF SweepRow
  <2>2. PICK r \in pubs[k[1]].movedBy :
          corrFile' = Append(corrFile, [kind |-> "verdict", range |-> r, id |-> k[1], point |-> k[2], to |-> pubs[k[1]].msu])
    BY <2>1 DEF AppendCorrection
  <2> QED
    BY <2>2
<1>7. CASE ScannerWrites \/ ProberWrites \/ UNCHANGED holdVars
  BY <1>7 DEF ScannerWrites, ProberWrites, holdVars
<1> QED
  BY <1>1, <1>2, <1>3, <1>4, <1>5, <1>6, <1>7 DEF Next, Pass

LEMMA LinesKept ==
  ASSUME LogInv, DeadlinesInv, ValuesInv, RunInv, LinesInv, StampsStay, [Next]_holdVars
  PROVE  LinesInv'
<1> DEFINE right(c) == c.kind = "deadline" => c.to \in Nat /\ \E t \in Nat : c.to < t /\ Stamped(c.id, t)'
<1>1. \A c \in Range(corrFile) : right(c)
  BY DEF LinesInv, StampsStay
<1>2. ASSUME NEW line, right(line), corrFile' = Append(corrFile, line)
      PROVE  LinesInv'
  <2>1. Range(corrFile') = Range(corrFile) \cup {line}
    BY <1>2, AppendToLog DEF LogInv
  <2>2. \A c \in Range(corrFile') : right(c)
    BY <1>1, <1>2, <2>1
  <2> QED
    BY <2>2 DEF LinesInv
<1>3. CASE MoveDeadline
  <2>1. PICK i \in ToMove(now) :
          corrFile' = Append(corrFile, [kind |-> "deadline", range |-> now, id |-> i, to |-> Target(now, i)])
    BY <1>3 DEF MoveDeadline, AppendCorrection
  <2>2. now \in DOMAIN ranges /\ i \in DOMAIN pubs /\ Reached(now, i) /\ Target(now, i) < pubs[i].stamped
    BY <1>3 DEF MoveDeadline, RunInv, Correctable, ToMove, Covered
  <2>3. pubs[i].stamped \in Nat /\ Stamped(i, pubs[i].stamped)
    BY <2>2 DEF DeadlinesInv, PubRight
  <2>4. Target(now, i) \in Nat
    <3>1. Recomputed(now, i) \in Nat
      BY <2>2, RecomputedIs
    <3> QED
      BY <2>3, <3>1 DEF Target, CorrectedDeadline
  <2> DEFINE to == Target(now, i)
             line == [kind |-> "deadline", range |-> now, id |-> i, to |-> to]
  <2>5. to \in Nat /\ to < pubs[i].stamped
    BY <2>2, <2>4
  <2> HIDE DEF to
  <2>6. right(line)
    BY <2>3, <2>5 DEF StampsStay
  <2>7. corrFile' = Append(corrFile, line)
    BY <2>1 DEF to
  <2> HIDE DEF line, right
  <2> QED
    BY <1>2, <2>6, <2>7
<1>4. CASE corrFile' = corrFile
  BY <1>1, <1>4 DEF LinesInv
<1> QED
  BY <1>2, <1>3, <1>4, LogGrows

(* The inductive invariant: the publication a deadline belongs to is on    *)
(* record with the stamp it started from, what the corrector is doing is   *)
(* about a range that still withholds, and what it proves is a deadline.   *)
CollectorInv == FilesInv /\ DeadlinesInv /\ LinesInv /\ ValuesInv /\ RunInv

LEMMA InitCollector == Init => CollectorInv
<1> SUFFICES ASSUME Init PROVE CollectorInv
  OBVIOUS
<1>1. FilesInv
  BY InitFiles
<1>2. DeadlinesInv /\ RunInv
  BY DEF Init, InitStore, DeadlinesInv, RunInv
<1>3. LinesInv
  <2>1. Range(corrFile) = {}
    BY DEF Init, InitStore, Range
  <2> QED
    BY <2>1 DEF LinesInv
<1>4. ValuesInv
  BY FS_EmptySet DEF Init, InitStore, ValuesInv, IsTable
<1> QED
  BY <1>1, <1>2, <1>3, <1>4 DEF CollectorInv

LEMMA NextCollector ==
  ASSUME StoreInv, LogInv, CollectorInv, [Next]_holdVars
  PROVE  CollectorInv'
<1> USE DEF CollectorInv
<1>1. FilesInv' /\ StampsStay
  BY FilesKept DEF StampsStay
<1>2. DeadlinesInv'
  BY <1>1, DeadlinesKept
<1>3. LinesInv'
  BY <1>1, LinesKept
<1>4. ValuesInv'
  BY ValuesKept
<1>5. RunInv'
  BY RunKept
<1> QED
  BY <1>1, <1>2, <1>3, <1>4, <1>5

(* The files, the deadlines and the corrector's work are right in every    *)
(* state: no deadline is later than the one stamped, and every correction  *)
(* on record moves one back.                                               *)
THEOREM CollectorInvariant == Spec => [](StoreInv /\ LogInv /\ CollectorInv)
<1>1. StoreInv /\ LogInv /\ CollectorInv /\ [Next]_holdVars => LogInv' /\ CollectorInv'
  BY LogInvKept, NextCollector
<1>2. Init => LogInv /\ CollectorInv
  BY InitDecisions, InitCollector
<1> QED
  BY <1>1, <1>2, StoreInvariant, PTL DEF Spec

-----------------------------------------------------------------------------
(* When a range closes. *)

LEMMA ClosesApplied ==
  ASSUME StoreInv, LogInv, CollectorInv, [Next]_holdVars, pc = "range",
         NEW r \in DOMAIN ranges, r \in DOMAIN ranges', ranges[r].holds, ~ranges'[r].holds,
         NEW i \in Covered(r)
  PROVE  /\ pubs[i].msu <= Recomputed(r, i)
         /\ \A k \in RowsOf(i) : rows[k].held \/ rows[k].orphan \/ rows[k].msu <= Recomputed(r, i)
<1> USE DEF CollectorInv
<1>1. ApplyPending
  <2>1. ~Statement
    BY DEF Statement, tables, Retention, EmptyStore
  <2> QED
    BY <2>1, StepIs
<1>2. pending # NoLine /\ ApplyCorrection(pending)
  BY <1>1 DEF ApplyPending, Idle
<1>3. r = now /\ Proven(now)
  <2>1. pending.kind = "complete" /\ r = pending.range
    BY <1>2, ApplyCorrectionIs
  <2> QED
    BY <1>2, <2>1 DEF RunInv, PendingRight
<1>4. pubs[i].msu <= Recomputed(r, i)
  BY <1>3 DEF Proven
<1>5. i \in DOMAIN pubs /\ pubs[i].held
  BY DEF Covered, Withheld, StoreInv, CoveredIsHeld
<1>6. \A k \in RowsOf(i) : rows[k].held \/ rows[k].orphan
  BY <1>5 DEF RowsOf, Stored, StoreInv, HeldWithPublication
<1> QED
  BY <1>4, <1>6

(* When the corrector closes a range, every publication it covers has a    *)
(* deadline no later than the range proves, and no row of theirs is        *)
(* published against a later one (correct.go, the last of a range's lines). *)
THEOREM RangeClosesOnlyWhenAppliedAlways == Spec => RangeClosesOnlyWhenApplied
<1> DEFINE closes ==
      \A r \in DOMAIN ranges :
        pc = "range" /\ r \in DOMAIN ranges' /\ ranges[r].holds /\ ~ranges'[r].holds =>
          \A i \in Covered(r) :
            /\ pubs[i].msu <= Recomputed(r, i)
            /\ \A k \in RowsOf(i) : rows[k].held \/ rows[k].orphan \/ rows[k].msu <= Recomputed(r, i)
<1>1. StoreInv /\ LogInv /\ CollectorInv /\ [Next]_holdVars => [closes]_holdVars
  BY ClosesApplied
<1>2. [][closes]_holdVars => RangeClosesOnlyWhenApplied
  BY PTL DEF RangeClosesOnlyWhenApplied
<1> QED
  BY <1>1, <1>2, CollectorInvariant, PTL DEF Spec

-----------------------------------------------------------------------------
(* What a row is published against. *)

(* A row of a publication a holding range covers agrees: it is held. *)
LEMMA WithheldAgrees ==
  ASSUME StoreInv, NEW k \in DOMAIN rows, Stored(k) => Withheld(pubs[k[1]])
  PROVE  rows[k].held \/ rows[k].orphan
BY DEF StoreInv, CoveredIsHeld, HeldWithPublication, EarlyIsOrphan, Stored

(* A statement that leaves a row with its deadline, its hold and its       *)
(* publication's deadline leaves it agreeing.                              *)
LEMMA StaysAgreed ==
  ASSUME NEW k, k \in DOMAIN rows, k \in DOMAIN rows', Agrees(k), Stored(k)' => Stored(k),
         rows'[k].msu = rows[k].msu, rows'[k].orphan = rows[k].orphan, rows[k].held => rows'[k].held,
         Stored(k) => pubs'[k[1]].msu = pubs[k[1]].msu
  PROVE  Agrees(k)'
BY DEF Agrees, Stale, Stored

LEMMA StatementAgrees ==
  ASSUME StoreInv, FilesInv, DeadlinesInv, Statement, NEW k \in DOMAIN rows', ~Agrees(k)'
  PROVE  k \in DOMAIN rows /\ (~Agrees(k) \/ RegradedEarly(k))
<1>1. CASE UNCHANGED tables
  BY <1>1 DEF tables, Agrees, Stale, Stored
<1>2. ASSUME NEW line, UpsertPublication(line)
      PROVE  k \in DOMAIN rows /\ ~Agrees(k)
  <2>1. rows' = rows
    BY <1>2 DEF UpsertPublication
  <2>2. \A i \in DOMAIN pubs : i \in DOMAIN pubs' /\ pubs'[i] = pubs[i]
    BY <1>2 DEF UpsertPublication, With
  <2>3. Stored(k)
    BY <2>1 DEF StoreInv, EarlyIsOrphan, Agrees
  <2> QED
    BY <2>1, <2>2, <2>3 DEF Agrees, Stale, Stored
<1>3. ASSUME NEW line, UpsertRange(line)
      PROVE  k \in DOMAIN rows /\ ~Agrees(k)
  BY <1>3, UpsertRangeStays, StaysAgreed DEF DeadlinesStay, Stored
<1>4. ASSUME NEW line, InsertProbe(line)
      PROVE  k \in DOMAIN rows /\ ~Agrees(k)
  <2> DEFINE key == <<line.id, line.point>>
             born == HeldAtInsert(line)
             early == line.id \notin DOMAIN pubs
             row == [msu |-> line.msu, held |-> born, raw |-> TRUE, fixedFor |-> {}, orphan |-> early]
  <2>1. /\ rows' = IF key \in DOMAIN rows THEN rows ELSE With(rows, key, row)
        /\ pubs' = pubs
    BY <1>4 DEF InsertProbe
  <2>2. /\ row.msu = line.msu /\ row.held = born /\ row.orphan = early /\ key[1] = line.id
    OBVIOUS
  <2>3. early \/ born \/ pubs[line.id].msu = line.msu
    BY DEF HeldAtInsert
  <2> HIDE DEF key, born, row
  <2>4. CASE k \in DOMAIN rows
    <3>1. rows'[k] = rows[k]
      BY <2>1, <2>4 DEF With
    <3> QED
      BY <2>1, <2>4, <3>1, StaysAgreed DEF Stored
  <2>5. CASE k \notin DOMAIN rows
    <3>1. k = key /\ rows'[k] = row
      BY <2>1, <2>5 DEF With
    <3> QED
      BY <2>1, <2>2, <2>3, <3>1 DEF Agrees, Stale, Stored
  <2> QED
    BY <2>4, <2>5
<1>5. CASE RecomputeHolds
  <2>1. /\ k \in DOMAIN rows /\ DOMAIN pubs' = DOMAIN pubs
        /\ rows'[k].msu = rows[k].msu
        /\ \A i \in DOMAIN pubs : pubs'[i].msu = pubs[i].msu
        /\ Stored(k) /\ Stale(k) /\ (rows[k].held \/ pubs[k[1]].movedBy # {}) => rows'[k].held
    BY <1>5, RecomputeStays DEF DeadlinesStay
  <2>2. Stored(k) /\ Stale(k) /\ ~rows'[k].held
    BY <2>1 DEF Agrees, Stale, Stored
  <2>3. ~rows[k].held /\ pubs[k[1]].movedBy = {}
    BY <2>1, <2>2
  <2>4. CASE ~rows[k].orphan
    BY <2>1, <2>2, <2>3, <2>4 DEF Agrees
  <2>5. CASE rows[k].orphan /\ rows[k].fixedFor # {}
    BY <2>1, <2>5 DEF RegradedEarly
  <2>6. rows[k].fixedFor # {}
    <3> SUFFICES ASSUME rows[k].fixedFor = {} PROVE FALSE
      OBVIOUS
    <3>1. Stamped(k[1], rows[k].msu)
      BY <2>1 DEF DeadlinesInv, RowRight
    <3>2. Stamped(k[1], pubs[k[1]].stamped) /\ pubs[k[1]].msu = pubs[k[1]].stamped
      BY <2>2, <2>3 DEF DeadlinesInv, PubRight, Stored
    <3> QED
      BY <2>2, <3>1, <3>2, StampedOnce DEF Stale
  <2> QED
    BY <2>4, <2>5, <2>6 DEF StoreInv, Shape, RowShape
<1>6. CASE Retention
  BY <1>6, RetentionStays, StaysAgreed DEF DeadlinesStay, Stored
<1>7. CASE EmptyStore
  BY <1>7 DEF EmptyStore
<1> QED
  BY <1>1, <1>2, <1>3, <1>4, <1>5, <1>6, <1>7 DEF Statement

(* A correction of a publication that is withheld, or of its row, publishes *)
(* nothing; nor does a row drawn to its publication's deadline.             *)
LEMMA CorrectionAgrees ==
  ASSUME StoreInv, NEW line, ApplyCorrection(line), NEW k \in DOMAIN rows', ~Agrees(k)',
         \/ line.kind \notin {"deadline", "verdict"}
         \/ line.id # k[1]
         \/ Stored(k) => Withheld(pubs[k[1]])
         \/ line.kind = "verdict" /\ line.to = pubs[line.id].msu
  PROVE  k \in DOMAIN rows /\ ~Agrees(k)
<1>1. k \in DOMAIN rows /\ DOMAIN pubs' = DOMAIN pubs
  BY ApplyCorrectionIs
<1>2. rows'[k].held = rows[k].held /\ rows'[k].orphan = rows[k].orphan
  <2>1. CASE rows'[k] = [rows[k] EXCEPT !.msu = line.to, !.fixedFor = @ \cup {line.range}]
    BY <1>1, <2>1 DEF StoreInv, Shape, RowShape
  <2> QED
    BY <1>1, <2>1, ApplyCorrectionIs
<1>3. CASE Stored(k) => Withheld(pubs[k[1]])
  BY <1>1, <1>2, <1>3, WithheldAgrees DEF Agrees, Stored
<1>4. CASE line.kind = "verdict" /\ line.to = pubs[line.id].msu /\ line.id = k[1]
  <2>1. pubs' = pubs
    BY <1>4 DEF ApplyCorrection
  <2>2. CASE rows'[k] = [rows[k] EXCEPT !.msu = line.to, !.fixedFor = @ \cup {line.range}]
    <3>1. rows'[k].msu = line.to
      BY <1>1, <2>2 DEF StoreInv, Shape, RowShape
    <3> QED
      BY <1>4, <2>1, <3>1 DEF Agrees, Stale, Stored
  <2>3. CASE rows'[k] = rows[k]
    BY <1>1, <2>1, <2>3 DEF Agrees, Stale, Stored
  <2> QED
    BY <1>1, <2>2, <2>3, ApplyCorrectionIs
<1>5. CASE line.kind \notin {"deadline", "verdict"} \/ line.id # k[1]
  <2>1. rows'[k] = rows[k] /\ (Stored(k) => pubs'[k[1]] = pubs[k[1]])
    <3>1. k = <<line.id, line.point>> => k[1] = line.id
      OBVIOUS
    <3> QED
      BY <1>1, <1>5, <3>1, ApplyCorrectionIs DEF Stored
  <2> QED
    BY <1>1, <2>1, StaysAgreed DEF Stored
<1> QED
  BY <1>3, <1>4, <1>5

LEMMA OnlyReplay ==
  ASSUME StoreInv, LogInv, CollectorInv, [Next]_holdVars, NEW k \in DOMAIN rows', ~Agrees(k)'
  PROVE  \/ k \in DOMAIN rows /\ (~Agrees(k) \/ RegradedEarly(k))
         \/ Replays(k[1])
<1> USE DEF CollectorInv
<1>1. CASE Statement
  BY <1>1, StatementAgrees
<1>2. CASE pc = "corrs" /\ pos < Len(corrFile) /\ ApplyCorrection(corrFile[pos + 1]) /\ ~Replays(k[1])
  <2> DEFINE line == corrFile[pos + 1]
  <2>1. line.kind \in {"deadline", "verdict"} /\ line.id = k[1] => (Stored(k) => Withheld(pubs[k[1]]))
    BY <1>2 DEF Replays, Stored
  <2>2. ApplyCorrection(line)
    BY <1>2
  <2> HIDE DEF line
  <2> QED
    BY <2>1, <2>2, CorrectionAgrees
<1>3. CASE ApplyPending
  <2>1. ApplyCorrection(pending) /\ PendingRight
    BY <1>3 DEF ApplyPending, Idle, RunInv
  <2>2. CASE pc = "range" /\ pending.kind \in {"deadline", "verdict"} /\ pending.id \in Covered(now)
    <3>1. Withheld(pubs[pending.id])
      BY <2>2 DEF Withheld, Covered, RunInv, Correctable
    <3> QED
      BY <2>1, <3>1, CorrectionAgrees
  <2>3. CASE pending.kind = "complete"
    BY <2>1, <2>3, CorrectionAgrees
  <2>4. CASE pending.kind = "verdict" /\ pending.to = pubs[pending.id].msu
    BY <2>1, <2>4, CorrectionAgrees
  <2> QED
    BY <2>1, <2>2, <2>3, <2>4 DEF PendingRight
<1> QED
  BY <1>1, <1>2, <1>3, StepIs

(* A row that agrees with its publication, or is withheld, stays so through *)
(* every line of every file in any order, every sync, correction, error    *)
(* and restart, but a correction read again that no range withholds        *)
(* (ingest.go, correct.go, uncertainty.go).                                *)
THEOREM OnlyReplayAlways == Spec => OnlyReplayPublishesStale
<1> DEFINE keeps ==
      \A k \in DOMAIN rows' :
        ~Agrees(k)' => \/ k \in DOMAIN rows /\ (~Agrees(k) \/ RegradedEarly(k))
                       \/ Replays(k[1])
<1>1. StoreInv /\ LogInv /\ CollectorInv /\ [Next]_holdVars => [keeps]_holdVars
  BY OnlyReplay
<1>2. [][keeps]_holdVars => OnlyReplayPublishesStale
  BY PTL DEF OnlyReplayPublishesStale
<1> QED
  BY <1>1, <1>2, CollectorInvariant, PTL DEF Spec

-----------------------------------------------------------------------------
(* What a reader of the API is given (SnapshotCache). *)

(* A figure kept under a revision was computed once that had landed: the   *)
(* revision is read before the queries run.                                *)
Snapshots == [rev : Int, figure : Nat, stale : BOOLEAN]

NotOlder(s) == s \in Snapshots /\ s.rev <= landed /\ s.rev <= s.figure

KeptInv == NotOlder(entry) /\ NotOlder(disk) /\ NotOlder(page)

(* A reader that could read the revision asked under what had landed.      *)
Requests == [at : {"asked", "waits", "computes", "joined", "answered"}, rev : Int, since : Nat, figure : Nat]

AskedUnder(q) ==
  /\ q \in Requests
  /\ q.since <= landed /\ q.rev <= landed
  /\ q.rev # Unreadable => q.rev = q.since
  /\ q.at = "answered" /\ q.rev # Unreadable => q.since <= q.figure

RequestsInv ==
  /\ request \in [Readers -> {NotAsking} \cup Requests]
  /\ \A r \in Readers : request[r] = NotAsking \/ AskedUnder(request[r])

(* A computation is of the revision it read, and answers the reader who    *)
(* claimed it, who asked before it ran.                                    *)
FillInv ==
  /\ fill.stage \in {"none", "claimed", "reads", "computed"}
  /\ fill.stage \in {"reads", "computed"} => fill.rev \in Int /\ fill.rev <= landed
  /\ fill.stage = "computed" => fill.figure \in Nat /\ fill.rev <= fill.figure
  /\ fill.stage # "none" /\ fill.by \in Readers => request[fill.by].at = "computes"
  /\ fill.stage = "computed" /\ fill.by \in Readers => request[fill.by].since <= fill.figure

FlightsInv ==
  \A f \in flights :
    /\ f \in [rev : Int, stage : {"computes", "computed"}, figure : Nat] /\ f.rev <= landed
    /\ f.stage = "computed" => f.rev <= f.figure

CacheInv == landed \in Nat /\ KeptInv /\ RequestsInv /\ FillInv /\ FlightsInv

-----------------------------------------------------------------------------
(* Facts the steps share. *)

LEMMA NoOneComputes == NotAsking.at = "idle" /\ NotAsking \notin Requests
<1>1. NotAsking.at = "idle"
  BY DEF NotAsking
<1> QED
  BY <1>1 DEF Requests

LEMMA NothingIsNotOlder == landed \in Nat => NotOlder(Nothing)
BY DEF Nothing, NotOlder, Snapshots

LEMMA AgedIsNotOlder ==
  ASSUME NEW s, NotOlder(s)
  PROVE  NotOlder(Aged(s))
BY DEF Aged, NotOlder, Snapshots

LEMMA RevisionRead ==
  ASSUME CacheInv, NEW rev \in Revisions
  PROVE  rev \in Int /\ rev <= landed /\ (rev # Unreadable => rev = landed)
BY DEF CacheInv, Revisions, Unreadable

(* One request moves on; the computation is nobody else's. *)
LEMMA OneRequest ==
  ASSUME CacheInv, NEW r \in Readers, NEW q, q = NotAsking \/ AskedUnder(q),
         request' = [request EXCEPT ![r] = q], UNCHANGED landed
  PROVE  /\ RequestsInv'
         /\ request[r].at # "computes" /\ UNCHANGED fill => FillInv'
<1>1. \A p \in Readers : request'[p] = IF p = r THEN q ELSE request[p]
  BY DEF CacheInv, RequestsInv
<1>2. q \in {NotAsking} \cup Requests
  BY DEF AskedUnder
<1>3. RequestsInv'
  <2>1. request' \in [Readers -> {NotAsking} \cup Requests]
    BY <1>2 DEF CacheInv, RequestsInv
  <2> QED
    BY <1>1, <2>1 DEF CacheInv, RequestsInv, AskedUnder
<1>4. ASSUME request[r].at # "computes", UNCHANGED fill
      PROVE  FillInv'
  BY <1>1, <1>4 DEF CacheInv, FillInv
<1> QED
  BY <1>3, <1>4

(* A request the reader waits on, and one answered with a figure that is   *)
(* not older than its revision.                                            *)
LEMMA Moved ==
  ASSUME CacheInv, NEW r \in Readers, AskedUnder(request[r]), NEW step \in {"asked", "waits", "computes", "joined"},
         GoesTo(r, step)
  PROVE  \E q : AskedUnder(q) /\ q.at = step /\ request' = [request EXCEPT ![r] = q]
<1> DEFINE q == [request[r] EXCEPT !.at = step]
<1>1. q \in Requests /\ q.at = step /\ q.rev = request[r].rev /\ q.since = request[r].since
  BY DEF AskedUnder, Requests
<1>2. request' = [request EXCEPT ![r] = q]
  BY DEF GoesTo
<1> QED
  BY <1>1, <1>2 DEF AskedUnder

LEMMA Answered ==
  ASSUME CacheInv, NEW r \in Readers, AskedUnder(request[r]), NEW figure \in Nat,
         request[r].rev # Unreadable => request[r].since <= figure
  PROVE  AskedUnder([request[r] EXCEPT !.at = "answered", !.figure = figure])
<1> DEFINE q == [request[r] EXCEPT !.at = "answered", !.figure = figure]
<1>1. q \in Requests /\ q.rev = request[r].rev /\ q.since = request[r].since /\ q.figure = figure
  BY DEF AskedUnder, Requests
<1> QED
  BY <1>1 DEF AskedUnder

LEMMA ClaimedFill ==
  ASSUME CacheInv, NEW who, Claim(who), RequestsInv', UNCHANGED landed,
         who \in Readers => request'[who].at = "computes"
  PROVE  FillInv'
BY DEF Claim, FillInv

LEMMA SomeoneAsking ==
  ASSUME CacheInv, NEW r \in Readers, request[r].at # "idle"
  PROVE  AskedUnder(request[r])
BY NoOneComputes DEF CacheInv, RequestsInv

-----------------------------------------------------------------------------
(* A reader's steps. *)

LEMMA AskInv ==
  ASSUME CacheInv, NEW r \in Readers, Ask(r)
  PROVE  CacheInv'
<1>1. PICK rev \in Revisions :
        /\ request[r] = NotAsking
        /\ request' = [request EXCEPT ![r] = [at |-> "asked", rev |-> rev, since |-> landed, figure |-> 0]]
        /\ UNCHANGED <<landed, snapshotOnly, detailOnly>>
  BY DEF Ask
<1> DEFINE q == [at |-> "asked", rev |-> rev, since |-> landed, figure |-> 0]
<1>2. AskedUnder(q)
  BY RevisionRead DEF CacheInv, AskedUnder, Requests
<1>3. UNCHANGED <<landed, entry, fill, disk, page, flights>>
  BY <1>1 DEF snapshotOnly, detailOnly
<1>4. RequestsInv' /\ FillInv'
  BY <1>1, <1>2, <1>3, OneRequest, NoOneComputes
<1> QED
  BY <1>3, <1>4 DEF CacheInv, KeptInv, NotOlder, FlightsInv

LEMMA DropOtherInv ==
  ASSUME CacheInv, NEW r \in Readers, DropOther(r)
  PROVE  CacheInv'
<1>1. /\ request[r].at = "asked" /\ GoesTo(r, "waits") /\ entry' = Nothing
      /\ UNCHANGED <<landed, fill, disk, page, flights>>
  BY DEF DropOther, Asked, detailOnly
<1>2. AskedUnder(request[r])
  BY <1>1, SomeoneAsking
<1>3. PICK q : AskedUnder(q) /\ request' = [request EXCEPT ![r] = q]
  BY <1>1, <1>2, Moved
<1>4. RequestsInv' /\ FillInv'
  BY <1>1, <1>3, OneRequest
<1>5. KeptInv'
  BY <1>1, NothingIsNotOlder DEF CacheInv, KeptInv, NotOlder
<1> QED
  BY <1>1, <1>4, <1>5 DEF CacheInv, FlightsInv

(* What is kept under the reader's revision is no older than its request. *)
LEMMA KeptFigureAnswers ==
  ASSUME CacheInv, NEW r \in Readers, request[r].at # "idle", NEW s \in {entry, page}, s.rev = request[r].rev
  PROVE  AskedUnder([request[r] EXCEPT !.at = "answered", !.figure = s.figure])
<1>1. AskedUnder(request[r])
  BY SomeoneAsking
<1>2. s.figure \in Nat /\ s.rev <= s.figure
  BY DEF CacheInv, KeptInv, NotOlder, Snapshots
<1>3. request[r].rev # Unreadable => request[r].since <= s.figure
  BY <1>1, <1>2 DEF AskedUnder
<1> QED
  BY <1>1, <1>2, <1>3, Answered

LEMMA ServeInv ==
  ASSUME CacheInv, NEW r \in Readers, Serve(r)
  PROVE  CacheInv'
<1> DEFINE q == [request[r] EXCEPT !.at = "answered", !.figure = entry.figure]
<1>1. /\ request[r].at = "asked" /\ entry.rev = request[r].rev /\ request' = [request EXCEPT ![r] = q]
      /\ Claim("nobody") \/ UNCHANGED <<refreshing, fill>>
      /\ UNCHANGED <<landed, entry, disk, page, flights>>
  BY SMTT(30) DEF Serve, Asked, Answer, detailOnly
<1>2. AskedUnder(q)
  BY <1>1, KeptFigureAnswers
<1> HIDE DEF q
<1>3. RequestsInv' /\ (UNCHANGED fill => FillInv')
  BY <1>1, <1>2, OneRequest
<1>4. FillInv'
  BY <1>1, <1>3, ClaimedFill, CacheAssumption
<1> QED
  BY <1>1, <1>3, <1>4 DEF CacheInv, KeptInv, NotOlder, FlightsInv

LEMMA TakeWhatLandedInv ==
  ASSUME CacheInv, NEW r \in Readers, TakeWhatLanded(r)
  PROVE  CacheInv'
<1> DEFINE q == [request[r] EXCEPT !.at = "answered", !.figure = entry.figure]
<1>1. /\ request[r].at = "waits" /\ entry.rev = request[r].rev /\ request' = [request EXCEPT ![r] = q]
      /\ UNCHANGED <<landed, entry, disk, fill, page, flights>>
  BY DEF TakeWhatLanded, Answer, snapshotOnly, detailOnly
<1>2. AskedUnder(q)
  BY <1>1, KeptFigureAnswers
<1> HIDE DEF q
<1>3. RequestsInv' /\ FillInv'
  BY <1>1, <1>2, OneRequest
<1> QED
  BY <1>1, <1>3 DEF CacheInv, KeptInv, NotOlder, FlightsInv

LEMMA ClaimToComputeInv ==
  ASSUME CacheInv, NEW r \in Readers, ClaimToCompute(r)
  PROVE  CacheInv'
<1>1. /\ request[r].at = "waits" /\ Claim(r) /\ GoesTo(r, "computes")
      /\ UNCHANGED <<landed, entry, disk, page, flights>>
  BY DEF ClaimToCompute, detailOnly
<1>2. PICK q : AskedUnder(q) /\ q.at = "computes" /\ request' = [request EXCEPT ![r] = q]
  BY <1>1, SomeoneAsking, Moved
<1>3. RequestsInv'
  BY <1>1, <1>2, OneRequest
<1>4. request'[r].at = "computes"
  BY <1>2 DEF CacheInv, RequestsInv
<1>5. FillInv'
  BY <1>1, <1>3, <1>4, ClaimedFill
<1> QED
  BY <1>1, <1>3, <1>5 DEF CacheInv, KeptInv, NotOlder, FlightsInv

LEMMA LeaveInv ==
  ASSUME CacheInv, NEW r \in Readers, Leave(r)
  PROVE  CacheInv'
<1>1. /\ request[r].at # "computes" /\ request' = [request EXCEPT ![r] = NotAsking]
      /\ UNCHANGED <<landed, entry, disk, fill, page, flights>>
  BY DEF Leave, snapshotOnly, detailOnly
<1>2. RequestsInv' /\ FillInv'
  BY <1>1, OneRequest
<1> QED
  BY <1>1, <1>2 DEF CacheInv, KeptInv, NotOlder, FlightsInv

LEMMA ServePageInv ==
  ASSUME CacheInv, NEW r \in Readers, ServePage(r)
  PROVE  CacheInv'
<1> DEFINE q == [request[r] EXCEPT !.at = "answered", !.figure = page.figure]
<1>1. /\ request[r].at = "asked" /\ page.rev = request[r].rev /\ request' = [request EXCEPT ![r] = q]
      /\ UNCHANGED <<landed, entry, disk, fill, page, flights>>
  BY DEF ServePage, Asked, Answer, snapshotOnly, detailOnly
<1>2. AskedUnder(q)
  BY <1>1, KeptFigureAnswers
<1> HIDE DEF q
<1>3. RequestsInv' /\ FillInv'
  BY <1>1, <1>2, OneRequest
<1> QED
  BY <1>1, <1>3 DEF CacheInv, KeptInv, NotOlder, FlightsInv

LEMMA JoinFlightInv ==
  ASSUME CacheInv, NEW r \in Readers, JoinFlight(r)
  PROVE  CacheInv'
<1> DEFINE own == [rev |-> request[r].rev, stage |-> "computes", figure |-> 0]
<1>1. /\ request[r].at = "asked" /\ GoesTo(r, "joined") /\ flights' \in {flights, flights \cup {own}}
      /\ UNCHANGED <<landed, entry, disk, fill, page>>
  BY DEF JoinFlight, Asked, snapshotOnly
<1>2. AskedUnder(request[r])
  BY <1>1, SomeoneAsking
<1>3. PICK q : AskedUnder(q) /\ request' = [request EXCEPT ![r] = q]
  BY <1>1, <1>2, Moved
<1>4. RequestsInv' /\ FillInv'
  BY <1>1, <1>3, OneRequest
<1>5. own \in [rev : Int, stage : {"computes", "computed"}, figure : Nat] /\ own.rev <= landed /\ own.stage # "computed"
  BY <1>2 DEF AskedUnder, Requests
<1> HIDE DEF own
<1>6. FlightsInv'
  BY <1>1, <1>5 DEF CacheInv, FlightsInv
<1> QED
  BY <1>1, <1>4, <1>6 DEF CacheInv, KeptInv, NotOlder

-----------------------------------------------------------------------------
(* The computation of a window. *)

LEMMA ReadRevisionInv ==
  ASSUME CacheInv, ReadRevision
  PROVE  CacheInv'
<1>1. PICK rev \in Revisions :
        /\ fill.stage = "claimed" /\ fill' = [stage |-> "reads", by |-> fill.by, rev |-> rev]
        /\ UNCHANGED <<landed, entry, disk, request, page, flights>>
  BY DEF ReadRevision, detailOnly
<1>2. FillInv'
  BY <1>1, RevisionRead DEF CacheInv, FillInv
<1> QED
  BY <1>1, <1>2 DEF CacheInv, KeptInv, NotOlder, RequestsInv, AskedUnder, FlightsInv

LEMMA ComputeInv ==
  ASSUME CacheInv, Compute
  PROVE  CacheInv'
<1>1. /\ fill.stage = "reads"
      /\ fill' = [stage |-> "computed", by |-> fill.by, rev |-> fill.rev, figure |-> landed]
      /\ UNCHANGED <<landed, entry, disk, request, page, flights>>
  BY DEF Compute, detailOnly
<1>2. fill.by \in Readers => request[fill.by].at = "computes" /\ request[fill.by].since <= landed
  <2>1. fill.by \in Readers => request[fill.by].at = "computes"
    BY <1>1 DEF CacheInv, FillInv
  <2> QED
    BY <2>1, SomeoneAsking DEF AskedUnder
<1>3. FillInv'
  BY <1>1, <1>2 DEF CacheInv, FillInv
<1> QED
  BY <1>1, <1>3 DEF CacheInv, KeptInv, NotOlder, RequestsInv, AskedUnder, FlightsInv

LEMMA KeepInv ==
  ASSUME CacheInv, Keep
  PROVE  CacheInv'
<1> DEFINE s == [rev |-> fill.rev, figure |-> fill.figure, stale |-> FALSE]
<1>1. /\ fill.stage = "computed" /\ fill' = NoFill /\ entry' = s /\ disk' \in {disk, s}
      /\ IF fill.by \in Readers THEN Answer(fill.by, fill.figure) ELSE UNCHANGED request
      /\ UNCHANGED <<landed, page, flights>>
  BY DEF Keep, Stamp, Release, detailOnly
<1>2. NotOlder(s)
  BY <1>1 DEF CacheInv, FillInv, NotOlder, Snapshots
<1> HIDE DEF s
<1>3. KeptInv'
  BY <1>1, <1>2 DEF CacheInv, KeptInv, NotOlder
<1>4. FillInv'
  BY <1>1 DEF FillInv, NoFill
<1>5. RequestsInv'
  <2>1. CASE fill.by \in Readers
    <3> DEFINE q == [request[fill.by] EXCEPT !.at = "answered", !.figure = fill.figure]
    <3>1. request[fill.by].at = "computes" /\ request[fill.by].since <= fill.figure /\ fill.figure \in Nat
      BY <1>1, <2>1 DEF CacheInv, FillInv
    <3>2. AskedUnder(q)
      BY <2>1, <3>1, SomeoneAsking, Answered
    <3>3. request' = [request EXCEPT ![fill.by] = q]
      BY <1>1, <2>1 DEF Answer
    <3> HIDE DEF q
    <3> QED
      BY <1>1, <2>1, <3>2, <3>3, OneRequest
  <2>2. CASE fill.by \notin Readers
    BY <1>1, <2>2 DEF CacheInv, RequestsInv, AskedUnder
  <2> QED
    BY <2>1, <2>2
<1> QED
  BY <1>1, <1>3, <1>4, <1>5 DEF CacheInv, FlightsInv

LEMMA ComputeFailsInv ==
  ASSUME CacheInv, ComputeFails
  PROVE  CacheInv'
<1>1. /\ fill' = NoFill /\ request' = [r \in Readers |-> IF r = fill.by THEN NotAsking ELSE request[r]]
      /\ UNCHANGED <<landed, entry, disk, page, flights>>
  BY DEF ComputeFails, Release, detailOnly
<1>2. RequestsInv'
  BY <1>1 DEF CacheInv, RequestsInv, AskedUnder
<1>3. FillInv'
  BY <1>1 DEF FillInv, NoFill
<1> QED
  BY <1>1, <1>2, <1>3 DEF CacheInv, KeptInv, NotOlder, FlightsInv

LEMMA BehindTheReadersInv ==
  ASSUME CacheInv, Warm \/ KeeperReads \/ KeeperLooks
  PROVE  CacheInv'
<1>1. /\ Claim("nobody") \/ UNCHANGED fill
      /\ UNCHANGED <<landed, entry, disk, request, page, flights>>
  BY DEF Warm, KeeperReads, KeeperLooks, detailOnly
<1>2. RequestsInv'
  BY <1>1 DEF CacheInv, RequestsInv, AskedUnder
<1>3. FillInv'
  <2>1. CASE Claim("nobody")
    BY <1>1, <1>2, <2>1, ClaimedFill, CacheAssumption
  <2>2. CASE UNCHANGED fill
    BY <1>1, <2>2 DEF CacheInv, FillInv
  <2> QED
    BY <1>1, <2>1, <2>2
<1> QED
  BY <1>1, <1>2, <1>3 DEF CacheInv, KeptInv, NotOlder, FlightsInv

-----------------------------------------------------------------------------
(* The computations of a validator's page. *)

LEMMA PageComputedInv ==
  ASSUME CacheInv, PageComputed
  PROVE  CacheInv'
<1>1. PICK f \in flights :
        /\ flights' = (flights \ {f}) \cup {[f EXCEPT !.stage = "computed", !.figure = landed]}
        /\ UNCHANGED <<landed, entry, disk, fill, request, page>>
  BY DEF PageComputed, snapshotOnly
<1> DEFINE g == [f EXCEPT !.stage = "computed", !.figure = landed]
<1>2. f \in [rev : Int, stage : {"computes", "computed"}, figure : Nat] /\ f.rev <= landed /\ landed \in Nat
  BY DEF CacheInv, FlightsInv
<1>3. g \in [rev : Int, stage : {"computes", "computed"}, figure : Nat] /\ g.rev <= landed /\ g.figure = landed
  BY <1>2
<1> HIDE DEF g
<1>4. FlightsInv'
  <2>1. flights' = (flights \ {f}) \cup {g}
    BY <1>1 DEF g
  <2> QED
    BY <1>1, <1>3, <2>1 DEF CacheInv, FlightsInv
<1> QED
  BY <1>1, <1>4 DEF CacheInv, KeptInv, NotOlder, RequestsInv, AskedUnder, FillInv

LEMMA PageLandsInv ==
  ASSUME CacheInv, PageLands
  PROVE  CacheInv'
<1>1. PICK f \in flights :
        /\ f.stage = "computed" /\ flights' = flights \ {f}
        /\ page' \in {page, [rev |-> f.rev, figure |-> f.figure, stale |-> FALSE]}
        /\ request' = [r \in Readers |->
                         IF r \in Joined(f)
                         THEN [request[r] EXCEPT !.at = "answered", !.figure = f.figure] ELSE request[r]]
        /\ UNCHANGED <<landed, entry, disk, fill>>
  BY DEF PageLands, snapshotOnly
<1>2. f.rev \in Int /\ f.figure \in Nat /\ f.rev <= landed /\ f.rev <= f.figure
  BY <1>1 DEF CacheInv, FlightsInv
<1>3. KeptInv'
  <2>1. NotOlder([rev |-> f.rev, figure |-> f.figure, stale |-> FALSE])
    BY <1>2 DEF NotOlder, Snapshots
  <2>2. NotOlder(page')
    BY <1>1, <2>1 DEF CacheInv, KeptInv
  <2> QED
    BY <1>1, <2>2 DEF CacheInv, KeptInv, NotOlder
<1>4. \A r \in Joined(f) :
        /\ r \in Readers /\ request[r].at = "joined"
        /\ AskedUnder([request[r] EXCEPT !.at = "answered", !.figure = f.figure])
  <2> SUFFICES ASSUME NEW r \in Joined(f)
               PROVE  /\ r \in Readers /\ request[r].at = "joined"
                      /\ AskedUnder([request[r] EXCEPT !.at = "answered", !.figure = f.figure])
    OBVIOUS
  <2>1. r \in Readers /\ request[r].at = "joined" /\ request[r].rev = f.rev
    BY DEF Joined
  <2>2. AskedUnder(request[r])
    BY <2>1, SomeoneAsking
  <2>3. request[r].rev # Unreadable => request[r].since <= f.figure
    BY <1>2, <2>1, <2>2 DEF AskedUnder
  <2> QED
    BY <1>2, <2>1, <2>2, <2>3, Answered
<1>5. \A r \in Readers : request'[r] = request[r] \/ (request[r].at = "joined" /\ AskedUnder(request'[r]))
  BY <1>1, <1>4
<1>6. RequestsInv'
  <2>1. \A r \in Readers : AskedUnder(request'[r]) => request'[r] \in Requests
    BY DEF AskedUnder
  <2>2. \A r \in Readers : request'[r] \in {NotAsking} \cup Requests
    BY <1>5, <2>1 DEF CacheInv, RequestsInv
  <2>3. request' \in [Readers -> {NotAsking} \cup Requests]
    BY <1>1, <2>2
  <2> QED
    BY ZenonT(30), <1>1, <1>5, <2>3 DEF CacheInv, RequestsInv, AskedUnder
<1>7. FillInv'
  BY <1>1, <1>5 DEF CacheInv, FillInv
<1> QED
  BY <1>1, <1>3, <1>6, <1>7 DEF CacheInv, FlightsInv

LEMMA PageFailsInv ==
  ASSUME CacheInv, PageFails
  PROVE  CacheInv'
<1>1. PICK f \in flights :
        /\ flights' = flights \ {f}
        /\ request' = [r \in Readers |-> IF r \in Joined(f) THEN NotAsking ELSE request[r]]
        /\ UNCHANGED <<landed, entry, disk, fill, page>>
  BY DEF PageFails, snapshotOnly
<1>2. RequestsInv'
  BY <1>1 DEF CacheInv, RequestsInv, AskedUnder
<1>3. \A r \in Readers : request'[r] = request[r] \/ request[r].at = "joined"
  BY <1>1 DEF Joined
<1>4. FillInv'
  BY <1>1, <1>3 DEF CacheInv, FillInv
<1> QED
  BY <1>1, <1>2, <1>4 DEF CacheInv, KeptInv, NotOlder, FlightsInv

-----------------------------------------------------------------------------
(* Holds, time and restarts. *)

LEMMA HoldLandsInv ==
  ASSUME CacheInv, HoldLands
  PROVE  CacheInv'
<1>1. landed' = landed + 1 /\ landed \in Nat /\ UNCHANGED <<entry, disk, fill, request, page, flights>>
  BY DEF HoldLands, snapshotOnly, detailOnly, CacheInv
<1>2. \A n \in Int : n <= landed => n <= landed + 1
  BY <1>1
<1>3. KeptInv'
  BY <1>1, <1>2 DEF CacheInv, KeptInv, NotOlder, Snapshots
<1>4. RequestsInv'
  BY <1>1, <1>2 DEF CacheInv, RequestsInv, AskedUnder, Requests
<1>5. FillInv'
  BY <1>1, <1>2 DEF CacheInv, FillInv
<1>6. FlightsInv'
  BY <1>1, <1>2 DEF CacheInv, FlightsInv
<1> QED
  BY <1>1, <1>3, <1>4, <1>5, <1>6 DEF CacheInv

LEMMA TimeToLiveInv ==
  ASSUME CacheInv, TimeToLive
  PROVE  CacheInv'
<1>1. /\ entry' \in {entry, Aged(entry)} /\ page' \in {page, Aged(page)}
      /\ UNCHANGED <<landed, disk, fill, request, flights>>
  BY DEF TimeToLive
<1>2. NotOlder(Aged(entry)) /\ NotOlder(Aged(page))
  BY AgedIsNotOlder DEF CacheInv, KeptInv
<1>3. KeptInv'
  BY <1>1, <1>2 DEF CacheInv, KeptInv, NotOlder
<1> QED
  BY <1>1, <1>3 DEF CacheInv, RequestsInv, AskedUnder, FillInv, FlightsInv

LEMMA RestartInv ==
  ASSUME CacheInv, RestartApi
  PROVE  CacheInv'
<1>1. /\ entry' \in {disk, Aged(disk)} /\ page' = Nothing /\ fill' = NoFill /\ flights' = {}
      /\ request' = [r \in Readers |-> NotAsking] /\ UNCHANGED <<landed, disk>>
  BY DEF RestartApi, Release
<1>2. KeptInv'
  BY <1>1, AgedIsNotOlder, NothingIsNotOlder DEF CacheInv, KeptInv, NotOlder
<1>3. RequestsInv' /\ FillInv' /\ FlightsInv'
  BY <1>1 DEF RequestsInv, FillInv, NoFill, FlightsInv
<1> QED
  BY <1>1, <1>2, <1>3 DEF CacheInv

-----------------------------------------------------------------------------
LEMMA InitCache == CacheInit => CacheInv
BY NothingIsNotOlder DEF CacheInit, CacheInv, KeptInv, RequestsInv, FillInv, FlightsInv, NoFill

LEMMA NextCache == CacheInv /\ [CacheNext]_cacheVars => CacheInv'
<1> SUFFICES ASSUME CacheInv, [CacheNext]_cacheVars PROVE CacheInv'
  OBVIOUS
<1>1. ASSUME NEW r \in Readers,
             \/ Ask(r) \/ DropOther(r) \/ Serve(r) \/ TakeWhatLanded(r) \/ ClaimToCompute(r) \/ Leave(r)
             \/ ServePage(r) \/ JoinFlight(r)
      PROVE  CacheInv'
  BY <1>1, AskInv, DropOtherInv, ServeInv, TakeWhatLandedInv, ClaimToComputeInv, LeaveInv, ServePageInv, JoinFlightInv
<1>2. CASE ReadRevision \/ Compute \/ Keep \/ ComputeFails \/ Warm \/ KeeperReads \/ KeeperLooks
  BY <1>2, ReadRevisionInv, ComputeInv, KeepInv, ComputeFailsInv, BehindTheReadersInv
<1>3. CASE PageComputed \/ PageLands \/ PageFails
  BY <1>3, PageComputedInv, PageLandsInv, PageFailsInv
<1>4. CASE HoldLands \/ TimeToLive \/ RestartApi
  BY <1>4, HoldLandsInv, TimeToLiveInv, RestartInv
<1>5. CASE UNCHANGED cacheVars
  <2>1. UNCHANGED <<landed, entry, disk, fill, request, page, flights>>
    BY <1>5 DEF cacheVars, snapshotOnly, detailOnly
  <2> QED
    BY <2>1 DEF CacheInv, KeptInv, NotOlder, RequestsInv, AskedUnder, FillInv, FlightsInv
<1> QED
  BY <1>1, <1>2, <1>3, <1>4, <1>5 DEF CacheNext

(* No reader who could read the revision is given a figure from before a   *)
(* hold that had landed when it asked: not from the cache, from a          *)
(* computation it joined or claimed, or from the files of the process      *)
(* before (snapshot.go, validator_detail.go).                              *)
THEOREM FigureNeverWithdrawn == CacheSpec => []FigureNotWithdrawn
<1>1. CacheInv => FigureNotWithdrawn
  BY NoOneComputes DEF CacheInv, RequestsInv, AskedUnder, Requests, FigureNotWithdrawn
<1> QED
  BY <1>1, InitCache, NextCache, PTL DEF CacheSpec
-----------------------------------------------------------------------------
(* The withdrawal queue: its inductive invariant. *)

(* A request stays in the queue from its block until a payout or a         *)
(* shortfall takes it out; a payout is made when it is due.                *)
IsQueue(q, k) ==
  \A r \in DOMAIN q :
    /\ r \in 1 .. k /\ q[r].available \in Int /\ q[r].available > k
    /\ q[r] = [available |-> q[r].available, amount |-> q[r].amount]

Follows(before, after, k) ==
  \A r \in DOMAIN after : r < k => r \in DOMAIN before /\ after[r].available = before[r].available

IsPayout(p, q) ==
  /\ p = [height |-> p.height, amount |-> p.amount, of |-> p.of]
  /\ p.of \in DOMAIN q[p.height - 1]
  /\ p.amount = q[p.height - 1][p.of].amount
  /\ p.height = q[p.height - 1][p.of].available

IsChain(q, paid, h) ==
  /\ \A k \in 0 .. h : IsQueue(q[k], k)
  /\ \A k \in 1 .. h : Follows(q[k - 1], q[k], k)
  /\ \A p \in paid : p.height \in 1 .. h /\ IsPayout(p, q)

(* A row says when the request was last seen and first missed. *)
IsSighting(r, w) ==
  /\ w = [available |-> w.available, first |-> w.first, amount |-> w.amount, lastSeen |-> w.lastSeen,
          gone |-> w.gone, outcome |-> w.outcome, paid |-> w.paid]
  /\ w.lastSeen \in 1 .. Tip /\ r \in DOMAIN queues[w.lastSeen]
  /\ w.available = queues[w.lastSeen][r].available
  /\ w.amount = queues[w.lastSeen][r].amount
  /\ w.gone # Null => w.gone \in 1 .. Tip /\ w.lastSeen < w.gone /\ r \notin DOMAIN queues[w.gone]

(* Every row was at the last read what the queue then was, and a read that *)
(* missed one missed every row not seen since.                             *)
UpToRead(table, h) ==
  /\ \A r \in DOMAIN table :
       /\ table[r].lastSeen <= h /\ table[r].gone <= h
       /\ table[r].gone = Null => table[r].lastSeen = h
  /\ \A r \in DOMAIN queues[h] : r \in DOMAIN table /\ table[r].gone = Null
  /\ \A r, x \in DOMAIN table :
       table[x].gone # Null /\ table[r].lastSeen < table[x].gone => table[r].gone # Null /\ table[r].gone <= table[x].gone

HiddenFrom(table, p) == p.of \notin DOMAIN table \/ table[p.of].amount # p.amount

(* What a row says it was paid by. *)
IsOutcome(table, r) ==
  LET w == table[r] IN
  /\ w.outcome \in {"none", "consumed", "executed", "unattributed"}
  /\ w.outcome = "executed" <=> w.paid # {}
  /\ w.outcome = "consumed" => w.gone # Null /\ w.gone < w.available
  /\ \A p \in w.paid :
       /\ p \in payouts /\ (p.of = r \/ HiddenFrom(table, p))
       /\ w.gone # Null /\ w.available <= p.height /\ w.lastSeen < p.height /\ p.height <= w.gone
       /\ \A x \in DOMAIN table \ {r} : p \notin table[x].paid
       /\ \A q \in payouts : q.of = r /\ q.amount = w.amount /\ q.height \notin lost => q = p

RowsInv(table, h) ==
  /\ table = [r \in DOMAIN table |-> table[r]]
  /\ \A r \in DOMAIN table : IsSighting(r, table[r])
  /\ UpToRead(table, h)
  /\ \A r \in DOMAIN table : IsOutcome(table, r)

(* The payouts read: those of the blocks read, up to some height. *)
PaymentsInv ==
  /\ scanned \in 0 .. Tip /\ lastScanned \in 0 .. Tip /\ payments \subseteq payouts
  /\ \A p \in payments :
       /\ p.height <= scanned /\ p.height \notin lost
       /\ \A q \in payouts : q.height <= p.height /\ q.height \notin lost => q \in payments

EscrowInv ==
  /\ escrow = [height |-> escrow.height, locked |-> escrow.locked, readHeight |-> escrow.readHeight,
               pending |-> escrow.pending]
  /\ escrow.height \in 0 .. Tip /\ escrow.readHeight \in 0 .. Tip
  /\ escrow.height # Null => escrow.locked = Total(queues[escrow.height])
  /\ escrow.readHeight # Null => escrow.pending = Total(queues[escrow.readHeight])

WithdrawalInv ==
  /\ IsChain(queues, payouts, Tip)
  /\ RowsInv(ledger, escrow.readHeight)
  /\ PaymentsInv
  /\ EscrowInv

-----------------------------------------------------------------------------
(* The chain. *)

(* Grown is defined on every height. *)
LEMMA GrownIs ==
  /\ Grown[0] = {[queue |-> [k \in {0} |-> EmptyQueue], paid |-> {}]}
  /\ \A h \in 1 .. Tip : Grown[h] = UNION {WithBlock(c, h) : c \in Grown[h - 1]}
<1> DEFINE body(g, h) == IF h = 0 THEN {[queue |-> [k \in {0} |-> EmptyQueue], paid |-> {}]}
                                  ELSE UNION {WithBlock(c, h) : c \in g[h - 1]}
           T == {m \in 0 .. Tip : \A g : g # [h \in 0 .. m |-> body(g, h)]}
<1>1. Tip \in Nat
  BY WithdrawalAssumption
<1>2. T = {}
  <2> SUFFICES ASSUME T # {} PROVE FALSE
    OBVIOUS
  <2>1. PICK m \in T : \A k \in T : m <= k
    <3>1. T \in SUBSET Nat
      BY <1>1
    <3> HIDE DEF T
    <3> QED
      BY <3>1, Smallest
  <2>2. m \in 0 .. Tip /\ \A g : g # [h \in 0 .. m |-> body(g, h)]
    OBVIOUS
  <2>3. CASE m = 0
    <3> DEFINE g == [h \in 0 .. 0 |-> body(0, 0)]
    <3>1. g = [h \in 0 .. m |-> body(g, h)]
      <4>1. \A h \in 0 .. 0 : h = 0
        OBVIOUS
      <4> QED
        BY <4>1, <2>3
    <3> QED
      BY <2>2, <3>1
  <2>4. CASE m # 0
    <3>1. m - 1 \in 0 .. Tip /\ m - 1 \notin T
      <4> HIDE DEF T
      <4> QED
        BY <1>1, <2>1, <2>2, <2>4
    <3>2. PICK f : f = [h \in 0 .. m - 1 |-> body(f, h)]
      <4> HIDE DEF body
      <4> QED
        BY <3>1
    <3> DEFINE g == [h \in 0 .. m |-> body(f, h)]
    <3>3. \A h \in 0 .. m - 1 : g[h] = f[h]
      <4>1. \A h \in 0 .. m - 1 : h \in 0 .. m /\ f[h] = body(f, h)
        <5> HIDE DEF body
        <5> QED
          BY <3>2, <2>2, <1>1
      <4> HIDE DEF body
      <4> QED
        BY <4>1
    <3>4. \A h \in 0 .. m : body(g, h) = body(f, h)
      <4> SUFFICES ASSUME NEW h \in 0 .. m, h # 0 PROVE g[h - 1] = f[h - 1]
        OBVIOUS
      <4>1. h - 1 \in 0 .. m - 1
        BY <1>1, <2>2
      <4> HIDE DEF g
      <4> QED
        BY <3>3, <4>1
    <3>5. g = [h \in 0 .. m |-> body(g, h)]
      <4> HIDE DEF body
      <4> QED
        BY <3>4
    <3> HIDE DEF g, body
    <3> QED
      BY <2>2, <3>5
  <2> QED
    BY <2>3, <2>4
<1>3. \E g : g = [h \in 0 .. Tip |-> body(g, h)]
  <2>1. Tip \notin T /\ Tip \in 0 .. Tip
    <3> HIDE DEF T
    <3> QED
      BY <1>1, <1>2
  <2> HIDE DEF body
  <2> QED
    BY <2>1
<1>4. Grown = [h \in 0 .. Tip |-> body(Grown, h)]
  <2>1. Grown = CHOOSE g : g = [h \in 0 .. Tip |-> body(g, h)]
    BY DEF Grown
  <2> HIDE DEF body
  <2> QED
    BY <1>3, <2>1
<1>5. \A h \in 0 .. Tip : Grown[h] = body(Grown, h)
  <2> HIDE DEF body
  <2> QED
    BY <1>4
<1>6. Grown[0] = body(Grown, 0)
  <2> HIDE DEF body
  <2> QED
    BY <1>1, <1>5
<1>7. ASSUME NEW h \in 1 .. Tip PROVE Grown[h] = body(Grown, h) /\ h # 0
  <2>1. h \in 0 .. Tip /\ h # 0
    BY <1>1
  <2> HIDE DEF body
  <2> QED
    BY <1>5, <2>1
<1> QED
  BY <1>6, <1>7

(* What the txs of a block leave: requests that were there, and its own. *)
LEMMA AfterTxsIs ==
  ASSUME NEW q, NEW h \in Nat, NEW after \in AfterTxs(q, h),
         \A r \in DOMAIN q : q[r] = [available |-> q[r].available, amount |-> q[r].amount],
         NEW r \in DOMAIN after
  PROVE  /\ after[r] = [available |-> after[r].available, amount |-> after[r].amount]
         /\ \/ r \in DOMAIN q /\ after[r].available = q[r].available
            \/ r = h /\ after[r].available \in Int /\ after[r].available > h
<1>1. CASE after = q
  BY <1>1
<1>2. ASSUME NEW n, after = Reduced(q, n)
      PROVE  /\ r \in DOMAIN q /\ after[r].available = q[r].available
             /\ after[r] = [available |-> after[r].available, amount |-> after[r].amount]
  <2> DEFINE Older(x) == SumFunction([o \in {k \in DOMAIN q : k < x} |-> q[o].amount])
             Left(x) == IF n <= Older(x) THEN q[x].amount ELSE q[x].amount - (n - Older(x))
  <2>1. after = [x \in {k \in DOMAIN q : Left(k) > 0} |-> [q[x] EXCEPT !.amount = Left(x)]]
    BY <1>2 DEF Reduced
  <2> HIDE DEF Left
  <2>2. r \in DOMAIN q /\ after[r] = [q[r] EXCEPT !.amount = Left(r)]
    BY <2>1
  <2>3. q[r] = [available |-> q[r].available, amount |-> q[r].amount]
    BY <2>2
  <2> QED
    BY <2>2, <2>3
<1>3. ASSUME NEW d \in Delays, NEW a,
             after = [x \in DOMAIN q \cup {h} |-> IF x = h THEN [available |-> h + d, amount |-> a] ELSE q[x]]
      PROVE  /\ after[r] = [available |-> after[r].available, amount |-> after[r].amount]
             /\ \/ r \in DOMAIN q /\ after[r].available = q[r].available
                \/ r = h /\ after[r].available \in Int /\ after[r].available > h
  <2>1. d \in Nat /\ d > 0
    BY WithdrawalAssumption
  <2>2. CASE r = h
    BY <1>3, <2>1, <2>2
  <2>3. CASE r # h
    BY <1>3, <2>3
  <2> QED
    BY <2>2, <2>3
<1>4. \/ after = q
      \/ \E n \in Amounts : after = Reduced(q, n)
      \/ \E d \in Delays, a \in Amounts :
           after = [x \in DOMAIN q \cup {h} |-> IF x = h THEN [available |-> h + d, amount |-> a] ELSE q[x]]
  BY DEF AfterTxs
<1> QED
  BY <1>1, <1>2, <1>3, <1>4

LEMMA BlockIsChain ==
  ASSUME NEW h \in 1 .. Tip, NEW c, IsChain(c.queue, c.paid, h - 1), NEW d \in WithBlock(c, h)
  PROVE  IsChain(d.queue, d.paid, h)
<1> DEFINE before == c.queue[h - 1]
           due == Due(before, h)
           left == Without(before, due)
           paid == {[height |-> h, amount |-> before[r].amount, of |-> r] : r \in due}
<1>1. PICK after \in AfterTxs(left, h) :
        d = [queue |-> [k \in 0 .. h |-> IF k = h THEN after ELSE c.queue[k]], paid |-> c.paid \cup paid]
  BY DEF WithBlock
<1>2. Tip \in Nat /\ h \in Nat /\ h - 1 \in Nat /\ h - 1 \in 0 .. h - 1
  BY WithdrawalAssumption
<1>3. IsQueue(before, h - 1)
  BY <1>2 DEF IsChain
<1>4. d.queue[h] = after /\ \A k \in 0 .. h - 1 : d.queue[k] = c.queue[k]
  BY <1>1, <1>2
<1>5. \A r \in DOMAIN left : /\ r \in DOMAIN before /\ left[r] = before[r] /\ before[r].available > h
                             /\ left[r] = [available |-> left[r].available, amount |-> left[r].amount]
  BY <1>2, <1>3 DEF Without, Due, IsQueue
<1> HIDE DEF left
<1>6. \A r \in DOMAIN after :
        /\ after[r] = [available |-> after[r].available, amount |-> after[r].amount]
        /\ \/ r \in DOMAIN left /\ after[r].available = left[r].available
           \/ r = h /\ after[r].available \in Int /\ after[r].available > h
  BY <1>2, <1>5, AfterTxsIs
<1>7. IsQueue(after, h)
  <2> SUFFICES ASSUME NEW r \in DOMAIN after
               PROVE  r \in 1 .. h /\ after[r].available \in Int /\ after[r].available > h
    BY <1>6 DEF IsQueue
  <2>1. CASE r \in DOMAIN left /\ after[r].available = left[r].available
    BY <1>2, <1>3, <1>5, <2>1 DEF IsQueue
  <2>2. CASE r = h /\ after[r].available \in Int /\ after[r].available > h
    BY <1>2, <2>2
  <2> QED
    BY <1>6, <2>1, <2>2
<1>8. Follows(before, after, h)
  <2> SUFFICES ASSUME NEW r \in DOMAIN after, r < h
               PROVE  r \in DOMAIN before /\ after[r].available = before[r].available
    BY DEF Follows
  <2>1. r \in DOMAIN left /\ after[r].available = left[r].available
    BY <1>2, <1>6
  <2> QED
    BY <1>5, <2>1
<1>9. \A k \in 0 .. h : IsQueue(d.queue[k], k)
  <2> SUFFICES ASSUME NEW k \in 0 .. h PROVE IsQueue(d.queue[k], k)
    OBVIOUS
  <2>1. CASE k = h
    BY <1>4, <1>7, <2>1
  <2>2. CASE k # h
    <3>1. k \in 0 .. h - 1
      BY <1>2, <2>2
    <3> QED
      BY <1>4, <3>1 DEF IsChain
  <2> QED
    BY <2>1, <2>2
<1>10. \A k \in 1 .. h : Follows(d.queue[k - 1], d.queue[k], k)
  <2> SUFFICES ASSUME NEW k \in 1 .. h PROVE Follows(d.queue[k - 1], d.queue[k], k)
    OBVIOUS
  <2>1. k - 1 \in 0 .. h - 1
    BY <1>2
  <2>2. CASE k = h
    BY <1>4, <1>8, <2>1, <2>2
  <2>3. CASE k # h
    <3>1. k \in 0 .. h - 1 /\ k \in 1 .. h - 1
      BY <1>2, <2>3
    <3> QED
      BY <1>4, <2>1, <3>1 DEF IsChain
  <2> QED
    BY <2>2, <2>3
<1>11. \A p \in d.paid : p.height \in 1 .. h /\ IsPayout(p, d.queue)
  <2> SUFFICES ASSUME NEW p \in d.paid PROVE p.height \in 1 .. h /\ IsPayout(p, d.queue)
    OBVIOUS
  <2>1. CASE p \in c.paid
    <3>1. p.height \in 1 .. h - 1 /\ IsPayout(p, c.queue)
      BY <2>1 DEF IsChain
    <3>2. p.height - 1 \in 0 .. h - 1
      BY <1>2, <3>1
    <3> QED
      BY <1>2, <1>4, <3>1, <3>2 DEF IsPayout
  <2>2. CASE p \in paid
    <3>1. PICK r \in due : p = [height |-> h, amount |-> before[r].amount, of |-> r]
      BY <2>2
    <3>2. r \in DOMAIN before /\ before[r].available <= h /\ before[r].available > h - 1 /\ before[r].available \in Int
      BY <1>3 DEF Due, IsQueue
    <3>3. before[r].available = h
      BY <1>2, <3>2
    <3>4. d.queue[h - 1] = before
      BY <1>2, <1>4
    <3> HIDE DEF before, due
    <3>5. p.height = h /\ p.amount = before[r].amount /\ p.of = r
      BY <3>1
    <3> QED
      BY <1>2, <3>1, <3>2, <3>3, <3>4, <3>5 DEF IsPayout
  <2> QED
    BY <1>1, <2>1, <2>2
<1> QED
  BY <1>9, <1>10, <1>11 DEF IsChain

LEMMA GrownIsChain == \A h \in 0 .. Tip : \A c \in Grown[h] : IsChain(c.queue, c.paid, h)
<1> DEFINE T == {h \in 0 .. Tip : \E c \in Grown[h] : ~IsChain(c.queue, c.paid, h)}
<1> SUFFICES ASSUME T # {} PROVE FALSE
  OBVIOUS
<1>1. Tip \in Nat
  BY WithdrawalAssumption
<1>2. PICK h \in T : \A k \in T : h <= k
  <2>1. T \in SUBSET Nat
    BY <1>1
  <2> HIDE DEF T
  <2> QED
    BY <2>1, Smallest
<1>3. PICK c \in Grown[h] : ~IsChain(c.queue, c.paid, h)
  OBVIOUS
<1>4. CASE h = 0
  <2>1. c = [queue |-> [k \in {0} |-> EmptyQueue], paid |-> {}]
    BY <1>3, <1>4, GrownIs
  <2>2. c.queue[0] = EmptyQueue /\ DOMAIN EmptyQueue = {} /\ c.paid = {}
    BY <2>1 DEF EmptyQueue
  <2> QED
    BY <1>3, <1>4, <2>2 DEF IsChain, IsQueue
<1>5. CASE h # 0
  <2>1. h \in 1 .. Tip /\ h - 1 \in 0 .. Tip /\ h - 1 \notin T
    <3>1. h \in 0 .. Tip
      OBVIOUS
    <3> HIDE DEF T
    <3> QED
      BY <1>1, <1>2, <1>5, <3>1
  <2>2. PICK b \in Grown[h - 1] : c \in WithBlock(b, h)
    BY <1>3, <2>1, GrownIs
  <2>3. IsChain(b.queue, b.paid, h - 1)
    BY <2>1, <2>2
  <2> QED
    BY <1>3, <2>1, <2>2, <2>3, BlockIsChain
<1> QED
  BY <1>4, <1>5

LEMMA QueuedIs ==
  ASSUME IsChain(queues, payouts, Tip), NEW k \in 0 .. Tip, NEW r, r \in DOMAIN queues[k]
  PROVE  /\ Tip \in Nat /\ k \in Nat /\ r \in Nat /\ r # 0 /\ r <= k
         /\ queues[k][r].available \in Int /\ queues[k][r].available > k
         /\ queues[k][r] = [available |-> queues[k][r].available, amount |-> queues[k][r].amount]
<1>1. IsQueue(queues[k], k)
  BY DEF IsChain
<1> QED
  BY <1>1, WithdrawalAssumption DEF IsQueue

(* A request in the queue was there at every height since its own. *)
LEMMA StaysQueued ==
  ASSUME IsChain(queues, payouts, Tip), NEW k \in 0 .. Tip, NEW r \in DOMAIN queues[k], NEW j \in 0 .. k, r <= j
  PROVE  r \in DOMAIN queues[j] /\ queues[j][r].available = queues[k][r].available
<1> DEFINE There(n) == r \in DOMAIN queues[k - n] /\ queues[k - n][r].available = queues[k][r].available
           T == {n \in 0 .. k : r <= k - n /\ ~There(n)}
<1>0. Tip \in Nat /\ k \in Nat /\ r \in Nat
  BY QueuedIs
<1>1. Tip \in Nat /\ k \in Nat /\ j \in Nat /\ r \in Nat
  BY <1>0
<1>2. T = {}
  <2> SUFFICES ASSUME T # {} PROVE FALSE
    OBVIOUS
  <2> HIDE DEF There
  <2>1. PICK n \in T : \A m \in T : n <= m
    <3>1. T \in SUBSET Nat
      BY <1>1
    <3> HIDE DEF T
    <3> QED
      BY <3>1, Smallest
  <2>2. n \in 0 .. k /\ r <= k - n /\ ~There(n)
    OBVIOUS
  <2>3. n # 0
    <3>1. k - 0 = k
      BY <1>1
    <3>2. There(0)
      BY <3>1 DEF There
    <3> QED
      BY <2>2, <3>2
  <2>4. n - 1 \in 0 .. k /\ r <= k - (n - 1) /\ n - 1 \notin T
    <3>1. n - 1 \in 0 .. k /\ r <= k - (n - 1)
      BY <1>1, <2>2, <2>3
    <3> HIDE DEF T
    <3> QED
      BY <1>1, <2>1, <2>2, <3>1
  <2>5. There(n - 1)
    BY <2>4
  <2>6. k - (n - 1) \in 1 .. Tip /\ r < k - (n - 1) /\ k - (n - 1) - 1 = k - n
    BY <1>1, <2>2, <2>3
  <2>7. Follows(queues[k - n], queues[k - (n - 1)], k - (n - 1))
    BY <2>6 DEF IsChain
  <2>8. There(n)
    BY <2>5, <2>6, <2>7 DEF There, Follows
  <2> QED
    BY <2>2, <2>8
<1>3. k - j \in 0 .. k /\ r <= k - (k - j) /\ k - (k - j) = j
  BY <1>1
<1>4. There(k - j)
  <2> HIDE DEF There
  <2> QED
    BY <1>2, <1>3
<1> QED
  BY <1>3, <1>4

LEMMA SameAvailable ==
  ASSUME IsChain(queues, payouts, Tip), NEW j \in 0 .. Tip, NEW k \in 0 .. Tip, NEW r,
         r \in DOMAIN queues[j], r \in DOMAIN queues[k]
  PROVE  queues[j][r].available = queues[k][r].available
<1>1. r <= j /\ r <= k /\ Tip \in Nat
  BY QueuedIs
<1>2. CASE j <= k
  <2>1. j \in 0 .. k
    BY <1>1, <1>2
  <2> QED
    BY <1>1, <2>1, StaysQueued
<1>3. CASE k <= j
  <2>1. k \in 0 .. j
    BY <1>1, <1>3
  <2> QED
    BY <1>1, <2>1, StaysQueued
<1> QED
  BY <1>1, <1>2, <1>3

(* A request that has left the queue does not come back. *)
LEMMA GoneIsGone ==
  ASSUME IsChain(queues, payouts, Tip), NEW a \in 0 .. Tip, NEW g \in 0 .. Tip, NEW k \in 0 .. Tip, NEW r,
         r \in DOMAIN queues[a], r \notin DOMAIN queues[g], a <= g, g <= k
  PROVE  r \notin DOMAIN queues[k]
<1>1. r \in Nat /\ r <= a /\ Tip \in Nat
  BY QueuedIs
<1>2. g \in 0 .. k /\ r <= g
  BY <1>1
<1> QED
  BY <1>2, StaysQueued

(* What a payout says, and that its request is in the queue before it and  *)
(* not after it.                                                           *)
LEMMA PayoutIs ==
  ASSUME IsChain(queues, payouts, Tip), NEW p \in payouts
  PROVE  /\ p.height \in 1 .. Tip /\ p.height - 1 \in 0 .. Tip
         /\ p.of \in DOMAIN queues[p.height - 1] /\ p.of \in Nat /\ p.of < p.height
         /\ p.height = queues[p.height - 1][p.of].available
<1>1. p.height \in 1 .. Tip /\ IsPayout(p, queues) /\ Tip \in Nat
  BY WithdrawalAssumption DEF IsChain
<1>2. p.height - 1 \in 0 .. Tip
  BY <1>1
<1>3. p.of \in 1 .. p.height - 1
  BY <1>1, <1>2 DEF IsChain, IsQueue, IsPayout
<1> QED
  BY <1>1, <1>2, <1>3 DEF IsPayout

LEMMA PaidIsGone ==
  ASSUME IsChain(queues, payouts, Tip), NEW p \in payouts, NEW k \in 0 .. Tip, p.height <= k
  PROVE  p.of \notin DOMAIN queues[k]
<1> SUFFICES ASSUME p.of \in DOMAIN queues[k] PROVE FALSE
  OBVIOUS
<1>1. queues[k][p.of].available = p.height
  BY PayoutIs, SameAvailable
<1>2. queues[k][p.of].available > k
  BY QueuedIs
<1> QED
  BY <1>1, <1>2, PayoutIs, WithdrawalAssumption

(* Whoever saw it saw it before its payout, and missed it after. *)
LEMMA SeenBeforePaid ==
  ASSUME IsChain(queues, payouts, Tip), NEW p \in payouts, NEW a \in 0 .. Tip, p.of \in DOMAIN queues[a]
  PROVE  a < p.height /\ queues[a][p.of].available = p.height
<1>1. Tip \in Nat
  BY WithdrawalAssumption
<1> QED
  BY <1>1, PaidIsGone, PayoutIs, SameAvailable

LEMMA MissedOncePaid ==
  ASSUME IsChain(queues, payouts, Tip), NEW p \in payouts, NEW a \in 0 .. Tip, NEW g \in 0 .. Tip,
         p.of \in DOMAIN queues[a], p.of \notin DOMAIN queues[g], a <= g
  PROVE  p.height <= g
<1> SUFFICES ASSUME g <= p.height - 1 PROVE FALSE
  BY PayoutIs, WithdrawalAssumption
<1>1. p.of <= a /\ Tip \in Nat
  BY QueuedIs
<1>2. g \in 0 .. p.height - 1 /\ p.of <= g
  BY <1>1, PayoutIs
<1> QED
  BY <1>2, PayoutIs, StaysQueued

-----------------------------------------------------------------------------
(* A read of the queue. *)

(* What a read makes of a row: a request seen first, seen again, missed    *)
(* first, or gone since an earlier one.                                    *)
SeenFirst(w, r, h) ==
  /\ r \notin DOMAIN ledger /\ r \in DOMAIN queues[h]
  /\ w = [available |-> queues[h][r].available, first |-> queues[h][r].amount, amount |-> queues[h][r].amount,
          lastSeen |-> h, gone |-> Null, outcome |-> "none", paid |-> {}]

StillSeen(w, r, h) ==
  /\ r \in DOMAIN ledger /\ r \in DOMAIN queues[h] /\ ledger[r].gone = Null
  /\ w = [ledger[r] EXCEPT !.amount = queues[h][r].amount, !.lastSeen = h]

MissedFirst(w, r, h) ==
  /\ r \in DOMAIN ledger /\ r \notin DOMAIN queues[h] /\ ledger[r].gone = Null /\ ledger[r].lastSeen < h
  /\ w = [ledger[r] EXCEPT !.gone = h]

GoneBefore(w, r, h) ==
  /\ r \in DOMAIN ledger /\ r \notin DOMAIN queues[h] /\ ledger[r].gone # Null
  /\ w = ledger[r]

LEMMA ObserveIs ==
  ASSUME IsChain(queues, payouts, Tip), NEW h \in 1 .. Tip, NEW R \in 0 .. Tip, R <= h, RowsInv(ledger, R),
         NEW table, table = ObserveWithdrawals(queues[h], h)
  PROVE  /\ DOMAIN table = DOMAIN ledger \cup DOMAIN queues[h]
         /\ table = [r \in DOMAIN table |-> table[r]]
         /\ \A r \in DOMAIN table : SeenFirst(table[r], r, h) \/ StillSeen(table[r], r, h)
                                    \/ MissedFirst(table[r], r, h) \/ GoneBefore(table[r], r, h)
<1>1. DOMAIN table = DOMAIN ledger \cup DOMAIN queues[h] /\ table = [r \in DOMAIN table |-> table[r]]
  BY DEF ObserveWithdrawals
<1>2. Tip \in Nat /\ h \in Nat /\ R \in Nat /\ h # 0 /\ h \in 0 .. Tip
  BY WithdrawalAssumption
<1>3. ASSUME NEW r \in DOMAIN queues[h], r \notin DOMAIN ledger
      PROVE  table[r] = FirstSighting(queues[h][r], h)
  BY <1>3 DEF ObserveWithdrawals
<1>4. ASSUME NEW r \in DOMAIN ledger, r \in DOMAIN queues[h]
      PROVE  ledger[r].gone = Null /\ table[r] = [ledger[r] EXCEPT !.amount = queues[h][r].amount, !.lastSeen = h]
  <2>1. table[r] = SeenAgain(ledger[r], queues[h][r], h)
    BY <1>4 DEF ObserveWithdrawals
  <2>2. IsSighting(r, ledger[r]) /\ ledger[r].gone <= R
    BY DEF RowsInv, UpToRead
  <2>3. ledger[r].gone = Null
    <3> SUFFICES ASSUME ledger[r].gone # Null PROVE FALSE
      OBVIOUS
    <3>1. /\ ledger[r].lastSeen \in 0 .. Tip /\ ledger[r].gone \in 0 .. Tip /\ ledger[r].lastSeen <= ledger[r].gone
          /\ r \in DOMAIN queues[ledger[r].lastSeen] /\ r \notin DOMAIN queues[ledger[r].gone]
          /\ ledger[r].gone <= h
      BY <1>2, <2>2 DEF IsSighting
    <3> QED
      BY <1>2, <1>4, <3>1, GoneIsGone
  <2> QED
    BY <2>1, <2>3 DEF SeenAgain
<1>5. ASSUME NEW r \in DOMAIN ledger, r \notin DOMAIN queues[h]
      PROVE  /\ table[r] = IF ledger[r].gone = Null THEN [ledger[r] EXCEPT !.gone = h] ELSE ledger[r]
             /\ ledger[r].lastSeen < h
  <2>1. table[r] = Missed(ledger[r], h)
    BY <1>5 DEF ObserveWithdrawals
  <2>2. ledger[r].lastSeen \in 1 .. Tip /\ ledger[r].lastSeen <= R /\ r \in DOMAIN queues[ledger[r].lastSeen]
    BY DEF RowsInv, UpToRead, IsSighting
  <2>3. ledger[r].lastSeen # h
    BY <1>5, <2>2
  <2> QED
    BY <1>2, <2>1, <2>2, <2>3 DEF Missed
<1>6. ASSUME NEW r \in DOMAIN table
      PROVE  SeenFirst(table[r], r, h) \/ StillSeen(table[r], r, h) \/ MissedFirst(table[r], r, h) \/ GoneBefore(table[r], r, h)
  <2>1. CASE r \notin DOMAIN ledger
    BY <1>1, <1>3, <2>1 DEF FirstSighting, SeenFirst
  <2>2. CASE r \in DOMAIN ledger /\ r \in DOMAIN queues[h]
    BY <1>4, <2>2 DEF StillSeen
  <2>3. CASE r \in DOMAIN ledger /\ r \notin DOMAIN queues[h]
    BY <1>5, <2>3 DEF MissedFirst, GoneBefore
  <2> QED
    BY <2>1, <2>2, <2>3
<1> QED
  BY <1>1, <1>6

(* The columns of a row after a read. *)
LEMMA ObservedRow ==
  ASSUME IsChain(queues, payouts, Tip), NEW h \in 1 .. Tip, NEW R \in 0 .. Tip, R <= h, RowsInv(ledger, R),
         NEW table, table = ObserveWithdrawals(queues[h], h), NEW r \in DOMAIN table
  PROVE  /\ table[r] = [available |-> table[r].available, first |-> table[r].first, amount |-> table[r].amount,
                       lastSeen |-> table[r].lastSeen, gone |-> table[r].gone, outcome |-> table[r].outcome,
                       paid |-> table[r].paid]
         /\ IF r \in DOMAIN ledger
            THEN /\ table[r].available = ledger[r].available
                 /\ table[r].outcome = ledger[r].outcome /\ table[r].paid = ledger[r].paid
            ELSE /\ table[r].available = queues[h][r].available
                 /\ table[r].outcome = "none" /\ table[r].paid = {}
         /\ IF r \in DOMAIN queues[h]
            THEN /\ r \in DOMAIN ledger => ledger[r].gone = Null
                 /\ table[r].lastSeen = h /\ table[r].gone = Null /\ table[r].amount = queues[h][r].amount
            ELSE /\ r \in DOMAIN ledger /\ ledger[r].lastSeen < h
                 /\ table[r].lastSeen = ledger[r].lastSeen /\ table[r].amount = ledger[r].amount
                 /\ table[r].gone = IF ledger[r].gone = Null THEN h ELSE ledger[r].gone
<1>1. r \in DOMAIN ledger =>
        ledger[r] = [available |-> ledger[r].available, first |-> ledger[r].first, amount |-> ledger[r].amount,
                     lastSeen |-> ledger[r].lastSeen, gone |-> ledger[r].gone, outcome |-> ledger[r].outcome,
                     paid |-> ledger[r].paid]
  BY DEF RowsInv, IsSighting
<1>2. CASE SeenFirst(table[r], r, h)
  BY <1>2 DEF SeenFirst
<1>3. CASE StillSeen(table[r], r, h)
  BY <1>1, <1>3 DEF StillSeen
<1>4. CASE MissedFirst(table[r], r, h)
  BY <1>1, <1>4 DEF MissedFirst
<1>5. CASE GoneBefore(table[r], r, h)
  <2>1. ledger[r].lastSeen < h
    <3>1. ledger[r].lastSeen \in 1 .. Tip /\ ledger[r].lastSeen <= R /\ r \in DOMAIN queues[ledger[r].lastSeen]
      BY <1>5 DEF RowsInv, UpToRead, IsSighting, GoneBefore
    <3>2. ledger[r].lastSeen # h
      BY <1>5, <3>1 DEF GoneBefore
    <3> QED
      BY <3>1, <3>2, WithdrawalAssumption
  <2> QED
    BY <1>1, <1>5, <2>1 DEF GoneBefore
<1>6. SeenFirst(table[r], r, h) \/ StillSeen(table[r], r, h) \/ MissedFirst(table[r], r, h) \/ GoneBefore(table[r], r, h)
  BY ObserveIs
<1> QED
  BY <1>2, <1>3, <1>4, <1>5, <1>6

LEMMA ObserveKeeps ==
  ASSUME IsChain(queues, payouts, Tip), NEW h \in 1 .. Tip, NEW R \in 0 .. Tip, R <= h, RowsInv(ledger, R),
         NEW table, table = ObserveWithdrawals(queues[h], h)
  PROVE  RowsInv(table, h)
<1>1. Tip \in Nat /\ h \in Nat /\ R \in Nat /\ h # 0 /\ h \in 0 .. Tip
  BY WithdrawalAssumption
<1>2. DOMAIN table = DOMAIN ledger \cup DOMAIN queues[h] /\ table = [r \in DOMAIN table |-> table[r]]
  BY ObserveIs
<1>3. \A r \in DOMAIN ledger :
        /\ IsSighting(r, ledger[r]) /\ IsOutcome(ledger, r)
        /\ ledger[r].lastSeen \in 1 .. Tip /\ ledger[r].gone \in 0 .. Tip
        /\ ledger[r].lastSeen <= h /\ ledger[r].gone <= h
        /\ r \in DOMAIN queues[ledger[r].lastSeen]
  <2> SUFFICES ASSUME NEW r \in DOMAIN ledger
               PROVE  /\ IsSighting(r, ledger[r]) /\ IsOutcome(ledger, r)
                      /\ ledger[r].lastSeen \in 1 .. Tip /\ ledger[r].gone \in 0 .. Tip
                      /\ ledger[r].lastSeen <= h /\ ledger[r].gone <= h
                      /\ r \in DOMAIN queues[ledger[r].lastSeen]
    OBVIOUS
  <2>1. IsSighting(r, ledger[r]) /\ IsOutcome(ledger, r) /\ ledger[r].lastSeen <= R /\ ledger[r].gone <= R
    BY DEF RowsInv, UpToRead
  <2>2. ledger[r].lastSeen \in 1 .. Tip /\ ledger[r].gone \in 0 .. Tip /\ r \in DOMAIN queues[ledger[r].lastSeen]
    BY <1>1, <2>1 DEF IsSighting, Null
  <2> QED
    BY <1>1, <2>1, <2>2
<1>4. ASSUME NEW r \in DOMAIN table PROVE IsSighting(r, table[r])
  <2>1. CASE r \in DOMAIN queues[h]
    <3>1. table[r].lastSeen = h /\ table[r].gone = Null /\ table[r].amount = queues[h][r].amount
      BY <2>1, ObservedRow
    <3>2. table[r].available = queues[h][r].available
      <4>1. CASE r \in DOMAIN ledger
        <5>1. ledger[r].available = queues[ledger[r].lastSeen][r].available /\ ledger[r].lastSeen \in 0 .. Tip
          BY <1>1, <1>3, <4>1 DEF IsSighting
        <5>2. queues[ledger[r].lastSeen][r].available = queues[h][r].available
          BY <1>1, <1>3, <2>1, <4>1, <5>1, SameAvailable
        <5> QED
          BY <4>1, <5>1, <5>2, ObservedRow
      <4>2. CASE r \notin DOMAIN ledger
        BY <4>2, ObservedRow
      <4> QED
        BY <4>1, <4>2
    <3> QED
      BY <2>1, <3>1, <3>2, ObservedRow DEF IsSighting
  <2>2. CASE r \notin DOMAIN queues[h]
    <3>1. /\ r \in DOMAIN ledger /\ ledger[r].lastSeen < h
          /\ table[r].available = ledger[r].available
          /\ table[r].lastSeen = ledger[r].lastSeen /\ table[r].amount = ledger[r].amount
          /\ table[r].gone = IF ledger[r].gone = Null THEN h ELSE ledger[r].gone
      BY <2>2, ObservedRow
    <3>2. IsSighting(r, ledger[r])
      BY <1>3, <3>1
    <3>3. /\ table[r] = [available |-> table[r].available, first |-> table[r].first, amount |-> table[r].amount,
                        lastSeen |-> table[r].lastSeen, gone |-> table[r].gone, outcome |-> table[r].outcome,
                        paid |-> table[r].paid]
      BY ObservedRow
    <3> QED
      BY <2>2, <3>1, <3>2, <3>3 DEF IsSighting
  <2> QED
    BY <2>1, <2>2
<1>5. UpToRead(table, h)
  <2>1. ASSUME NEW r \in DOMAIN table
        PROVE  table[r].lastSeen <= h /\ table[r].gone <= h /\ (table[r].gone = Null => table[r].lastSeen = h)
    <3>1. CASE r \in DOMAIN queues[h]
      BY <1>1, <3>1, ObservedRow DEF Null
    <3>2. CASE r \notin DOMAIN queues[h]
      <4>1. /\ r \in DOMAIN ledger /\ ledger[r].lastSeen < h
            /\ table[r].lastSeen = ledger[r].lastSeen
            /\ table[r].gone = IF ledger[r].gone = Null THEN h ELSE ledger[r].gone
        BY <3>2, ObservedRow
      <4> QED
        BY <1>1, <1>3, <4>1 DEF Null
    <3> QED
      BY <3>1, <3>2
  <2>2. \A r \in DOMAIN queues[h] : r \in DOMAIN table /\ table[r].gone = Null
    BY <1>2, ObservedRow
  <2>3. ASSUME NEW r \in DOMAIN table, NEW x \in DOMAIN table, table[x].gone # Null, table[r].lastSeen < table[x].gone
        PROVE  table[r].gone # Null /\ table[r].gone <= table[x].gone
    <3>1. x \notin DOMAIN queues[h] /\ x \in DOMAIN ledger
      BY <2>2, <2>3, ObservedRow
    <3>2. table[x].gone = IF ledger[x].gone = Null THEN h ELSE ledger[x].gone
      BY <3>1, ObservedRow
    <3>3. table[x].gone <= h
      BY <2>1
    <3>4. r \notin DOMAIN queues[h]
      <4> SUFFICES ASSUME r \in DOMAIN queues[h] PROVE FALSE
        OBVIOUS
      <4>1. table[r].lastSeen = h
        BY ObservedRow
      <4>2. table[x].gone \in Int
        BY <1>1, <1>3, <3>1, <3>2
      <4> QED
        BY <1>1, <2>3, <3>3, <4>1, <4>2
    <3>5. /\ r \in DOMAIN ledger /\ table[r].lastSeen = ledger[r].lastSeen
          /\ table[r].gone = IF ledger[r].gone = Null THEN h ELSE ledger[r].gone
      BY <3>4, ObservedRow
    <3>6. CASE ledger[x].gone = Null
      BY <1>1, <1>3, <3>2, <3>5, <3>6 DEF Null
    <3>7. CASE ledger[x].gone # Null
      <4>1. ledger[r].gone # Null /\ ledger[r].gone <= ledger[x].gone
        BY <2>3, <3>1, <3>2, <3>5, <3>7 DEF RowsInv, UpToRead
      <4> QED
        BY <3>2, <3>5, <3>7, <4>1
    <3> QED
      BY <3>6, <3>7
  <2> QED
    BY <2>1, <2>2, <2>3 DEF UpToRead
<1>6. ASSUME NEW r \in DOMAIN table PROVE IsOutcome(table, r)
  <2>1. CASE r \notin DOMAIN ledger
    <3>1. table[r].outcome = "none" /\ table[r].paid = {}
      BY <2>1, ObservedRow
    <3> QED
      BY <3>1 DEF IsOutcome
  <2>2. CASE r \in DOMAIN ledger
    <3>1. table[r].outcome = ledger[r].outcome /\ table[r].paid = ledger[r].paid
          /\ table[r].available = ledger[r].available
      BY <2>2, ObservedRow
    <3>2. IsOutcome(ledger, r)
      BY <1>3, <2>2
    <3>3. /\ table[r].outcome \in {"none", "consumed", "executed", "unattributed"}
          /\ table[r].outcome = "executed" <=> table[r].paid # {}
      BY <3>1, <3>2 DEF IsOutcome
    <3>4. ledger[r].gone # Null => /\ table[r].gone = ledger[r].gone /\ table[r].lastSeen = ledger[r].lastSeen
                                   /\ table[r].amount = ledger[r].amount
      <4> SUFFICES ASSUME ledger[r].gone # Null
                   PROVE  /\ table[r].gone = ledger[r].gone /\ table[r].lastSeen = ledger[r].lastSeen
                          /\ table[r].amount = ledger[r].amount
        OBVIOUS
      <4>1. r \notin DOMAIN queues[h]
        BY <2>2, ObservedRow
      <4> QED
        BY <4>1, ObservedRow
    <3>5. table[r].outcome = "consumed" => table[r].gone # Null /\ table[r].gone < table[r].available
      BY <3>1, <3>2, <3>4 DEF IsOutcome
    <3>6. ASSUME NEW p \in table[r].paid
          PROVE  /\ p \in payouts /\ (p.of = r \/ HiddenFrom(table, p))
                 /\ table[r].gone # Null /\ table[r].available <= p.height /\ table[r].lastSeen < p.height
                 /\ p.height <= table[r].gone
                 /\ \A x \in DOMAIN table \ {r} : p \notin table[x].paid
                 /\ \A q \in payouts : q.of = r /\ q.amount = table[r].amount /\ q.height \notin lost => q = p
      <4>1. /\ p \in payouts /\ (p.of = r \/ HiddenFrom(ledger, p))
            /\ ledger[r].gone # Null /\ ledger[r].available <= p.height /\ ledger[r].lastSeen < p.height
            /\ p.height <= ledger[r].gone
            /\ \A x \in DOMAIN ledger \ {r} : p \notin ledger[x].paid
            /\ \A q \in payouts : q.of = r /\ q.amount = ledger[r].amount /\ q.height \notin lost => q = p
        BY <3>1, <3>2 DEF IsOutcome
      <4>2. \A x \in DOMAIN table \ {r} : p \notin table[x].paid
        BY <4>1, ObservedRow
      <4>3. p.of \notin DOMAIN queues[h]
        <5>1. p.height <= h
          BY <1>1, <1>3, <2>2, <4>1, PayoutIs
        <5> QED
          BY <1>1, <4>1, <5>1, PaidIsGone
      <4>4. HiddenFrom(ledger, p) => HiddenFrom(table, p)
        <5> SUFFICES ASSUME HiddenFrom(ledger, p), p.of \in DOMAIN table PROVE table[p.of].amount # p.amount
          BY DEF HiddenFrom
        <5>1. p.of \in DOMAIN ledger /\ table[p.of].amount = ledger[p.of].amount
          BY <4>3, ObservedRow
        <5> QED
          BY <5>1 DEF HiddenFrom
      <4> QED
        BY <3>1, <3>4, <4>1, <4>2, <4>4
    <3> QED
      BY <3>3, <3>5, <3>6 DEF IsOutcome
  <2> QED
    BY <2>1, <2>2
<1> QED
  BY <1>2, <1>4, <1>5, <1>6 DEF RowsInv

-----------------------------------------------------------------------------
(* What became of those that left. *)

(* A payout of o that a row is given could be no one else's: o, if it was  *)
(* seen at that amount, would have claimed it too.                         *)
LEMMA OwnPayout ==
  ASSUME IsChain(queues, payouts, Tip), PaymentsInv, NEW R \in 0 .. Tip, NEW table, RowsInv(table, R),
         NEW r \in Searchable(table), NEW p \in Unambiguous(table, r)
  PROVE  p.of = r \/ HiddenFrom(table, p)
<1> DEFINE o == p.of
<1> SUFFICES ASSUME o # r, o \in DOMAIN table, table[o].amount = p.amount PROVE FALSE
  BY DEF HiddenFrom
<1>1. /\ r \in DOMAIN table /\ lastScanned >= table[r].gone /\ table[r].gone # Null
      /\ p \in payments /\ p \notin Claimed(table) /\ p.height <= table[r].gone /\ Claims(table, p) = {r}
  BY DEF Searchable, Undecided, Unambiguous, Events
<1>2. p \in payouts /\ p.height \notin lost /\ Tip \in Nat /\ lastScanned \in 0 .. Tip
  BY <1>1, WithdrawalAssumption DEF PaymentsInv
<1>3. /\ IsSighting(r, table[r]) /\ IsSighting(o, table[o]) /\ IsOutcome(table, o) /\ UpToRead(table, R)
  BY <1>1 DEF RowsInv
<1>4. table[r].gone \in 1 .. Tip
  BY <1>1, <1>3 DEF IsSighting
<1>5. /\ table[o].lastSeen \in 0 .. Tip /\ o \in DOMAIN queues[table[o].lastSeen]
      /\ table[o].available = queues[table[o].lastSeen][o].available
  BY <1>2, <1>3 DEF IsSighting
<1>6. table[o].lastSeen < p.height /\ table[o].available = p.height /\ p.height \in 1 .. Tip
  BY <1>2, <1>5, SeenBeforePaid, PayoutIs
<1>7. table[o].gone # Null /\ table[o].gone <= table[r].gone
  <2>1. table[o].lastSeen < table[r].gone
    BY <1>1, <1>2, <1>4, <1>5, <1>6
  <2> QED
    BY <1>1, <1>3, <2>1 DEF UpToRead
<1>8. table[o].gone \in 0 .. Tip /\ o \notin DOMAIN queues[table[o].gone] /\ table[o].lastSeen <= table[o].gone
  BY <1>2, <1>3, <1>5, <1>7 DEF IsSighting
<1>9. p.height <= table[o].gone
  BY <1>2, <1>5, <1>8, MissedOncePaid
<1>10. table[o].outcome # "consumed"
  BY <1>2, <1>3, <1>6, <1>8, <1>9 DEF IsOutcome
<1>11. table[o].outcome # "executed"
  <2> SUFFICES ASSUME table[o].outcome = "executed" PROVE FALSE
    OBVIOUS
  <2>1. PICK q \in table[o].paid : \A y \in payouts : y.of = o /\ y.amount = table[o].amount /\ y.height \notin lost => y = q
    BY <1>3 DEF IsOutcome
  <2>2. p \in table[o].paid
    BY <1>2, <2>1
  <2> QED
    BY <1>1, <2>2 DEF Claimed
<1>12. o \in Searchable(table)
  <2>1. table[o].outcome \in {"none", "unattributed"}
    BY <1>3, <1>10, <1>11 DEF IsOutcome
  <2>2. ~(table[o].gone < table[o].available) /\ lastScanned >= table[o].gone
    BY <1>1, <1>2, <1>4, <1>6, <1>7, <1>8, <1>9
  <2> QED
    BY <1>7, <2>1, <2>2 DEF Searchable, Undecided, MissedTooEarly
<1>13. p \in Events(table, o)
  BY <1>1, <1>6, <1>9 DEF Events
<1>14. o \in Claims(table, p)
  BY <1>12, <1>13 DEF Claims
<1> QED
  BY <1>1, <1>14

(* Its own payout, had it one that was read, is the one it was given. *)
LEMMA NoOtherPayout ==
  ASSUME IsChain(queues, payouts, Tip), PaymentsInv, NEW R \in 0 .. Tip, NEW table, RowsInv(table, R),
         NEW r \in Searchable(table), NEW p \in Unambiguous(table, r),
         NEW q \in payouts, q.of = r, q.amount = table[r].amount, q.height \notin lost
  PROVE  q = p
<1>1. /\ r \in DOMAIN table /\ table[r].gone # Null /\ table[r].outcome \in {"none", "unattributed"}
      /\ p \in payments /\ p.height <= table[r].gone /\ p.height >= table[r].available /\ Events(table, r) = {p}
  BY DEF Searchable, Undecided, Unambiguous, Events
<1>2. p \in payouts /\ Tip \in Nat
  BY <1>1, WithdrawalAssumption DEF PaymentsInv
<1>3. IsSighting(r, table[r]) /\ IsOutcome(table, r)
  BY <1>1 DEF RowsInv
<1>4. /\ table[r].lastSeen \in 0 .. Tip /\ table[r].gone \in 0 .. Tip /\ r \in DOMAIN queues[table[r].lastSeen]
      /\ table[r].available = queues[table[r].lastSeen][r].available
  BY <1>1, <1>2, <1>3 DEF IsSighting
<1>5. table[r].lastSeen < q.height /\ table[r].available = q.height /\ q.height \in 1 .. Tip /\ p.height \in 1 .. Tip
  BY <1>2, <1>4, SeenBeforePaid, PayoutIs
<1>6. q.height <= p.height
  BY <1>1, <1>5
<1>7. q \in payments
  BY <1>1, <1>6 DEF PaymentsInv
<1>8. q \notin Claimed(table)
  <2> SUFFICES ASSUME NEW x \in DOMAIN table, q \in table[x].paid PROVE FALSE
    BY DEF Claimed
  <2>1. x # r
    BY <1>1, <1>3 DEF IsOutcome
  <2>2. q.of = x \/ HiddenFrom(table, q)
    BY DEF RowsInv, IsOutcome
  <2> QED
    BY <1>1, <2>1, <2>2 DEF HiddenFrom
<1>9. q.height <= table[r].gone
  BY <1>1, <1>2, <1>4, <1>5, <1>6
<1>10. q \in Events(table, r)
  BY <1>5, <1>7, <1>8, <1>9 DEF Events
<1> QED
  BY <1>1, <1>10

(* A row with its outcome: the rest is as it was. *)
IsResolved(table, r, w) ==
  /\ w = [available |-> w.available, first |-> w.first, amount |-> w.amount, lastSeen |-> w.lastSeen,
          gone |-> w.gone, outcome |-> w.outcome, paid |-> w.paid]
  /\ w.available = table[r].available /\ w.amount = table[r].amount
  /\ w.lastSeen = table[r].lastSeen /\ w.gone = table[r].gone
  /\ \/ w.outcome = table[r].outcome /\ w.paid = table[r].paid
     \/ /\ w.outcome \in {"consumed", "unattributed"} /\ w.paid = {} /\ table[r].paid = {}
        /\ w.outcome = "consumed" => table[r].gone # Null /\ table[r].gone < table[r].available
     \/ /\ r \in Searchable(table) /\ w.outcome = "executed" /\ table[r].paid = {}
        /\ w.paid = Unambiguous(table, r) /\ Unambiguous(table, r) # {}

LEMMA ResolvedRow ==
  ASSUME NEW R \in 0 .. Tip, NEW table, RowsInv(table, R), NEW r \in DOMAIN table
  PROVE  IsResolved(table, r, ResolveWithdrawals(table)[r])
<1> DEFINE next == ResolveWithdrawals(table)
<1> SUFFICES IsResolved(table, r, next[r])
  OBVIOUS
<1>1. next[r] = WithOutcome(table, r)
  BY DEF ResolveWithdrawals
<1> HIDE DEF next
<1>2. /\ table[r] = [available |-> table[r].available, first |-> table[r].first, amount |-> table[r].amount,
                    lastSeen |-> table[r].lastSeen, gone |-> table[r].gone, outcome |-> table[r].outcome,
                    paid |-> table[r].paid]
  BY DEF RowsInv, IsSighting
<1>3. r \in Undecided(table) => table[r].gone # Null /\ table[r].paid = {}
  BY DEF Undecided, RowsInv, IsOutcome
<1>4. Searchable(table) \subseteq Undecided(table) /\ (r \in Searchable(table) => ~MissedTooEarly(table[r]))
  BY DEF Searchable
<1>5. CASE r \in Undecided(table) /\ MissedTooEarly(table[r])
  <2>1. next[r] = [table[r] EXCEPT !.outcome = "consumed"]
    BY <1>1, <1>4, <1>5 DEF WithOutcome
  <2> QED
    BY <1>2, <1>3, <1>5, <2>1 DEF MissedTooEarly, IsResolved
<1>6. CASE r \in Searchable(table) /\ Unambiguous(table, r) # {}
  <2>1. next[r] = [table[r] EXCEPT !.outcome = "executed", !.paid = Unambiguous(table, r)]
    BY <1>1, <1>4, <1>6 DEF WithOutcome
  <2> HIDE DEF Unambiguous
  <2> QED
    BY <1>2, <1>3, <1>4, <1>6, <2>1 DEF IsResolved
<1>7. CASE r \in Searchable(table) /\ Unambiguous(table, r) = {}
  <2>1. next[r] = [table[r] EXCEPT !.outcome = "unattributed"]
    BY <1>1, <1>4, <1>7 DEF WithOutcome
  <2> QED
    BY <1>2, <1>3, <1>4, <1>7, <2>1 DEF IsResolved
<1>8. CASE ~(r \in Undecided(table) /\ MissedTooEarly(table[r])) /\ r \notin Searchable(table)
  <2>1. next[r] = table[r]
    BY <1>1, <1>8 DEF WithOutcome
  <2> QED
    BY <1>2, <2>1 DEF IsResolved
<1> QED
  BY <1>5, <1>6, <1>7, <1>8

LEMMA ResolveKeeps ==
  ASSUME IsChain(queues, payouts, Tip), PaymentsInv, NEW R \in 0 .. Tip, NEW table, RowsInv(table, R),
         NEW next, next = ResolveWithdrawals(table)
  PROVE  RowsInv(next, R)
<1>1. DOMAIN next = DOMAIN table /\ next = [r \in DOMAIN next |-> next[r]]
  BY DEF ResolveWithdrawals
<1>0. \A r \in DOMAIN table : IsResolved(table, r, next[r])
  BY ResolvedRow
<1>2. \A r \in DOMAIN table :
        /\ next[r].available = table[r].available /\ next[r].amount = table[r].amount
        /\ next[r].lastSeen = table[r].lastSeen /\ next[r].gone = table[r].gone
  BY <1>0 DEF IsResolved
<1>3. ASSUME NEW r \in DOMAIN next PROVE IsSighting(r, next[r])
  <2>1. IsSighting(r, table[r])
    BY <1>1 DEF RowsInv
  <2>2. next[r] = [available |-> next[r].available, first |-> next[r].first, amount |-> next[r].amount,
                   lastSeen |-> next[r].lastSeen, gone |-> next[r].gone, outcome |-> next[r].outcome,
                   paid |-> next[r].paid]
    BY <1>0, <1>1 DEF IsResolved
  <2> QED
    BY <1>1, <1>2, <2>1, <2>2 DEF IsSighting
<1>4. UpToRead(next, R)
  BY <1>1, <1>2 DEF RowsInv, UpToRead
<1>5. \A p : HiddenFrom(table, p) <=> HiddenFrom(next, p)
  BY <1>1, <1>2 DEF HiddenFrom
<1>6. \A r \in DOMAIN table : \A p \in next[r].paid :
        \/ p \in table[r].paid
        \/ r \in Searchable(table) /\ p \in Unambiguous(table, r)
  BY <1>0 DEF IsResolved
<1>7. ASSUME NEW r \in DOMAIN table, NEW x \in DOMAIN table \ {r}, NEW p, p \in next[r].paid, p \in next[x].paid
      PROVE  FALSE
  <2>1. \A y \in DOMAIN table : y \in Searchable(table) /\ p \in Unambiguous(table, y) =>
          p \notin Claimed(table) /\ Claims(table, p) = {y}
    BY DEF Unambiguous, Events
  <2>2. \A y \in DOMAIN table : p \in table[y].paid => p \in Claimed(table)
    BY DEF Claimed
  <2>3. ~(p \in table[r].paid /\ p \in table[x].paid)
    BY DEF RowsInv, IsOutcome
  <2> QED
    BY <1>6, <1>7, <2>1, <2>2, <2>3
<1>8. ASSUME NEW r \in DOMAIN next PROVE IsOutcome(next, r)
  <2>1. r \in DOMAIN table /\ IsOutcome(table, r)
    BY <1>1 DEF RowsInv
  <2>2. /\ next[r].outcome \in {"none", "consumed", "executed", "unattributed"}
        /\ next[r].outcome = "executed" <=> next[r].paid # {}
        /\ next[r].outcome = "consumed" => next[r].gone # Null /\ next[r].gone < next[r].available
    BY <1>0, <2>1 DEF IsResolved, IsOutcome
  <2>3. ASSUME NEW p \in next[r].paid
        PROVE  /\ p \in payouts /\ (p.of = r \/ HiddenFrom(next, p))
               /\ next[r].gone # Null /\ next[r].available <= p.height /\ next[r].lastSeen < p.height
               /\ p.height <= next[r].gone
               /\ \A q \in payouts : q.of = r /\ q.amount = next[r].amount /\ q.height \notin lost => q = p
    <3>1. CASE p \in table[r].paid
      <4>1. /\ p \in payouts /\ (p.of = r \/ HiddenFrom(table, p))
            /\ table[r].gone # Null /\ table[r].available <= p.height /\ table[r].lastSeen < p.height
            /\ p.height <= table[r].gone
            /\ \A q \in payouts : q.of = r /\ q.amount = table[r].amount /\ q.height \notin lost => q = p
        BY <2>1, <3>1 DEF IsOutcome
      <4> QED
        BY <1>2, <1>5, <2>1, <4>1
    <3>2. CASE r \in Searchable(table) /\ p \in Unambiguous(table, r)
      <4>1. /\ p \in payments /\ p.height > table[r].lastSeen /\ p.height <= table[r].gone
            /\ p.height >= table[r].available /\ table[r].gone # Null
        BY <3>2 DEF Searchable, Undecided, Unambiguous, Events
      <4>2. p \in payouts /\ p.height \in 1 .. Tip
        BY <4>1, PayoutIs DEF PaymentsInv
      <4>3. p.of = r \/ HiddenFrom(table, p)
        BY <3>2, OwnPayout
      <4>4. \A q \in payouts : q.of = r /\ q.amount = table[r].amount /\ q.height \notin lost => q = p
        BY <3>2, NoOtherPayout
      <4>5. table[r].available \in Int /\ table[r].lastSeen \in 1 .. Tip
        <5>1. IsSighting(r, table[r])
          BY <2>1 DEF RowsInv
        <5>2. table[r].lastSeen \in 0 .. Tip /\ r \in DOMAIN queues[table[r].lastSeen]
              /\ table[r].available = queues[table[r].lastSeen][r].available
          BY <5>1, WithdrawalAssumption DEF IsSighting
        <5> QED
          BY <5>1, <5>2, QueuedIs DEF IsSighting
      <4>6. table[r].available <= p.height /\ table[r].lastSeen < p.height
        BY <4>1, <4>2, <4>5, WithdrawalAssumption
      <4> QED
        BY <1>2, <1>5, <2>1, <4>1, <4>2, <4>3, <4>4, <4>6
    <3> QED
      BY <1>6, <2>1, <3>1, <3>2
  <2>4. \A p \in next[r].paid : \A x \in DOMAIN next \ {r} : p \notin next[x].paid
    BY <1>1, <1>7
  <2> QED
    BY <2>2, <2>3, <2>4 DEF IsOutcome
<1> QED
  BY <1>1, <1>3, <1>4, <1>8 DEF RowsInv

-----------------------------------------------------------------------------
(* The steps. *)

LEMMA WithdrawalInitInv == WithdrawalInit => WithdrawalInv
<1> SUFFICES ASSUME WithdrawalInit PROVE WithdrawalInv
  OBVIOUS
<1>1. PICK c \in Chains : queues = c.queue /\ payouts = c.paid
  BY DEF WithdrawalInit
<1>2. Tip \in Nat /\ Tip \in 0 .. Tip /\ 0 \in 0 .. Tip
  BY WithdrawalAssumption
<1>3. IsChain(queues, payouts, Tip)
  BY <1>1, <1>2, GrownIsChain DEF Chains
<1>4. NothingRead /\ DOMAIN ledger = {} /\ escrow.height = Null /\ escrow.readHeight = Null
  BY DEF WithdrawalInit, NothingRead
<1>5. DOMAIN queues[0] = {}
  <2>1. \A r \in DOMAIN queues[0] : r <= 0 /\ r \in Nat /\ r # 0
    BY <1>2, <1>3, QueuedIs
  <2> QED
    BY <2>1
<1>6. RowsInv(ledger, escrow.readHeight)
  BY <1>4, <1>5 DEF RowsInv, UpToRead, NothingRead, Null
<1>7. PaymentsInv
  BY <1>2, <1>4 DEF PaymentsInv, NothingRead
<1>8. EscrowInv
  BY <1>2, <1>4 DEF EscrowInv, NothingRead, Null
<1> QED
  BY <1>3, <1>6, <1>7, <1>8 DEF WithdrawalInv

LEMMA ScanKeeps == WithdrawalInv /\ ScanPayments => WithdrawalInv'
<1> SUFFICES ASSUME WithdrawalInv, ScanPayments PROVE WithdrawalInv'
  OBVIOUS
<1>1. /\ scanned < Tip /\ scanned' = scanned + 1 /\ (lost' = lost \/ lost' = lost \cup {scanned + 1})
      /\ queues' = queues /\ payouts' = payouts /\ lastScanned' = lastScanned /\ payments' = payments
      /\ ledger' = ledger /\ escrow' = escrow
  BY DEF ScanPayments, chainVars
<1>2. PaymentsInv'
  <2>1. Tip \in Nat /\ scanned \in 0 .. Tip
    BY WithdrawalAssumption DEF WithdrawalInv, PaymentsInv
  <2>2. \A p \in payments : p.height \in 1 .. Tip
    BY PayoutIs DEF WithdrawalInv, PaymentsInv
  <2> QED
    BY <1>1, <2>1, <2>2 DEF WithdrawalInv, PaymentsInv
<1>3. RowsInv(ledger, escrow.readHeight)'
  <2>1. lost \subseteq lost'
    BY <1>1
  <2>2. \A r \in DOMAIN ledger : IsOutcome(ledger, r)'
    <3> SUFFICES ASSUME NEW r \in DOMAIN ledger PROVE IsOutcome(ledger, r)'
      OBVIOUS
    <3>1. IsOutcome(ledger, r)
      BY DEF WithdrawalInv, RowsInv
    <3> QED
      BY <1>1, <2>1, <3>1 DEF IsOutcome, HiddenFrom
  <2> QED
    BY <1>1, <2>2 DEF WithdrawalInv, RowsInv, UpToRead, IsSighting
<1> QED
  BY <1>1, <1>2, <1>3 DEF WithdrawalInv, EscrowInv, IsChain, IsPayout, Total

LEMMA IngestKeeps == WithdrawalInv /\ Ingest => WithdrawalInv'
<1> SUFFICES ASSUME WithdrawalInv, Ingest PROVE WithdrawalInv'
  OBVIOUS
<1>1. /\ lastScanned' \in {lastScanned, scanned}
      /\ payments' = payments \/ payments' = {p \in payouts : p.height <= scanned /\ p.height \notin lost}
      /\ queues' = queues /\ payouts' = payouts /\ scanned' = scanned /\ lost' = lost
      /\ ledger' = ledger /\ escrow' = escrow
  BY DEF Ingest, chainVars, scannerFiles
<1>2. PaymentsInv'
  <2>1. Tip \in Nat /\ scanned \in 0 .. Tip
    BY WithdrawalAssumption DEF WithdrawalInv, PaymentsInv
  <2>2. \A p \in payouts : p.height \in 1 .. Tip
    BY PayoutIs DEF WithdrawalInv
  <2>3. CASE payments' = payments
    BY <1>1, <2>3 DEF WithdrawalInv, PaymentsInv
  <2>4. CASE payments' = {p \in payouts : p.height <= scanned /\ p.height \notin lost}
    <3>1. \A p \in payments' : /\ p.height <= scanned /\ p.height \notin lost
                               /\ \A q \in payouts : q.height <= p.height /\ q.height \notin lost => q \in payments'
      <4> SUFFICES ASSUME NEW p \in payments', NEW q \in payouts, q.height <= p.height, q.height \notin lost
                   PROVE  q.height <= scanned
        BY <2>4
      <4>1. p \in payouts /\ p.height <= scanned
        BY <2>4
      <4> QED
        BY <2>1, <2>2, <4>1
    <3>2. payments' \subseteq payouts
      BY <2>4
    <3> QED
      BY <1>1, <3>1, <3>2 DEF WithdrawalInv, PaymentsInv
  <2> QED
    BY <1>1, <2>3, <2>4
<1> QED
  BY <1>1, <1>2
     DEF WithdrawalInv, RowsInv, UpToRead, IsSighting, IsOutcome, HiddenFrom, EscrowInv, IsChain, IsPayout, Total

LEMMA EscrowRow ==
  ASSUME NEW e, e = [height |-> e.height, locked |-> e.locked, readHeight |-> e.readHeight, pending |-> e.pending],
         NEW h, NEW n, NEW f
  PROVE  /\ f = [e EXCEPT !.height = h, !.locked = n] =>
              f = [height |-> h, locked |-> n, readHeight |-> e.readHeight, pending |-> e.pending]
         /\ f = [e EXCEPT !.readHeight = h, !.pending = n] =>
              f = [height |-> e.height, locked |-> e.locked, readHeight |-> h, pending |-> n]
  OBVIOUS

LEMMA PollKeeps == \A h \in 1 .. Tip : WithdrawalInv /\ PollEscrow(h) => WithdrawalInv'
<1> SUFFICES ASSUME NEW h \in 1 .. Tip, WithdrawalInv, PollEscrow(h) PROVE WithdrawalInv'
  OBVIOUS
<1>1. /\ queues' = queues /\ payouts' = payouts /\ scanned' = scanned /\ lost' = lost
      /\ lastScanned' = lastScanned /\ payments' = payments
  BY DEF PollEscrow, chainVars, scannerFiles
<1>2. /\ IsChain(queues, payouts, Tip) /\ PaymentsInv /\ RowsInv(ledger, escrow.readHeight) /\ EscrowInv
      /\ Tip \in Nat /\ escrow.readHeight \in 0 .. Tip /\ h \in 0 .. Tip
  BY WithdrawalAssumption DEF WithdrawalInv, EscrowInv
<1>3. IsChain(queues, payouts, Tip)' /\ PaymentsInv'
  BY <1>1, <1>2 DEF IsChain, IsPayout, PaymentsInv
<1>4. EscrowInv' /\ RowsInv(ledger', escrow'.readHeight)
  <2>1. escrow = [height |-> escrow.height, locked |-> escrow.locked, readHeight |-> escrow.readHeight,
                  pending |-> escrow.pending]
    BY <1>2 DEF EscrowInv
  <2>2. EscrowAt(h) = [height |-> h, locked |-> Total(queues[h]), readHeight |-> escrow.readHeight,
                       pending |-> escrow.pending]
    <3>1. EscrowAt(h) = [escrow EXCEPT !.height = h, !.locked = Total(queues[h])]
      BY DEF EscrowAt
    <3> QED
      BY <2>1, <3>1, EscrowRow
  <2>3. CASE NoQueueRead(h)
    <3>1. escrow' = escrow \/ escrow' = EscrowAt(h)
      BY <2>3 DEF NoQueueRead
    <3>2. escrow'.readHeight = escrow.readHeight
      BY <2>2, <3>1
    <3>3. EscrowInv'
      <4>1. CASE escrow' = escrow
        BY <1>1, <1>2, <4>1 DEF EscrowInv, Total
      <4>2. CASE escrow' = EscrowAt(h)
        BY <1>1, <1>2, <2>2, <4>2 DEF EscrowInv, Total
      <4> QED
        BY <3>1, <4>1, <4>2
    <3>4. RowsInv(ledger', escrow.readHeight)
      BY <1>2, <2>3, ResolveKeeps DEF NoQueueRead
    <3> QED
      BY <3>2, <3>3, <3>4
  <2>4. CASE QueueRead(h)
    <3>1. /\ escrow' = [EscrowAt(h) EXCEPT !.readHeight = h, !.pending = Total(queues[h])]
          /\ ledger' = ResolveWithdrawals(ObserveWithdrawals(queues[h], h))
          /\ escrow.readHeight <= h
      BY <1>2, <2>4 DEF QueueRead, Behind
    <3>2. escrow' = [height |-> h, locked |-> Total(queues[h]), readHeight |-> h, pending |-> Total(queues[h])]
      <4>1. EscrowAt(h) = [height |-> EscrowAt(h).height, locked |-> EscrowAt(h).locked,
                           readHeight |-> EscrowAt(h).readHeight, pending |-> EscrowAt(h).pending]
        BY <2>2
      <4>2. escrow' = [height |-> EscrowAt(h).height, locked |-> EscrowAt(h).locked, readHeight |-> h,
                       pending |-> Total(queues[h])]
        BY <3>1, <4>1, EscrowRow
      <4> QED
        BY <2>2, <4>2
    <3>3. EscrowInv'
      BY <1>1, <1>2, <3>2 DEF EscrowInv, Total
    <3>4. RowsInv(ObserveWithdrawals(queues[h], h), h)
      BY <1>2, <3>1, ObserveKeeps
    <3>5. RowsInv(ledger', h)
      BY <1>2, <3>1, <3>4, ResolveKeeps
    <3> QED
      BY <3>2, <3>3, <3>5
  <2> QED
    BY <2>3, <2>4 DEF PollEscrow
<1>5. RowsInv(ledger, escrow.readHeight)'
  BY <1>1, <1>4 DEF RowsInv, UpToRead, IsSighting, IsOutcome, HiddenFrom
<1> QED
  BY <1>3, <1>4, <1>5 DEF WithdrawalInv

(* In every state what the rows of the queue say was seen, missed and paid  *)
(* follows from the chain, the blocks read and the last read.              *)
THEOREM WithdrawalInvariant == WithdrawalSpec => []WithdrawalInv
<1>1. WithdrawalInv /\ [WithdrawalNext]_withdrawalVars => WithdrawalInv'
  <2> SUFFICES ASSUME WithdrawalInv, [WithdrawalNext]_withdrawalVars PROVE WithdrawalInv'
    OBVIOUS
  <2>1. CASE WithdrawalNext
    BY <2>1, ScanKeeps, IngestKeeps, PollKeeps DEF WithdrawalNext
  <2>2. CASE UNCHANGED withdrawalVars
    BY <2>2 DEF withdrawalVars, chainVars, scannerFiles, WithdrawalInv, RowsInv, UpToRead, IsSighting, IsOutcome,
                HiddenFrom, PaymentsInv, EscrowInv, IsChain, IsPayout, Total
  <2> QED
    BY <2>1, <2>2
<1> QED
  BY <1>1, WithdrawalInitInv, PTL DEF WithdrawalSpec

(* What is called consumed was never paid, what is called executed has the *)
(* payout that paid it or one no read could tell from it, given to no      *)
(* other, with its real delays; what is pending is the queue at the read   *)
(* named beside it, and the published check accuses no one                 *)
(* (store/withdrawals.go:30-50, api/withdrawals.go:91-110).                *)
THEOREM WithdrawalsAlwaysTrue == WithdrawalSpec => []WithdrawalsAreTrue
<1>1. WithdrawalInv => WithdrawalsAreTrue
  <2> SUFFICES ASSUME WithdrawalInv PROVE WithdrawalsAreTrue
    OBVIOUS
  <2>1. IsChain(queues, payouts, Tip) /\ RowsInv(ledger, escrow.readHeight) /\ EscrowInv /\ Tip \in Nat
    BY WithdrawalAssumption DEF WithdrawalInv
  <2>2. ASSUME NEW r \in DOMAIN ledger
        PROVE  /\ ledger[r].outcome = "consumed" => PaidFor(r) = {}
               /\ \A p \in ledger[r].paid :
                    /\ p.of = r \/ Hidden(p)
                    /\ PayoutLag(r, p) >= 0 /\ PayoutDelay(r, p) > PayoutLag(r, p)
                    /\ \A k \in DOMAIN ledger \ {r} : p \notin ledger[k].paid
    <3>1. IsSighting(r, ledger[r]) /\ IsOutcome(ledger, r)
      BY <2>1 DEF RowsInv
    <3>2. /\ ledger[r].lastSeen \in 0 .. Tip /\ r \in DOMAIN queues[ledger[r].lastSeen]
          /\ ledger[r].available = queues[ledger[r].lastSeen][r].available
      BY <2>1, <3>1 DEF IsSighting
    <3>3. r \in Nat /\ r < ledger[r].available /\ ledger[r].available \in Int
      <4>1. /\ r \in Nat /\ r <= ledger[r].lastSeen /\ ledger[r].available \in Int
            /\ ledger[r].available > ledger[r].lastSeen
        BY <2>1, <3>2, QueuedIs
      <4> QED
        BY <2>1, <3>2, <4>1
    <3>4. ASSUME ledger[r].outcome = "consumed", NEW p \in PaidFor(r) PROVE FALSE
      <4>1. p \in payouts /\ p.of = r
        BY <3>4 DEF PaidFor
      <4>2. p.height = ledger[r].available /\ ledger[r].gone # Null /\ ledger[r].gone < ledger[r].available
        BY <2>1, <3>1, <3>2, <3>4, <4>1, SeenBeforePaid DEF IsOutcome
      <4>3. /\ ledger[r].gone \in 0 .. Tip /\ r \notin DOMAIN queues[ledger[r].gone]
            /\ ledger[r].lastSeen <= ledger[r].gone
        BY <2>1, <3>1, <3>2, <4>2 DEF IsSighting
      <4>4. p.height <= ledger[r].gone
        BY <2>1, <3>2, <4>1, <4>3, MissedOncePaid
      <4> QED
        BY <2>1, <3>3, <4>2, <4>3, <4>4
    <3>5. ASSUME NEW p \in ledger[r].paid
          PROVE  /\ p.of = r \/ Hidden(p)
                 /\ PayoutLag(r, p) >= 0 /\ PayoutDelay(r, p) > PayoutLag(r, p)
                 /\ \A k \in DOMAIN ledger \ {r} : p \notin ledger[k].paid
      <4>1. /\ p \in payouts /\ (p.of = r \/ HiddenFrom(ledger, p)) /\ ledger[r].available <= p.height
            /\ \A k \in DOMAIN ledger \ {r} : p \notin ledger[k].paid
        BY <3>1 DEF IsOutcome
      <4>2. p.height \in 1 .. Tip
        BY <2>1, <4>1, PayoutIs
      <4>3. PayoutLag(r, p) >= 0 /\ PayoutDelay(r, p) > PayoutLag(r, p)
        BY <2>1, <3>3, <4>1, <4>2 DEF PayoutLag, PayoutDelay
      <4> QED
        BY <4>1, <4>3 DEF HiddenFrom, Hidden
    <3> QED
      BY <3>4, <3>5
  <2>3. ASSUME escrow.readHeight # Null
        PROVE  /\ StillQueued = DOMAIN queues[escrow.readHeight]
               /\ PendingUtia = Total(queues[escrow.readHeight])
    <3> DEFINE R == escrow.readHeight
    <3>1. UpToRead(ledger, R)
      BY <2>1 DEF RowsInv
    <3>2. ASSUME NEW r \in DOMAIN ledger, ledger[r].gone = Null
          PROVE  r \in DOMAIN queues[R] /\ ledger[r].amount = queues[R][r].amount
      <4>1. ledger[r].lastSeen = R
        BY <3>1, <3>2 DEF UpToRead
      <4>2. IsSighting(r, ledger[r])
        BY <2>1 DEF RowsInv
      <4> QED
        BY <4>1, <4>2 DEF IsSighting
    <3>3. StillQueued = DOMAIN queues[R]
      BY <3>1, <3>2 DEF StillQueued, UpToRead
    <3>4. \A r \in StillQueued : ledger[r].amount = queues[R][r].amount
      BY <3>2 DEF StillQueued
    <3>5. [r \in StillQueued |-> ledger[r].amount] = [r \in DOMAIN queues[R] |-> queues[R][r].amount]
      BY <3>3, <3>4
    <3> QED
      BY <3>3, <3>5 DEF PendingUtia, Total
  <2>4. Comparable => Consistent
    BY <2>1 DEF Comparable, Consistent, EscrowInv
  <2> QED
    BY <2>2, <2>3, <2>4 DEF WithdrawalsAreTrue
<1> QED
  BY <1>1, WithdrawalInvariant, PTL
=============================================================================
