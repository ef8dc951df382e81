------------------------- MODULE ParamHistoryProofs -------------------------
(***************************************************************************)
(* What the operators of ParamHistory do with any history: which entry is  *)
(* in force at a point, what an added entry changes and what it leaves,    *)
(* what a proved range makes of a history, value by value, and what the    *)
(* store makes of a table of entries.                                      *)
(*                                                                         *)
(* What they compute step by step is proved by the least counterexample    *)
(* (Smallest): of the steps at which a claim fails there would be a first. *)
(***************************************************************************)
EXTENDS ParamHistory, SequencesExt, SequenceTheorems, FiniteSetTheorems, WellFoundedInduction, TLAPS

-----------------------------------------------------------------------------
(* Natural numbers. *)

(* Every set of them has a smallest. *)
LEMMA Smallest ==
  ASSUME NEW T \in SUBSET Nat, T # {}
  PROVE  \E x \in T : \A y \in T : x <= y
<1> DEFINE R == {ss \in Nat \X Nat : ss[1] < ss[2]}
<1>1. IsWellFoundedOn(R, Nat)
  BY NatLessThanWellFounded DEF OpToRel
<1>2. \E x \in T : \A y \in T : ~ (<<y, x>> \in R)
  <2> HIDE DEF R
  <2> QED
    BY <1>1, WFMin
<1>3. ASSUME NEW x \in T, NEW y \in T, ~ (<<y, x>> \in R)
      PROVE  x <= y
  <2>1. x \in Nat /\ y \in Nat /\ <<y, x>> \in Nat \X Nat /\ <<y, x>>[1] = y /\ <<y, x>>[2] = x
    OBVIOUS
  <2>2. ~(y < x)
    BY <1>3, <2>1
  <2> QED
    BY <2>1, <2>2
<1> QED
  BY <1>2, <1>3

LEMMA MinIs ==
  ASSUME NEW T \in SUBSET Nat, T # {}
  PROVE  Min(T) \in T /\ \A n \in T : Min(T) <= n
<1>1. \E x \in T : \A y \in T : x <= y
  BY Smallest
<1> QED
  BY <1>1 DEF Min

-----------------------------------------------------------------------------
(* Histories. *)

Values == [timeout : Nat, retention : Nat]
Entry == [height : Nat, tx : Int, params : Values, source : Sources]

(* In key order. *)
IsHistory(hs) ==
  /\ hs \in Seq(Entry)
  /\ \A i, j \in 1 .. Len(hs) : i < j => ~KeyLess(hs[j].height, hs[j].tx, hs[i].height, hs[i].tx)

(* In force at or before a point; after one. *)
By(e, h, i) == ~KeyLess(h, i, e.height, e.tx)
Past(e, h, i) == KeyLess(h, i, e.height, e.tx)

LEMMA HistoryTypes ==
  ASSUME NEW hs, IsHistory(hs)
  PROVE  /\ Len(hs) \in Nat /\ DOMAIN hs = 1 .. Len(hs)
         /\ \A j \in 1 .. Len(hs) : hs[j] \in Entry /\ hs[j].height \in Nat /\ hs[j].tx \in Int /\ hs[j].params \in Values
         /\ \A j \in 1 .. Len(hs) : hs[j] \in Range(hs) /\ hs[j] # NoEntry
         /\ \A e \in Range(hs) : e \in Entry /\ e # NoEntry /\ \E j \in 1 .. Len(hs) : e = hs[j]
<1>1. hs \in Seq(Entry)
  BY DEF IsHistory
<1>2. Len(hs) \in Nat /\ DOMAIN hs = 1 .. Len(hs) /\ \A j \in 1 .. Len(hs) : hs[j] \in Entry
  BY <1>1, LenProperties, ElementOfSeq
<1>3. \A e \in Entry : e.height \in Nat /\ e.tx \in Int /\ e.params \in Values
  BY DEF Entry
<1>4. NoEntry \notin Entry
  <2>1. NoEntry.source = "none" /\ "none" \notin Sources
    BY DEF NoEntry, Sources
  <2>2. \A e \in Entry : e.source \in Sources
    BY DEF Entry
  <2> QED
    BY <2>1, <2>2
<1>5. \A j \in 1 .. Len(hs) : hs[j] \in Range(hs)
  BY <1>2 DEF Range
<1>6. \A e \in Range(hs) : \E j \in 1 .. Len(hs) : e = hs[j]
  BY <1>2 DEF Range
<1> QED
  BY <1>2, <1>3, <1>4, <1>5, <1>6

(* The entries in force at a point are the first so many. *)
LEMMA UptoIs ==
  ASSUME NEW hs, IsHistory(hs), NEW h \in Int, NEW i \in Int
  PROVE  /\ Upto(hs, h, i) \in 0 .. Len(hs)
         /\ \A j \in 1 .. Len(hs) : j <= Upto(hs, h, i) <=> By(hs[j], h, i)
<1> DEFINE L == Len(hs)
           inForce == {j \in DOMAIN hs : By(hs[j], h, i)}
           T == {n \in 0 .. L : \A j \in 1 .. L : By(hs[j], h, i) => j <= n}
<1>1. /\ L \in Nat /\ DOMAIN hs = 1 .. L
      /\ \A j \in 1 .. L : hs[j].height \in Nat /\ hs[j].tx \in Int
  BY HistoryTypes
<1>2. T \in SUBSET Nat /\ L \in T
  BY <1>1
<1>3. PICK n \in T : \A m \in T : n <= m
  BY <1>2, Smallest
<1>4. n \in 0 .. L /\ \A j \in 1 .. L : By(hs[j], h, i) => j <= n
  BY <1>3
<1>5. n # 0 => By(hs[n], h, i)
  <2> SUFFICES ASSUME n # 0, ~By(hs[n], h, i) PROVE FALSE
    OBVIOUS
  <2>1. n - 1 \in 0 .. L
    BY <1>1, <1>4
  <2>2. \A j \in 1 .. L : By(hs[j], h, i) => j <= n - 1
    BY <1>1, <1>4
  <2>3. n - 1 \in T
    BY <2>1, <2>2
  <2> HIDE DEF T
  <2> QED
    BY <1>1, <1>3, <1>4, <2>3
<1>6. \A j \in 1 .. L : j <= n => By(hs[j], h, i)
  <2> SUFFICES ASSUME NEW j \in 1 .. L, j <= n PROVE By(hs[j], h, i)
    OBVIOUS
  <2>1. n \in 1 .. L /\ By(hs[n], h, i)
    BY <1>1, <1>4, <1>5
  <2>2. j < n => ~KeyLess(hs[n].height, hs[n].tx, hs[j].height, hs[j].tx)
    BY <2>1 DEF IsHistory
  <2>3. j = n \/ j < n
    BY <1>1, <1>4
  <2> QED
    BY <1>1, <2>1, <2>2, <2>3 DEF By, KeyLess
<1>7. inForce = 1 .. n
  BY <1>1, <1>4, <1>6
<1>8. Cardinality(1 .. n) = n
  BY <1>4, FS_Interval
<1>9. Upto(hs, h, i) = n
  BY <1>7, <1>8 DEF Upto, By
<1> QED
  BY <1>4, <1>6, <1>9

(* The entry in force at a point, if there is one, and all of its time      *)
(* before it.                                                              *)
LEMMA AtIs ==
  ASSUME NEW hs, IsHistory(hs), NEW h \in Int, NEW i \in Int
  PROVE  /\ At(hs, h, i) # NoEntry =>
              At(hs, h, i) \in Range(hs) /\ At(hs, h, i) \in Entry /\ By(At(hs, h, i), h, i)
         /\ \A e \in Range(hs) : By(e, h, i) => At(hs, h, i) # NoEntry /\ ~Past(e, At(hs, h, i).height, At(hs, h, i).tx)
<1> DEFINE L == Len(hs)
           n == Upto(hs, h, i)
<1>1. /\ L \in Nat
      /\ \A j \in 1 .. L : hs[j] \in Range(hs) /\ hs[j] # NoEntry /\ hs[j] \in Entry /\ hs[j].height \in Nat /\ hs[j].tx \in Int
      /\ \A e \in Range(hs) : \E j \in 1 .. L : e = hs[j]
  BY HistoryTypes
<1>2. n \in 0 .. L /\ \A j \in 1 .. L : j <= n <=> By(hs[j], h, i)
  BY UptoIs
<1> HIDE DEF n
<1>3. At(hs, h, i) = IF n = 0 THEN NoEntry ELSE hs[n]
  BY DEF At, n
<1>4. CASE n = 0
  BY <1>1, <1>2, <1>3, <1>4
<1>5. CASE n # 0
  <2>1. n \in 1 .. L /\ By(hs[n], h, i) /\ At(hs, h, i) = hs[n]
    BY <1>1, <1>2, <1>3, <1>5
  <2>2. ASSUME NEW e \in Range(hs), By(e, h, i) PROVE ~Past(e, hs[n].height, hs[n].tx)
    <3>1. PICK j \in 1 .. L : e = hs[j]
      BY <1>1
    <3>2. j <= n
      BY <1>2, <2>2, <3>1
    <3>3. j < n => ~KeyLess(hs[n].height, hs[n].tx, hs[j].height, hs[j].tx)
      BY <2>1 DEF IsHistory
    <3>4. j = n \/ j < n
      BY <1>1, <2>1, <3>2
    <3> QED
      BY <1>1, <2>1, <3>1, <3>3, <3>4 DEF Past, KeyLess
  <2> QED
    BY <1>1, <2>1, <2>2
<1> QED
  BY <1>4, <1>5


-----------------------------------------------------------------------------
(* A change observed at a point. *)

(* An entry that is put in: where it goes and what stays. *)
LEMMA Inserted ==
  ASSUME NEW hs, IsHistory(hs), NEW h \in Nat, NEW i \in Int, NEW src \in Sources, NEW v \in Values,
         Add(hs, h, i, src, v) # hs
  PROVE  LET n == Upto(hs, h, i)
             g == Add(hs, h, i, src, v)
         IN  /\ Len(g) = Len(hs) + 1
             /\ \A j \in 1 .. Len(hs) + 1 :
                  g[j] = IF j <= n THEN hs[j] ELSE IF j = n + 1 THEN EntryAt(h, i, v, src) ELSE hs[j - 1]
             /\ IsHistory(g)
<1> DEFINE L == Len(hs)
           n == Upto(hs, h, i)
           e == EntryAt(h, i, v, src)
           g == Add(hs, h, i, src, v)
           p(j) == IF j <= n THEN hs[j] ELSE IF j = n + 1 THEN e ELSE hs[j - 1]
<1>1. /\ L \in Nat
      /\ \A j \in 1 .. L : hs[j] \in Entry /\ hs[j].height \in Nat /\ hs[j].tx \in Int
  BY HistoryTypes
<1>2. n \in 0 .. L /\ \A j \in 1 .. L : j <= n <=> By(hs[j], h, i)
  BY UptoIs
<1>3. e \in Entry /\ e.height = h /\ e.tx = i
  BY DEF EntryAt, Entry
<1>4. g = [j \in 1 .. L + 1 |-> p(j)]
  BY DEF Add
<1> HIDE DEF n, e, g
<1>5. \A j \in 1 .. L + 1 : p(j) \in Entry
  BY <1>1, <1>2, <1>3
<1>6. g \in Seq(Entry) /\ Len(g) = L + 1 /\ \A j \in 1 .. L + 1 : g[j] = p(j)
  BY <1>1, <1>4, <1>5, IsASeq
<1>7. ASSUME NEW a \in 1 .. L + 1, NEW b \in 1 .. L + 1, a < b
      PROVE  ~KeyLess(p(b).height, p(b).tx, p(a).height, p(a).tx)
  <2>1. \A x, y \in 1 .. L : x < y => ~KeyLess(hs[y].height, hs[y].tx, hs[x].height, hs[x].tx)
    BY DEF IsHistory
  <2>2. CASE b <= n
    BY <1>1, <1>2, <1>7, <2>1, <2>2
  <2>3. CASE b = n + 1
    <3>1. a \in 1 .. L /\ a <= n /\ p(a) = hs[a] /\ p(b) = e
      BY <1>1, <1>2, <1>7, <2>3
    <3>2. By(hs[a], h, i)
      BY <1>2, <3>1
    <3> QED
      BY <1>3, <3>1, <3>2 DEF By
  <2>4. CASE n + 1 < b
    <3>1. b - 1 \in 1 .. L /\ ~(b - 1 <= n) /\ p(b) = hs[b - 1]
      BY <1>1, <1>2, <2>4
    <3>2. KeyLess(h, i, hs[b - 1].height, hs[b - 1].tx)
      BY <1>2, <3>1 DEF By
    <3>3. CASE a <= n
      <4>1. a \in 1 .. L /\ p(a) = hs[a] /\ a < b - 1
        BY <1>1, <1>2, <2>4, <3>3
      <4> QED
        BY <2>1, <3>1, <4>1
    <3>4. CASE a = n + 1
      BY <1>1, <1>2, <1>3, <3>1, <3>2, <3>4 DEF KeyLess
    <3>5. CASE n + 1 < a
      <4>1. a - 1 \in 1 .. L /\ p(a) = hs[a - 1] /\ a - 1 < b - 1
        BY <1>1, <1>2, <1>7, <3>5
      <4> QED
        BY <2>1, <3>1, <4>1
    <3> QED
      BY <1>1, <1>2, <1>7, <3>3, <3>4, <3>5
  <2> QED
    BY <1>1, <1>2, <1>7, <2>2, <2>3, <2>4
<1>8. IsHistory(g)
  BY <1>6, <1>7 DEF IsHistory
<1> QED
  BY <1>6, <1>8 DEF n, e, g

(* Two histories with the same entry in force before a point.              *)
SameBefore(g, hs, h, i) ==
  \A k, m \in Int : KeyLess(k, m, h, i) => At(g, k, m) = At(hs, k, m)

(* From a point on, a value is in force, or a later entry of the other     *)
(* history.                                                                *)
InForceFrom(g, hs, h, i, v) ==
  \A k, m \in Int : ~KeyLess(k, m, h, i) =>
    /\ At(g, k, m) # NoEntry
    /\ \/ At(g, k, m).params = v /\ By(At(g, k, m), h, i)
       \/ At(g, k, m) = At(hs, k, m) /\ Past(At(hs, k, m), h, i)

(* The history after a change was added: the entries it has, and which one  *)
(* is in force before the point and from it on.                            *)
LEMMA AddIs ==
  ASSUME NEW hs, IsHistory(hs), NEW h \in Nat, NEW i \in Int, NEW src \in Sources, NEW v \in Values
  PROVE  LET g == Add(hs, h, i, src, v)
         IN  /\ IsHistory(g)
             /\ Range(hs) \subseteq Range(g) /\ Range(g) \subseteq Range(hs) \cup {EntryAt(h, i, v, src)}
             /\ SameBefore(g, hs, h, i) /\ InForceFrom(g, hs, h, i, v)
<1> DEFINE L == Len(hs)
           n == Upto(hs, h, i)
           e == EntryAt(h, i, v, src)
           g == Add(hs, h, i, src, v)
<1>1. /\ L \in Nat
      /\ \A j \in 1 .. L : hs[j] \in Range(hs) /\ hs[j] \in Entry /\ hs[j] # NoEntry
      /\ \A j \in 1 .. L : hs[j].height \in Nat /\ hs[j].tx \in Int
      /\ \A x \in Range(hs) : \E j \in 1 .. L : x = hs[j]
  BY HistoryTypes
<1>2. n \in 0 .. L /\ \A j \in 1 .. L : j <= n <=> By(hs[j], h, i)
  BY UptoIs
<1>3. CASE g = hs
  <2>1. n > 0 /\ hs[n].params = v
    <3>1. ~(n > 0 /\ hs[n].params = v) => g = [j \in 1 .. L + 1 |-> IF j <= n THEN hs[j] ELSE IF j = n + 1 THEN e ELSE hs[j - 1]]
      BY DEF Add
    <3>2. L + 1 \in 1 .. L + 1 /\ L + 1 \notin 1 .. L
      BY <1>1
    <3>3. DOMAIN hs = 1 .. L
      BY HistoryTypes
    <3> HIDE DEF n, e, g
    <3> QED
      BY <1>3, <3>1, <3>2, <3>3
  <2>2. ASSUME NEW k \in Int, NEW m \in Int, ~KeyLess(k, m, h, i)
        PROVE  /\ At(hs, k, m) # NoEntry
               /\ \/ At(hs, k, m).params = v /\ By(At(hs, k, m), h, i)
                  \/ Past(At(hs, k, m), h, i)
    <3> DEFINE N == Upto(hs, k, m)
    <3>1. N \in 0 .. L /\ \A j \in 1 .. L : j <= N <=> By(hs[j], k, m)
      BY UptoIs
    <3> HIDE DEF N, n
    <3>2. n \in 1 .. L /\ By(hs[n], h, i)
      BY <1>1, <1>2, <2>1
    <3>3. By(hs[n], k, m)
      BY <1>1, <2>2, <3>2 DEF By, KeyLess
    <3>4. n <= N /\ N \in 1 .. L
      BY <1>1, <3>1, <3>2, <3>3
    <3>5. At(hs, k, m) = hs[N]
      BY <3>4 DEF At, N
    <3>6. N # n => ~By(hs[N], h, i)
      BY <1>1, <1>2, <3>4
    <3> QED
      BY <1>1, <2>1, <3>2, <3>4, <3>5, <3>6 DEF By, Past
  <2> QED
    <3>1. SameBefore(g, hs, h, i) /\ InForceFrom(g, hs, h, i, v)
      BY <1>3, <2>2 DEF SameBefore, InForceFrom
    <3> QED
      BY <1>3, <3>1
<1>4. CASE g # hs
  <2>1. /\ Len(g) = L + 1
        /\ \A j \in 1 .. L + 1 : g[j] = IF j <= n THEN hs[j] ELSE IF j = n + 1 THEN e ELSE hs[j - 1]
        /\ IsHistory(g)
    BY <1>4, Inserted
  <2>2. e.height = h /\ e.tx = i /\ e.params = v
    BY DEF EntryAt
  <2>3. /\ \A j \in 1 .. L + 1 : g[j] \in Range(g) /\ g[j] # NoEntry
        /\ \A x \in Range(g) : \E j \in 1 .. L + 1 : x = g[j]
    BY <2>1, HistoryTypes
  <2> HIDE DEF n, e, g
  <2>4. Range(hs) \subseteq Range(g)
    <3>1. ASSUME NEW j \in 1 .. L PROVE hs[j] \in Range(g)
      <4>1. CASE j <= n
        BY <1>1, <2>1, <2>3, <4>1
      <4>2. CASE ~(j <= n)
        <5>1. j + 1 \in 1 .. L + 1 /\ ~(j + 1 <= n) /\ j + 1 # n + 1 /\ (j + 1) - 1 = j
          BY <1>1, <1>2, <4>2
        <5>2. g[j + 1] = hs[j]
          BY <2>1, <5>1
        <5> QED
          BY <2>3, <5>1, <5>2
      <4> QED
        BY <4>1, <4>2
    <3> QED
      BY <1>1, <3>1
  <2>5. Range(g) \subseteq Range(hs) \cup {e}
    <3>1. ASSUME NEW j \in 1 .. L + 1 PROVE g[j] \in Range(hs) \cup {e}
      <4>1. CASE j <= n
        BY <1>1, <1>2, <2>1, <4>1
      <4>2. CASE j = n + 1
        BY <1>2, <2>1, <4>2
      <4>3. CASE ~(j <= n) /\ j # n + 1
        <5>1. j - 1 \in 1 .. L
          BY <1>1, <1>2, <4>3
        <5> QED
          BY <1>1, <2>1, <4>3, <5>1
      <4> QED
        BY <4>1, <4>2, <4>3
    <3> QED
      BY <2>3, <3>1
  <2>6. ASSUME NEW k \in Int, NEW m \in Int
        PROVE  /\ KeyLess(k, m, h, i) => At(g, k, m) = At(hs, k, m)
               /\ ~KeyLess(k, m, h, i) =>
                    /\ At(g, k, m) # NoEntry
                    /\ \/ At(g, k, m).params = v /\ By(At(g, k, m), h, i)
                       \/ At(g, k, m) = At(hs, k, m) /\ Past(At(hs, k, m), h, i)
    <3> DEFINE N == Upto(hs, k, m)
               M == Upto(g, k, m)
    <3>1. N \in 0 .. L /\ \A j \in 1 .. L : j <= N <=> By(hs[j], k, m)
      BY UptoIs
    <3>2. M \in 0 .. L + 1 /\ \A j \in 1 .. L + 1 : j <= M <=> By(g[j], k, m)
      BY <2>1, UptoIs
    <3>3. /\ At(hs, k, m) = IF N = 0 THEN NoEntry ELSE hs[N]
          /\ At(g, k, m) = IF M = 0 THEN NoEntry ELSE g[M]
      BY DEF At
    <3> HIDE DEF N, M
    <3>4. CASE KeyLess(k, m, h, i)
      <4>1. N <= n
        <5>1. N # 0 => By(hs[N], k, m) /\ N \in 1 .. L
          BY <1>1, <3>1
        <5>2. N # 0 => By(hs[N], h, i)
          BY <1>1, <3>4, <5>1 DEF By, KeyLess
        <5> QED
          BY <1>2, <3>1, <5>1, <5>2
      <4>2. ~By(e, k, m)
        BY <2>2, <3>4 DEF By
      <4>3. M <= N
        <5> SUFFICES ASSUME N < M PROVE FALSE
          BY <3>1, <3>2
        <5>1. N + 1 \in 1 .. L + 1 /\ N + 1 <= M
          BY <1>1, <3>1, <3>2
        <5>2. By(g[N + 1], k, m)
          BY <3>2, <5>1
        <5>3. CASE N = n
          BY <1>2, <2>1, <4>2, <5>1, <5>2, <5>3
        <5>4. CASE N # n
          <6>1. N + 1 <= n /\ N + 1 \in 1 .. L
            BY <1>2, <3>1, <4>1, <5>4
          <6>2. g[N + 1] = hs[N + 1] /\ ~(N + 1 <= N)
            BY <2>1, <3>1, <5>1, <6>1
          <6> QED
            BY <3>1, <5>2, <6>1, <6>2
        <5> QED
          BY <5>3, <5>4
      <4>4. N <= M
        <5> SUFFICES ASSUME N # 0 PROVE N <= M
          BY <3>1, <3>2
        <5>1. N \in 1 .. L /\ N \in 1 .. L + 1 /\ g[N] = hs[N]
          BY <1>1, <2>1, <3>1, <4>1
        <5> QED
          BY <3>1, <3>2, <5>1
      <4>5. M = N
        BY <3>1, <3>2, <4>3, <4>4
      <4>6. N # 0 => g[N] = hs[N]
        BY <1>1, <2>1, <3>1, <4>1
      <4> QED
        BY <3>3, <3>4, <4>5, <4>6
    <3>5. CASE ~KeyLess(k, m, h, i)
      <4>1. n <= N
        <5> SUFFICES ASSUME n # 0 PROVE n <= N
          BY <1>2, <3>1
        <5>1. n \in 1 .. L /\ By(hs[n], h, i)
          BY <1>1, <1>2
        <5>2. By(hs[n], k, m)
          BY <1>1, <3>5, <5>1 DEF By, KeyLess
        <5> QED
          BY <3>1, <5>1, <5>2
      <4>2. By(e, k, m)
        BY <2>2, <3>5 DEF By
      <4>3. M = N + 1
        <5>1. N + 1 <= M
          <6>1. N + 1 \in 1 .. L + 1
            BY <1>1, <3>1
          <6>2. By(g[N + 1], k, m)
            <7>1. CASE N = n
              BY <1>2, <2>1, <4>2, <6>1, <7>1
            <7>2. CASE N # n
              <8>1. ~(N + 1 <= n) /\ N + 1 # n + 1 /\ (N + 1) - 1 = N /\ N \in 1 .. L
                BY <1>2, <3>1, <4>1, <7>2
              <8>2. g[N + 1] = hs[N]
                BY <2>1, <6>1, <8>1
              <8> QED
                BY <3>1, <8>1, <8>2
            <7> QED
              BY <7>1, <7>2
          <6> QED
            BY <3>2, <6>1, <6>2
        <5>2. M <= N + 1
          <6> SUFFICES ASSUME N + 1 < M PROVE FALSE
            BY <3>1, <3>2
          <6>1. N + 2 \in 1 .. L + 1 /\ N + 2 <= M /\ N + 1 \in 1 .. L /\ ~(N + 1 <= N)
            BY <1>1, <3>1, <3>2
          <6>2. ~(N + 2 <= n) /\ N + 2 # n + 1 /\ (N + 2) - 1 = N + 1
            BY <1>2, <3>1, <4>1
          <6>3. g[N + 2] = hs[N + 1]
            BY <2>1, <6>1, <6>2
          <6> QED
            BY <3>1, <3>2, <6>1, <6>3
        <5> QED
          BY <3>1, <3>2, <5>1, <5>2
      <4>4. At(g, k, m) = g[N + 1] /\ N + 1 \in 1 .. L + 1
        BY <1>1, <3>1, <3>3, <4>3
      <4>5. CASE N = n
        <5>1. At(g, k, m) = e
          BY <1>2, <2>1, <4>4, <4>5
        <5>2. By(e, h, i)
          BY <2>2 DEF By, KeyLess
        <5> QED
          BY <2>2, <2>3, <3>5, <4>4, <5>1, <5>2
      <4>6. CASE N # n
        <5>1. ~(N + 1 <= n) /\ N + 1 # n + 1 /\ (N + 1) - 1 = N /\ N \in 1 .. L /\ ~(N <= n)
          BY <1>2, <3>1, <4>1, <4>6
        <5>2. g[N + 1] = hs[N] /\ At(hs, k, m) = hs[N]
          BY <2>1, <3>3, <4>4, <5>1
        <5>3. Past(hs[N], h, i)
          BY <1>2, <5>1 DEF Past, By
        <5> QED
          BY <2>3, <3>5, <4>4, <5>2, <5>3
      <4> QED
        BY <4>5, <4>6
    <3> QED
      BY <3>4, <3>5
  <2>7. e = EntryAt(h, i, v, src) /\ g = Add(hs, h, i, src, v)
    BY DEF e, g
  <2> QED
    <3>1. SameBefore(g, hs, h, i) /\ InForceFrom(g, hs, h, i, v)
      BY <2>6 DEF SameBefore, InForceFrom
    <3> QED
      BY <2>1, <2>4, <2>5, <2>7, <3>1
<1> QED
  BY <1>3, <1>4


-----------------------------------------------------------------------------
(* What a verified range proves, put in value by value. *)

(* The copies of the history, from none of the values put in to all of them. *)
IsResolution(f, base, values) ==
  /\ f[0] = base
  /\ \A n \in 1 .. Len(values) : f[n] = Add(f[n - 1], values[n].height, -1, "verified", values[n].params)

LEMMA ResolvedSteps ==
  ASSUME NEW base, NEW values, Len(values) \in Nat
  PROVE  \E f : IsResolution(f, base, values) /\ ResolvedHistory(base, values) = f[Len(values)]
<1> DEFINE L == Len(values)
           put(h, n) == Add(h, values[n].height, -1, "verified", values[n].params)
           body(f, n) == IF n = 0 THEN base ELSE put(f[n - 1], n)
           T == {m \in 0 .. L : \A f : f # [n \in 0 .. m |-> body(f, n)]}
<1> HIDE DEF put
<1>1. T = {}
  <2> SUFFICES ASSUME T # {} PROVE FALSE
    OBVIOUS
  <2>1. PICK m \in T : \A k \in T : m <= k
    <3>1. T \in SUBSET Nat
      OBVIOUS
    <3> HIDE DEF T
    <3> QED
      BY <3>1, Smallest
  <2>2. m \in 0 .. L /\ \A f : f # [n \in 0 .. m |-> body(f, n)]
    OBVIOUS
  <2>3. CASE m = 0
    <3> DEFINE f == [n \in 0 .. 0 |-> base]
    <3>1. f = [n \in 0 .. 0 |-> body(f, n)]
      OBVIOUS
    <3> QED
      BY <2>2, <2>3, <3>1
  <2>4. CASE m # 0
    <3>1. m - 1 \in 0 .. L /\ ~(m <= m - 1)
      BY <2>2, <2>4
    <3>2. PICK f : f = [n \in 0 .. m - 1 |-> body(f, n)]
      BY <2>1, <3>1
    <3> DEFINE g == [n \in 0 .. m |-> IF n = m THEN put(f[m - 1], m) ELSE f[n]]
    <3>3. \A n \in 0 .. m : g[n] = body(g, n)
      <4>1. g[m] = body(g, m)
        BY <2>2, <2>4
      <4>2. ASSUME NEW n \in 0 .. m - 1 PROVE g[n] = body(g, n)
        <5>1. g[n] = f[n] /\ f[n] = body(f, n)
          BY <2>2, <3>2
        <5>2. n # 0 => g[n - 1] = f[n - 1]
          BY <2>2
        <5> QED
          BY <5>1, <5>2
      <4>3. \A n \in 0 .. m : n = m \/ n \in 0 .. m - 1
        BY <2>2, <2>4
      <4> HIDE DEF g
      <4> QED
        BY <4>1, <4>2, <4>3
    <3>4. g = [n \in 0 .. m |-> body(g, n)]
      <4>1. g = [n \in 0 .. m |-> g[n]]
        OBVIOUS
      <4> HIDE DEF g
      <4> QED
        BY <3>3, <4>1
    <3> QED
      BY <2>2, <3>4
  <2> QED
    BY <2>3, <2>4
<1> DEFINE up == CHOOSE f : f = [n \in 0 .. L |-> body(f, n)]
<1>2. up = [n \in 0 .. L |-> body(up, n)]
  <2>1. L \in 0 .. L
    OBVIOUS
  <2>2. \E f : f = [n \in 0 .. L |-> body(f, n)]
    BY <1>1, <2>1
  <2> QED
    BY <2>2
<1>3. ResolvedHistory(base, values) = up[L]
  BY DEF ResolvedHistory, put
<1> HIDE DEF up
<1>4. up[0] = base /\ \A n \in 1 .. L : up[n] = put(up[n - 1], n)
  <2>1. \A n \in 0 .. L : up[n] = body(up, n)
    BY <1>2
  <2> QED
    BY <2>1
<1> QED
  BY <1>3, <1>4 DEF put, IsResolution


(* Values the params were read to have, height by height. *)
AreValues(values) ==
  /\ Len(values) \in Nat
  /\ \A m \in 1 .. Len(values) : values[m].height \in Nat /\ values[m].params \in Values

ValueEntry(values, m) == EntryAt(values[m].height, -1, values[m].params, "verified")

(* Every copy is a history, with the entries of the one before and perhaps  *)
(* one more.                                                               *)
LEMMA ResolutionIs ==
  ASSUME NEW base, IsHistory(base), NEW values, AreValues(values), NEW f, IsResolution(f, base, values)
  PROVE  \A n \in 0 .. Len(values) :
           /\ IsHistory(f[n])
           /\ Range(base) \subseteq Range(f[n])
           /\ \A e \in Range(f[n]) : e \in Range(base) \/ \E m \in 1 .. Len(values) : e = ValueEntry(values, m)
<1> DEFINE L == Len(values)
           right(n) == /\ IsHistory(f[n])
                       /\ Range(base) \subseteq Range(f[n])
                       /\ \A e \in Range(f[n]) : e \in Range(base) \/ \E m \in 1 .. L : e = ValueEntry(values, m)
           T == {n \in 0 .. L : ~right(n)}
<1>1. L \in Nat /\ f[0] = base
  BY DEF AreValues, IsResolution
<1>2. ASSUME NEW n \in 1 .. L, right(n - 1) PROVE right(n)
  <2>1. f[n] = Add(f[n - 1], values[n].height, -1, "verified", values[n].params)
    BY DEF IsResolution
  <2>2. values[n].height \in Nat /\ values[n].params \in Values /\ -1 \in Int /\ "verified" \in Sources
    BY DEF AreValues, Sources
  <2>3. /\ IsHistory(f[n]) /\ Range(f[n - 1]) \subseteq Range(f[n])
        /\ Range(f[n]) \subseteq Range(f[n - 1]) \cup {ValueEntry(values, n)}
    <3>1. ASSUME NEW h \in Nat, NEW v \in Values, NEW b, IsHistory(b)
          PROVE  /\ IsHistory(Add(b, h, -1, "verified", v)) /\ Range(b) \subseteq Range(Add(b, h, -1, "verified", v))
                 /\ Range(Add(b, h, -1, "verified", v)) \subseteq Range(b) \cup {EntryAt(h, -1, v, "verified")}
      BY <2>2, <3>1, AddIs
    <3> QED
      BY <1>2, <2>1, <2>2, <3>1 DEF ValueEntry
  <2> QED
    BY <1>2, <2>3
<1>3. right(0)
  BY <1>1
<1>4. T = {}
  <2> SUFFICES ASSUME T # {} PROVE FALSE
    OBVIOUS
  <2>1. T \in SUBSET Nat
    OBVIOUS
  <2>2. PICK n \in T : \A k \in T : n <= k
    <3> HIDE DEF T
    <3> QED
      BY <2>1, Smallest
  <2>3. n \in 0 .. L /\ ~right(n)
    OBVIOUS
  <2> HIDE DEF right
  <2>4. n \in 1 .. L /\ n - 1 \in 0 .. L /\ ~(n <= n - 1)
    BY <1>1, <1>3, <2>3
  <2>5. right(n - 1)
    BY <2>2, <2>4
  <2> QED
    BY <1>2, <2>3, <2>4, <2>5
<1> HIDE DEF right
<1>5. \A n \in 0 .. L : right(n)
  BY <1>4
<1> QED
  BY <1>5 DEF right

LEMMA ResolvedIs ==
  ASSUME NEW base, IsHistory(base), NEW values, AreValues(values)
  PROVE  LET g == ResolvedHistory(base, values)
         IN  /\ IsHistory(g)
             /\ Range(base) \subseteq Range(g)
             /\ \A e \in Range(g) : e \in Range(base) \/ \E m \in 1 .. Len(values) : e = ValueEntry(values, m)
<1>1. Len(values) \in Nat /\ Len(values) \in 0 .. Len(values)
  BY DEF AreValues
<1>2. PICK f : IsResolution(f, base, values) /\ ResolvedHistory(base, values) = f[Len(values)]
  BY <1>1, ResolvedSteps
<1> QED
  BY <1>1, <1>2, ResolutionIs

(* The last of the values seen by a block is in force at its end, or an    *)
(* entry of the history from after that value; before the first value      *)
(* nothing changes.                                                        *)
InForceAt(g, base, values, n, k) ==
  /\ (\A m \in 1 .. n : k < values[m].height) => At(g, k, EndOfBlock) = At(base, k, EndOfBlock)
  /\ \A m \in 1 .. n : values[m].height <= k /\ (\A l \in m + 1 .. n : k < values[l].height) =>
       /\ At(g, k, EndOfBlock) # NoEntry
       /\ \/ At(g, k, EndOfBlock).params = values[m].params /\ By(At(g, k, EndOfBlock), values[m].height, -1)
          \/ At(g, k, EndOfBlock) = At(base, k, EndOfBlock) /\ Past(At(base, k, EndOfBlock), values[m].height, -1)

LEMMA ResolvedInForce ==
  ASSUME NEW base, IsHistory(base), NEW values, AreValues(values),
         \A a, b \in 1 .. Len(values) : a < b => values[a].height < values[b].height,
         NEW k \in Nat
  PROVE  InForceAt(ResolvedHistory(base, values), base, values, Len(values), k)
<1> DEFINE L == Len(values)
<1>1. L \in Nat /\ \A m \in 1 .. L : values[m].height \in Nat /\ values[m].params \in Values
  BY DEF AreValues
<1>2. PICK f : IsResolution(f, base, values) /\ ResolvedHistory(base, values) = f[L]
  BY <1>1, ResolvedSteps
<1> DEFINE right(n) == InForceAt(f[n], base, values, n, k)
           T == {n \in 0 .. L : ~right(n)}
<1>3. f[0] = base /\ \A n \in 0 .. L : IsHistory(f[n])
  BY <1>2, ResolutionIs DEF IsResolution
<1>4. right(0)
  BY <1>3 DEF InForceAt
<1>5. ASSUME NEW n \in 1 .. L, right(n - 1) PROVE right(n)
  <2> DEFINE w == values[n].height
             new == At(f[n], k, EndOfBlock)
             old == At(f[n - 1], k, EndOfBlock)
  <2>1. f[n] = Add(f[n - 1], w, -1, "verified", values[n].params)
    BY <1>2 DEF IsResolution
  <2>2. w \in Nat /\ values[n].params \in Values /\ -1 \in Int /\ "verified" \in Sources /\ EndOfBlock \in Nat /\ EndOfBlock \in Int /\ k \in Int
    BY <1>1, EndOfBlockAssumption DEF Sources
  <2>3. n - 1 \in 0 .. L /\ IsHistory(f[n - 1]) /\ IsHistory(f[n])
    BY <1>1, <1>3
  <2>4. KeyLess(k, EndOfBlock, w, -1) <=> k < w
    BY <2>2 DEF KeyLess
  <2>5. /\ k < w => new = old
        /\ w <= k =>
             /\ new # NoEntry
             /\ \/ new.params = values[n].params /\ By(new, w, -1)
                \/ new = old /\ Past(old, w, -1)
    <3>1. SameBefore(f[n], f[n - 1], w, -1) /\ InForceFrom(f[n], f[n - 1], w, -1, values[n].params)
      BY <2>1, <2>2, <2>3, AddIs
    <3>2. w <= k => ~(k < w)
      BY <2>2
    <3> QED
      BY <2>2, <2>4, <3>1, <3>2 DEF SameBefore, InForceFrom
  <2> HIDE DEF new, old
  <2>6. CASE k < w
    <3>1. ASSUME \A m \in 1 .. n : k < values[m].height PROVE new = At(base, k, EndOfBlock)
      <4>1. \A m \in 1 .. n - 1 : k < values[m].height
        BY <3>1
      <4> QED
        BY <1>5, <2>5, <2>6, <4>1 DEF InForceAt, old
    <3>2. ASSUME NEW m \in 1 .. n, values[m].height <= k, \A l \in m + 1 .. n : k < values[l].height
          PROVE  /\ new # NoEntry
                 /\ \/ new.params = values[m].params /\ By(new, values[m].height, -1)
                    \/ new = At(base, k, EndOfBlock) /\ Past(At(base, k, EndOfBlock), values[m].height, -1)
      <4>1. m # n
        BY <2>2, <2>6, <3>2
      <4>2. m \in 1 .. n - 1 /\ \A l \in m + 1 .. n - 1 : k < values[l].height
        BY <1>1, <3>2, <4>1
      <4> QED
        BY <1>5, <2>5, <2>6, <3>2, <4>2 DEF InForceAt, old
    <3> QED
      BY <3>1, <3>2 DEF InForceAt, new
  <2>7. CASE w <= k
    <3>1. ~(\A m \in 1 .. n : k < values[m].height)
      <4>1. n \in 1 .. n
        BY <1>1
      <4> QED
        BY <2>2, <2>7, <4>1
    <3>2. ASSUME NEW m \in 1 .. n, values[m].height <= k, \A l \in m + 1 .. n : k < values[l].height
          PROVE  m = n
      <4> SUFFICES ASSUME m # n PROVE FALSE
        OBVIOUS
      <4>1. n \in m + 1 .. n
        BY <1>1
      <4> QED
        BY <2>2, <2>7, <3>2, <4>1
    <3>3. old = At(base, k, EndOfBlock) \/ ~Past(old, w, -1)
      <4>1. CASE n = 1
        BY <1>3, <4>1 DEF old
      <4>2. CASE n # 1
        <5>1. n - 1 \in 1 .. L /\ n - 1 < n /\ n - 1 \in 1 .. n - 1 /\ \A l \in (n - 1) + 1 .. n - 1 : k < values[l].height
          BY <1>1, <4>2
        <5>2. values[n - 1].height < w /\ values[n - 1].height \in Nat
          BY <1>1, <5>1
        <5>3. values[n - 1].height <= k
          BY <2>2, <2>7, <5>2
        <5>4. By(old, values[n - 1].height, -1) \/ old = At(base, k, EndOfBlock)
          BY <1>5, <5>1, <5>3 DEF InForceAt, old
        <5>5. old # NoEntry
          BY <1>5, <5>1, <5>3 DEF InForceAt, old
        <5>6. old.height \in Nat /\ old.tx \in Int
          <6>1. old \in Range(f[n - 1])
            BY <2>2, <2>3, <5>5, AtIs DEF old
          <6>2. old \in Entry
            BY <2>3, <6>1, HistoryTypes
          <6> QED
            BY <6>2 DEF Entry
        <5>7. By(old, values[n - 1].height, -1) => ~Past(old, w, -1)
          BY <2>2, <5>2, <5>6 DEF By, Past, KeyLess
        <5> QED
          BY <5>4, <5>7
      <4> QED
        BY <4>1, <4>2
    <3>4. /\ new # NoEntry
          /\ \/ new.params = values[n].params /\ By(new, w, -1)
             \/ new = At(base, k, EndOfBlock) /\ Past(At(base, k, EndOfBlock), w, -1)
      BY <2>5, <2>7, <3>3
    <3> QED
      BY <3>1, <3>2, <3>4 DEF InForceAt, new
  <2> QED
    BY <2>2, <2>6, <2>7
<1>6. T = {}
  <2> SUFFICES ASSUME T # {} PROVE FALSE
    OBVIOUS
  <2>1. T \in SUBSET Nat
    OBVIOUS
  <2>2. PICK n \in T : \A j \in T : n <= j
    <3> HIDE DEF T
    <3> QED
      BY <2>1, Smallest
  <2>3. n \in 0 .. L /\ ~right(n)
    OBVIOUS
  <2> HIDE DEF right
  <2>4. n \in 1 .. L /\ n - 1 \in 0 .. L /\ ~(n <= n - 1)
    BY <1>1, <1>4, <2>3
  <2>5. right(n - 1)
    BY <2>2, <2>4
  <2> QED
    BY <1>5, <2>3, <2>4, <2>5
<1> HIDE DEF right
<1>7. right(L)
  BY <1>1, <1>6
<1> QED
  BY <1>2, <1>7 DEF right


-----------------------------------------------------------------------------
(* Which entry is in force, from one point to another. *)

LEMMA AtSame ==
  ASSUME NEW hs, IsHistory(hs), NEW h1 \in Int, NEW i1 \in Int, NEW h2 \in Int, NEW i2 \in Int,
         ~KeyLess(h2, i2, h1, i1), At(hs, h2, i2) # NoEntry, By(At(hs, h2, i2), h1, i1)
  PROVE  At(hs, h1, i1) = At(hs, h2, i2)
<1> DEFINE L == Len(hs)
           M == Upto(hs, h1, i1)
           N == Upto(hs, h2, i2)
<1>1. L \in Nat /\ \A j \in 1 .. L : hs[j].height \in Nat /\ hs[j].tx \in Int
  BY HistoryTypes
<1>2. M \in 0 .. L /\ \A j \in 1 .. L : j <= M <=> By(hs[j], h1, i1)
  BY UptoIs
<1>3. N \in 0 .. L /\ \A j \in 1 .. L : j <= N <=> By(hs[j], h2, i2)
  BY UptoIs
<1>4. /\ At(hs, h1, i1) = IF M = 0 THEN NoEntry ELSE hs[M]
      /\ At(hs, h2, i2) = IF N = 0 THEN NoEntry ELSE hs[N]
  BY DEF At
<1> HIDE DEF M, N
<1>5. N \in 1 .. L /\ By(hs[N], h1, i1)
  BY <1>1, <1>3, <1>4
<1>6. N <= M /\ M \in 1 .. L
  BY <1>1, <1>2, <1>5
<1>7. By(hs[M], h2, i2)
  BY <1>1, <1>2, <1>6 DEF By, KeyLess
<1>8. M <= N
  BY <1>3, <1>6, <1>7
<1>9. M = N
  BY <1>1, <1>5, <1>6, <1>8
<1> QED
  BY <1>4, <1>9

(* A repeat of the value in force is dropped; another value is put in. *)
LEMMA AddRepeat ==
  ASSUME NEW hs, IsHistory(hs), NEW h \in Int, NEW i \in Int, NEW src, NEW v,
         At(hs, h, i) # NoEntry, At(hs, h, i).params = v
  PROVE  Add(hs, h, i, src, v) = hs
<1> DEFINE n == Upto(hs, h, i)
<1>1. n \in 0 .. Len(hs) /\ Len(hs) \in Nat
  BY UptoIs, HistoryTypes
<1>2. At(hs, h, i) = IF n = 0 THEN NoEntry ELSE hs[n]
  BY DEF At
<1>3. n > 0 /\ hs[n].params = v
  <2> HIDE DEF n
  <2> QED
    BY <1>1, <1>2
<1> QED
  BY <1>3 DEF Add

LEMMA AddPutsIn ==
  ASSUME NEW hs, IsHistory(hs), NEW h \in Nat, NEW i \in Int, NEW src \in Sources, NEW v \in Values,
         At(hs, h, i) # NoEntry, At(hs, h, i).params # v
  PROVE  EntryAt(h, i, v, src) \in Range(Add(hs, h, i, src, v))
<1> DEFINE n == Upto(hs, h, i)
           g == Add(hs, h, i, src, v)
           e == EntryAt(h, i, v, src)
<1>1. n \in 0 .. Len(hs) /\ Len(hs) \in Nat /\ DOMAIN hs = 1 .. Len(hs)
  BY UptoIs, HistoryTypes
<1>2. At(hs, h, i) = IF n = 0 THEN NoEntry ELSE hs[n]
  BY DEF At
<1>3. ~(n > 0 /\ hs[n].params = v)
  <2> HIDE DEF n
  <2> QED
    BY <1>1, <1>2
<1>4. g = [j \in 1 .. Len(hs) + 1 |-> IF j <= n THEN hs[j] ELSE IF j = n + 1 THEN e ELSE hs[j - 1]]
  BY <1>3 DEF Add
<1> HIDE DEF g, e, n
<1>5. n + 1 \in DOMAIN g /\ g[n + 1] = e
  BY <1>1, <1>4
<1> QED
  BY <1>5 DEF Range, g, e

LEMMA ResolvedNone ==
  ASSUME NEW base
  PROVE  ResolvedHistory(base, <<>>) = base
<1>1. Len(<<>>) = 0 /\ Len(<<>>) \in Nat
  OBVIOUS
<1>2. PICK f : IsResolution(f, base, <<>>) /\ ResolvedHistory(base, <<>>) = f[Len(<<>>)]
  BY <1>1, ResolvedSteps
<1> QED
  BY <1>1, <1>2 DEF IsResolution

-----------------------------------------------------------------------------
(* The deadline is a point in time wherever the history reaches it. *)

LEMMA ServeUntilIs ==
  ASSUME NEW hs, IsHistory(hs), NEW promise \in Nat, NEW settle \in Nat, NEW tx \in Nat, Reaches(hs, settle, tx)
  PROVE  MustServeUntil(hs, promise, settle, tx) \in Nat
<1> DEFINE C == Candidates(hs, promise, settle, tx)
           T == {Window(e.params) : e \in C}
<1>1. \A h, i \in Int : At(hs, h, i) # NoEntry => At(hs, h, i) \in Range(hs)
  BY AtIs
<1>2. promise - 1 \in Int /\ EndOfBlock \in Int /\ promise \in Int /\ settle \in Int /\ tx \in Int
  BY EndOfBlockAssumption
<1>3. C \subseteq Range(hs)
  BY <1>1, <1>2 DEF Candidates
<1>4. At(hs, settle, tx) \in C
  BY DEF Candidates, Reaches
<1>5. \A e \in Range(hs) : e.params \in Values
  BY HistoryTypes DEF Entry
<1>6. \A v \in Values : Window(v) \in Nat
  BY DEF Values, Window
<1> HIDE DEF C
<1>7. T \in SUBSET Nat /\ T # {}
  BY <1>3, <1>4, <1>5, <1>6
<1>8. MustServeUntil(hs, promise, settle, tx) = Min(T)
  BY DEF MustServeUntil, C
<1> HIDE DEF T
<1> QED
  BY <1>7, <1>8, MinIs
=============================================================================
