-------------------------- MODULE AmendmentProofs --------------------------
(***************************************************************************)
(* What is on record of a row that moves after its probe (Amendment), for  *)
(* any vantages, window, promise and instant, and any number of restarts,  *)
(* rebuilds, replaced copies and failed writes: the lines agree, they come *)
(* before what they say, the recomputation draws the same verdict from     *)
(* them, and nobody is sent to a validator twice for one request.          *)
(***************************************************************************)
EXTENDS Amendment, SequenceTheorems, FiniteSetTheorems, WellFoundedInduction, TLAPS

-----------------------------------------------------------------------------
(* The inductive invariant. *)

Rows ==
  [started : Nat, class : {None, "FAULT", "PROBE_ERROR", "HEALTHY", "SHADOWED_SHARD"},
   gap : {None, "scan_gap", "shadow_pending"}]
Lines == [to : {None, "PROBE_ERROR", "UNMATCHED_GENUINE", "SHADOWED_SHARD"}, by : {None, "owner"} \cup Vantages]
Verdicts ==
  [of : {None} \cup Vantages, result : {"none", "cleared", "confirmed"}, line : Lines, step : {"log", "apply", "settle"}]
Confirmers ==
  [offset : Nat, pending : BOOLEAN, doing : {None, "input", "run"}, started : Nat, went : Nat, restarts : Nat]
Databases ==
  [frontier : Nat, known : BOOLEAN, row : Rows, amended : Lines, confirmedBy : {None} \cup Vantages,
   confirmations : [Vantages -> {None, "open", "judged"}], replayed : Nat]

TypeInv ==
  /\ now \in Nat /\ world \in Worlds
  /\ scanned \in Nat /\ published \in BOOLEAN /\ state \in [frontier : Nat, gap : BOOLEAN]
  /\ row \in Rows
  /\ confirmer \in [Vantages -> Confirmers] /\ answers \in [Vantages -> Rows] /\ copied \subseteq Vantages
  /\ inbox \in [Vantages -> Nat]
  /\ amendments \in Seq(Lines) /\ todo \in Seq(Verdicts)
  /\ db \in Databases /\ pc \in {"publications", "rows", "late", "confirmations", "done"}

(* What the scanner has on record of the owning promise. *)
ScanInv ==
  /\ state.frontier <= scanned
  /\ published <=> world.settles <= scanned /\ ~world.unread
  /\ world.kind = "FAULT" => scanned = 0

RowInv ==
  /\ row.class = "FAULT" => row.gap = None
  /\ \A v \in copied : answers[v] # NoRow

(* Where a late verdict is drawn, the publications in the store are no     *)
(* older than its frontier.                                                *)
StoreInv ==
  /\ db.row \in {NoRow, row}
  /\ db.frontier <= scanned
  /\ db.known => published
  /\ pc \in {"rows", "late"} /\ world.settles <= db.frontier /\ ~world.unread => db.known

(* The one late verdict there can be. *)
Final ==
  IF row.gap = "scan_gap" \/ world.timeout = 0 THEN [to |-> "PROBE_ERROR", by |-> None]
  ELSE IF ~(world.settles <= row.started + world.timeout /\ ~world.unread) THEN [to |-> "UNMATCHED_GENUINE", by |-> None]
  ELSE IF world.assigned THEN [to |-> "SHADOWED_SHARD", by |-> "owner"]
  ELSE [to |-> "PROBE_ERROR", by |-> None]

(* A fault that this vantage's answer withdraws. *)
Cleared(v) == row.class = "FAULT" /\ ConfirmFault(row.started, answers[v]) = "cleared"

(* What a line may say. *)
LineRight(line) ==
  \/ row.class = "FAULT" /\ line.to = "PROBE_ERROR" /\ line.by \in copied /\ Cleared(line.by)
  \/ /\ row.class # "FAULT" /\ row.gap # None /\ line = Final
     /\ row.gap = "scan_gap" \/ world.timeout = 0 \/ row.started + world.timeout <= scanned

OnRecord == Range(amendments)

(* What a verdict drawn and not yet dealt with may be: what is to be       *)
(* applied has its line, and once there is only the answer to settle, a    *)
(* fault that it withdraws has one too.                                    *)
VerdictRight(t) ==
  /\ t.of # None => t.of \in copied
  /\ t.step # "settle" => LineRight(t.line)
  /\ t.step = "apply" => t.line \in OnRecord
  /\ t.step = "settle" => t.of # None /\ (Cleared(t.of) => OnRecord # {})

LinesInv ==
  /\ \A line \in OnRecord : LineRight(line)
  /\ \A t \in Range(todo) : VerdictRight(t)
  /\ todo # <<>> => db.row # NoRow
  /\ db.replayed <= Len(amendments)
  /\ Amended => db.amended \in OnRecord
  /\ \A v \in Vantages : db.confirmations[v] # None => v \in copied
  /\ \A v \in Vantages : db.confirmations[v] = "judged" => db.row # NoRow /\ (Cleared(v) => OnRecord # {})

(* A vantage that has answered does not ask again, and one that has not    *)
(* has asked once for every restart at most, but for the run it is in.     *)
AskInv ==
  \A v \in Vantages :
    LET c == confirmer[v]
    IN  /\ c.went <= c.restarts + 1
        /\ Has(v) => c.doing = None /\ ~c.pending
        /\ ~Has(v) /\ c.doing # "run" => c.went <= c.restarts

AmendmentInv == TypeInv /\ ScanInv /\ RowInv /\ StoreInv /\ LinesInv /\ AskInv

-----------------------------------------------------------------------------
(* Facts used throughout. *)

LEMMA TypesAre ==
  ASSUME TypeInv
  PROVE  /\ world.timeout \in Nat /\ world.settles \in Nat \ {0} /\ world.unread \in BOOLEAN
         /\ row.started \in Nat /\ scanned \in Nat /\ state.frontier \in Nat /\ db.frontier \in Nat /\ db.replayed \in Nat
         /\ Len(amendments) \in Nat /\ DOMAIN amendments = 1 .. Len(amendments)
         /\ \A v \in Vantages : confirmer[v] \in Confirmers /\ confirmer[v].went \in Nat /\ confirmer[v].restarts \in Nat
<1>1. world \in Worlds /\ row \in Rows /\ state \in [frontier : Nat, gap : BOOLEAN] /\ db \in Databases
  BY DEF TypeInv
<1>2. world.timeout \in Nat /\ world.settles \in Nat \ {0} /\ world.unread \in BOOLEAN
  BY <1>1, AmendmentAssumption
<1>3. row.started \in Nat /\ state.frontier \in Nat
  BY <1>1 DEF Rows
<1>4. db.frontier \in Nat /\ db.replayed \in Nat
  BY <1>1 DEF Databases
<1>5. Len(amendments) \in Nat /\ DOMAIN amendments = 1 .. Len(amendments)
  BY LenProperties DEF TypeInv
<1>6. \A v \in Vantages : confirmer[v] \in Confirmers /\ confirmer[v].went \in Nat /\ confirmer[v].restarts \in Nat
  BY DEF TypeInv, Confirmers
<1> QED
  BY <1>2, <1>3, <1>4, <1>5, <1>6 DEF TypeInv

LEMMA NoRowIsRow == Never \in Nat /\ NoRow \in Rows /\ NoRow.class # "FAULT" /\ NoRow.gap = None
<1>1. MaxTime \in Nat
  BY AmendmentAssumption
<1>2. Never \in Nat
  BY <1>1 DEF Never
<1> QED
  BY <1>2 DEF NoRow, Rows, None

(* Whatever its instant, a row with a class of its own is there. *)
LEMMA RowIsThere ==
  ASSUME NEW r, r.class # "none"
  PROVE  r # NoRow
BY DEF NoRow, None

LEMMA LineSays ==
  ASSUME NEW line, LineRight(line)
  PROVE  /\ line # NoVerdict
         /\ line.to = IF row.class = "FAULT" THEN "PROBE_ERROR" ELSE Final.to
         /\ row # NoRow
BY NoRowIsRow DEF LineRight, Final, NoVerdict, None

LEMMA FirstInSeq ==
  ASSUME NEW S, NEW s \in Seq(S), s # <<>>
  PROVE  /\ Head(s) \in Range(s) /\ Tail(s) \in Seq(S) /\ Range(Tail(s)) \subseteq Range(s)
         /\ 1 \in DOMAIN s /\ Head(s) = s[1] /\ Head(s) \in S
         /\ \A e \in S : [s EXCEPT ![1] = e] \in Seq(S) /\ Range([s EXCEPT ![1] = e]) \subseteq Range(s) \cup {e}
<1>1. /\ Head(s) \in S /\ Tail(s) \in Seq(S) /\ Len(Tail(s)) = Len(s) - 1 /\ Len(s) \in Nat \ {0}
      /\ \A i \in 1 .. Len(Tail(s)) : Tail(s)[i] = s[i + 1]
  BY HeadTailProperties
<1>2. DOMAIN s = 1 .. Len(s) /\ Head(s) = s[1] /\ 1 \in DOMAIN s
  BY <1>1
<1>3. \A i \in DOMAIN Tail(s) : i + 1 \in DOMAIN s /\ Tail(s)[i] = s[i + 1]
  BY <1>1
<1>4. Range(Tail(s)) \subseteq Range(s)
  BY <1>3 DEF Range
<1>5. \A e \in S : [s EXCEPT ![1] = e] \in Seq(S)
  BY <1>2, ExceptSeq
<1>6. \A e \in S : Range([s EXCEPT ![1] = e]) \subseteq Range(s) \cup {e}
  BY <1>2 DEF Range
<1> QED
  BY <1>1, <1>2, <1>4, <1>5, <1>6 DEF Range

LEMMA AppendRange ==
  ASSUME NEW S, NEW s \in Seq(S), NEW e \in S
  PROVE  Append(s, e) \in Seq(S) /\ Range(Append(s, e)) = Range(s) \cup {e} /\ Len(Append(s, e)) = Len(s) + 1
<1>1. /\ Append(s, e) \in Seq(S) /\ Len(Append(s, e)) = Len(s) + 1 /\ Len(s) \in Nat
      /\ \A i \in 1 .. Len(s) : Append(s, e)[i] = s[i]
      /\ Append(s, e)[Len(s) + 1] = e
  BY AppendProperties
<1>2. DOMAIN s = 1 .. Len(s) /\ DOMAIN Append(s, e) = 1 .. Len(s) + 1
  BY <1>1
<1>3. \A i \in DOMAIN Append(s, e) : i \in DOMAIN s \/ i = Len(s) + 1
  BY <1>1, <1>2
<1>4. DOMAIN s \subseteq DOMAIN Append(s, e) /\ Len(s) + 1 \in DOMAIN Append(s, e)
  BY <1>1, <1>2
<1> QED
  BY <1>1, <1>2, <1>3, <1>4 DEF Range

LEMMA LastInRange ==
  ASSUME NEW S, NEW s \in Seq(S), s # <<>>
  PROVE  Last(s) \in Range(s)
<1>1. Len(s) \in Nat \ {0} /\ DOMAIN s = 1 .. Len(s)
  BY EmptySeq
<1> QED
  BY <1>1 DEF Last, Range

LEMMA NoneInEmpty ==
  ASSUME NEW S, NEW s \in Seq(S)
  PROVE  Range(s) = {} <=> s = <<>>
<1>1. CASE s = <<>>
  BY <1>1 DEF Range
<1>2. CASE s # <<>>
  BY <1>2, LastInRange
<1> QED
  BY <1>1, <1>2

-----------------------------------------------------------------------------
(* What the record may gain without a line becoming wrong. *)

RecordGrows ==
  /\ world' = world /\ row' = row
  /\ scanned' \in Nat /\ scanned <= scanned'
  /\ copied \subseteq copied' /\ \A v \in copied : answers'[v] = answers[v]

LEMMA ClearedStays ==
  ASSUME RecordGrows, NEW v \in copied
  PROVE  Cleared(v)' <=> Cleared(v)
BY DEF RecordGrows, Cleared, ConfirmFault

LEMMA LineStays ==
  ASSUME TypeInv, RecordGrows, NEW line, LineRight(line)
  PROVE  LineRight(line)'
<1>1. CASE row.class = "FAULT"
  <2>1. line.to = "PROBE_ERROR" /\ line.by \in copied /\ Cleared(line.by)
    BY <1>1 DEF LineRight
  <2>2. Cleared(line.by)'
    BY <2>1, ClearedStays
  <2> QED
    BY <1>1, <2>1, <2>2 DEF LineRight, RecordGrows
<1>2. CASE row.class # "FAULT"
  <2>1. /\ row.gap # None /\ line = Final
        /\ row.gap = "scan_gap" \/ world.timeout = 0 \/ row.started + world.timeout <= scanned
    BY <1>2 DEF LineRight
  <2>2. row.started + world.timeout <= scanned => row.started + world.timeout <= scanned'
    <3>1. row.started \in Nat /\ world.timeout \in Nat /\ scanned \in Nat
      BY TypesAre
    <3> QED
      BY <3>1 DEF RecordGrows
  <2>3. Final' = Final
    BY DEF Final, RecordGrows
  <2> QED
    BY <1>2, <2>1, <2>2, <2>3 DEF LineRight, RecordGrows
<1> QED
  BY <1>1, <1>2

LEMMA LinesKept ==
  ASSUME TypeInv, LinesInv, RecordGrows, UNCHANGED <<amendments, todo, db>>
  PROVE  LinesInv'
<1>1. OnRecord' = OnRecord
  BY DEF OnRecord
<1>2. \A line : LineRight(line) => LineRight(line)'
  BY LineStays
<1>3. \A v \in copied : v \in copied' /\ (Cleared(v)' <=> Cleared(v))
  BY ClearedStays DEF RecordGrows
<1>4. \A t : VerdictRight(t) => VerdictRight(t)'
  BY <1>1, <1>2, <1>3 DEF VerdictRight
<1>5. \A line \in OnRecord' : LineRight(line)'
  BY <1>1, <1>2 DEF LinesInv
<1>6. \A t \in Range(todo)' : VerdictRight(t)'
  BY <1>4 DEF LinesInv
<1>7. \A v \in Vantages : db'.confirmations[v] # None => v \in copied'
  BY <1>3 DEF LinesInv
<1>8. \A v \in Vantages : db'.confirmations[v] = "judged" => db'.row # NoRow /\ (Cleared(v)' => OnRecord' # {})
  <2> SUFFICES ASSUME NEW v \in Vantages, db.confirmations[v] = "judged"
               PROVE  db.row # NoRow /\ (Cleared(v)' => OnRecord' # {})
    OBVIOUS
  <2>1. v \in copied /\ db.row # NoRow /\ (Cleared(v) => OnRecord # {})
    BY DEF LinesInv, None
  <2> QED
    BY <1>1, <1>3, <2>1
<1> QED
  BY <1>1, <1>5, <1>6, <1>7, <1>8 DEF LinesInv, Amended

LEMMA StoreKept ==
  ASSUME TypeInv, StoreInv, RecordGrows, published => published', UNCHANGED <<db, pc>>
  PROVE  StoreInv'
<1>1. scanned \in Nat /\ db.frontier \in Nat
  BY TypesAre
<1> QED
  BY <1>1 DEF StoreInv, RecordGrows

-----------------------------------------------------------------------------
LEMMA InitHolds == AmendmentInit => AmendmentInv
<1> SUFFICES ASSUME AmendmentInit
             PROVE  AmendmentInv
  OBVIOUS
<1>1. NoRow \in Rows /\ Never \in Nat /\ NoRow.class # "FAULT"
  BY NoRowIsRow
<1>2. TypeInv
  <2>1. db \in Databases
    <3>1. NoVerdict \in Lines
      BY DEF NoVerdict, Lines, None
    <3>2. [v \in Vantages |-> None] \in [Vantages -> {None, "open", "judged"}]
      OBVIOUS
    <3> QED
      BY <1>1, <3>1, <3>2 DEF AmendmentInit, Empty, Databases
  <2>2. confirmer \in [Vantages -> Confirmers]
    BY <1>1 DEF AmendmentInit, Fresh, Confirmers
  <2>3. amendments \in Seq(Lines) /\ todo \in Seq(Verdicts)
    BY DEF AmendmentInit
  <2>4. state \in [frontier : Nat, gap : BOOLEAN] /\ answers \in [Vantages -> Rows] /\ inbox \in [Vantages -> Nat]
    BY <1>1 DEF AmendmentInit
  <2> QED
    BY <1>1, <2>1, <2>2, <2>3, <2>4 DEF AmendmentInit, TypeInv
<1>3. ScanInv
  <2>1. world.settles \in Nat \ {0}
    BY <1>2, TypesAre
  <2> QED
    BY <2>1 DEF AmendmentInit, ScanInv
<1>4. RowInv
  BY <1>1 DEF AmendmentInit, RowInv
<1>5. StoreInv
  BY DEF AmendmentInit, StoreInv, Empty
<1>6. LinesInv
  <2>1. OnRecord = {} /\ Range(todo) = {} /\ Len(amendments) = 0
    BY DEF AmendmentInit, OnRecord, Range
  <2>2. db.amended = NoVerdict /\ db.replayed = 0 /\ \A v \in Vantages : db.confirmations[v] = None
    BY DEF AmendmentInit, Empty
  <2>3. \A v \in Vantages : db.confirmations[v] # "judged"
    BY <2>2 DEF None
  <2> QED
    BY <2>1, <2>2, <2>3 DEF AmendmentInit, LinesInv, Amended
<1>7. AskInv
  BY DEF AmendmentInit, AskInv, Fresh, Has
<1> QED
  BY <1>2, <1>3, <1>4, <1>5, <1>6, <1>7 DEF AmendmentInv

-----------------------------------------------------------------------------
(* The clock, the scanner, the prober and the copies. *)

LEMMA ParkedStays ==
  ASSUME AmendmentInv, UNCHANGED <<confirmer, answers>>
  PROVE  AskInv'
BY DEF AmendmentInv, AskInv, Has

LEMMA ClockKeeps ==
  ASSUME AmendmentInv, ClockTicks
  PROVE  AmendmentInv'
<1> USE DEF AmendmentInv
<1>1. UNCHANGED <<world, recordVars, vantageVars, collectorVars>> /\ now' = now + 1
  BY DEF ClockTicks
<1>2. RecordGrows
  BY <1>1, TypesAre DEF RecordGrows, recordVars, vantageVars
<1>3. TypeInv'
  BY <1>1 DEF TypeInv, recordVars, vantageVars, collectorVars
<1>4. ScanInv' /\ RowInv'
  BY <1>1 DEF ScanInv, RowInv, recordVars, vantageVars
<1>5. StoreInv' /\ LinesInv'
  BY <1>1, <1>2, StoreKept, LinesKept DEF recordVars, collectorVars
<1>6. AskInv'
  BY <1>1, ParkedStays DEF vantageVars
<1> QED
  BY <1>3, <1>4, <1>5, <1>6

LEMMA ScanKeeps ==
  ASSUME AmendmentInv, ScanBlock
  PROVE  AmendmentInv'
<1> USE DEF AmendmentInv
<1>1. /\ UNCHANGED <<now, world, state, row, asked, vantageVars, collectorVars>> /\ world.kind = "genuine"
      /\ scanned' = scanned + 1
  BY DEF ScanBlock
<1>2. /\ world.settles \in Nat \ {0} /\ scanned \in Nat /\ state.frontier \in Nat /\ published \in BOOLEAN
      /\ world.unread \in BOOLEAN
  BY TypesAre DEF TypeInv
<1> DEFINE settlesHere == world.settles = scanned + 1 /\ ~world.unread
<1>3. published' \in BOOLEAN /\ (published' <=> published \/ settlesHere)
  <2>1. published' = (published \/ settlesHere)
    BY DEF ScanBlock
  <2> HIDE DEF settlesHere
  <2> QED
    BY <2>1
<1>10. scanned' \in Nat /\ scanned <= scanned'
  BY <1>1, <1>2
<1>9. RecordGrows
  BY <1>1, <1>10 DEF RecordGrows, vantageVars
<1>4. TypeInv'
  BY <1>1, <1>3, <1>10 DEF TypeInv, vantageVars, collectorVars
<1>5. ScanInv'
  <2>1. state.frontier <= scanned + 1
    BY <1>2 DEF ScanInv
  <2>2. published' <=> world.settles <= scanned + 1 /\ ~world.unread
    <3>1. published <=> world.settles <= scanned /\ ~world.unread
      BY DEF ScanInv
    <3>2. world.settles <= scanned + 1 <=> world.settles <= scanned \/ world.settles = scanned + 1
      BY <1>2
    <3> QED
      BY <1>3, <3>1, <3>2
  <2>3. world.kind # "FAULT"
    BY <1>1
  <2> QED
    BY <1>1, <2>1, <2>2, <2>3 DEF ScanInv
<1>6. RowInv'
  BY <1>1 DEF RowInv, vantageVars
<1>7. StoreInv' /\ LinesInv'
  BY <1>1, <1>3, <1>9, StoreKept, LinesKept DEF collectorVars
<1>8. AskInv'
  BY <1>1, ParkedStays DEF vantageVars
<1> QED
  BY <1>4, <1>5, <1>6, <1>7, <1>8

LEMMA CheckpointKeeps ==
  ASSUME AmendmentInv, Checkpoint
  PROVE  AmendmentInv'
<1> USE DEF AmendmentInv
<1>1. /\ UNCHANGED <<now, world, scanned, published, row, asked, vantageVars, collectorVars>>
      /\ state' = [frontier |-> scanned, gap |-> world.unread /\ world.settles <= scanned]
  BY DEF Checkpoint
<1>2. world.settles \in Nat \ {0} /\ scanned \in Nat /\ world.unread \in BOOLEAN
  BY TypesAre
<1>3. RecordGrows
  BY <1>1, <1>2 DEF RecordGrows, vantageVars
<1>4. state' \in [frontier : Nat, gap : BOOLEAN] /\ state'.frontier = scanned
  BY <1>1, <1>2
<1>5. TypeInv'
  BY <1>1, <1>4 DEF TypeInv, vantageVars, collectorVars
<1>6. ScanInv' /\ RowInv'
  BY <1>1, <1>2, <1>4 DEF ScanInv, RowInv, vantageVars
<1>7. StoreInv' /\ LinesInv'
  BY <1>1, <1>3, StoreKept, LinesKept DEF collectorVars
<1>8. AskInv'
  BY <1>1, ParkedStays DEF vantageVars
<1> QED
  BY <1>5, <1>6, <1>7, <1>8

(* Before the row there is nothing about it. *)
LEMMA NothingBeforeTheRow ==
  ASSUME AmendmentInv, row = NoRow
  PROVE  /\ db.row = NoRow /\ OnRecord = {} /\ Range(todo) = {} /\ todo = <<>> /\ ~Amended
         /\ \A v \in Vantages : db.confirmations[v] # "judged"
<1> USE DEF AmendmentInv
<1>1. db.row = NoRow
  BY DEF StoreInv
<1>2. OnRecord = {}
  BY LineSays DEF LinesInv
<1>3. todo = <<>>
  BY <1>1 DEF LinesInv
<1>4. Range(todo) = {}
  BY <1>3 DEF Range
<1>5. ~Amended
  BY <1>2 DEF LinesInv
<1>6. \A v \in Vantages : db.confirmations[v] # "judged"
  BY <1>1 DEF LinesInv
<1> QED
  BY <1>1, <1>2, <1>3, <1>4, <1>5, <1>6

LEMMA ProbeKeeps ==
  ASSUME AmendmentInv, Probe
  PROVE  AmendmentInv'
<1> USE DEF AmendmentInv
<1>1. row = NoRow /\ UNCHANGED <<now, world, scanned, published, state, vantageVars, collectorVars>>
  BY DEF Probe
<1>2. /\ db.row = NoRow /\ OnRecord = {} /\ Range(todo) = {} /\ todo = <<>> /\ ~Amended
      /\ \A v \in Vantages : db.confirmations[v] # "judged"
  BY <1>1, NothingBeforeTheRow
<1>3. row' \in Rows /\ (row'.class = "FAULT" => row'.gap = None)
  <2>1. now \in Nat
    BY DEF TypeInv
  <2>2. CASE row' = [started |-> now, class |-> "FAULT", gap |-> None]
    BY <2>1, <2>2 DEF Rows
  <2>3. CASE \E fed \in {published, FALSE} :
               row' = [started |-> now,
                       class |-> IF fed THEN "SHADOWED_SHARD" ELSE "PROBE_ERROR",
                       gap |-> IF fed THEN None ELSE ShadowBlindness]
    <3>1. ShadowBlindness \in {"scan_gap", "shadow_pending"}
      BY DEF ShadowBlindness
    <3> QED
      BY <2>1, <2>3, <3>1 DEF Rows
  <2> QED
    BY <2>2, <2>3 DEF Probe
<1>4. TypeInv'
  BY <1>1, <1>3 DEF TypeInv, vantageVars, collectorVars
<1>5. ScanInv' /\ RowInv'
  BY <1>1, <1>3 DEF ScanInv, RowInv, vantageVars
<1>6. StoreInv'
  BY <1>1, <1>2 DEF StoreInv, collectorVars
<1>7. LinesInv'
  <2>1. OnRecord' = {} /\ Range(todo)' = {} /\ todo' = <<>> /\ db' = db /\ copied' = copied /\ amendments' = amendments
    BY <1>1, <1>2 DEF OnRecord, collectorVars, vantageVars
  <2> QED
    BY <1>2, <2>1 DEF LinesInv, Amended
<1>8. AskInv'
  BY <1>1, ParkedStays DEF vantageVars
<1> QED
  BY <1>4, <1>5, <1>6, <1>7, <1>8

LEMMA RequestKeeps ==
  ASSUME AmendmentInv, RequestConfirmation
  PROVE  AmendmentInv'
<1> USE DEF AmendmentInv
<1>1. UNCHANGED <<now, world, scanned, published, state, row, vantageVars, collectorVars>>
  BY DEF RequestConfirmation
<1>2. RecordGrows
  BY <1>1, TypesAre DEF RecordGrows, vantageVars
<1>3. TypeInv'
  BY <1>1 DEF TypeInv, vantageVars, collectorVars
<1>4. ScanInv' /\ RowInv'
  BY <1>1 DEF ScanInv, RowInv, vantageVars
<1>5. StoreInv' /\ LinesInv'
  BY <1>1, <1>2, StoreKept, LinesKept DEF collectorVars
<1>6. AskInv'
  BY <1>1, ParkedStays DEF vantageVars
<1> QED
  BY <1>3, <1>4, <1>5, <1>6

LEMMA CopyOfRequestsKeeps ==
  ASSUME AmendmentInv, NEW v \in Vantages, Push(v) \/ Replace(v)
  PROVE  AmendmentInv'
<1> USE DEF AmendmentInv
<1>1. /\ UNCHANGED <<now, world, recordVars, confirmer, answers, copied, collectorVars>>
      /\ inbox' = [inbox EXCEPT ![v] = 1] \/ inbox' = [inbox EXCEPT ![v] = 0]
  BY DEF Push, Replace
<1>2. RecordGrows
  BY <1>1, TypesAre DEF RecordGrows, recordVars
<1>3. inbox' \in [Vantages -> Nat]
  <2>1. inbox \in [Vantages -> Nat]
    BY DEF TypeInv
  <2>2. [inbox EXCEPT ![v] = 1] \in [Vantages -> Nat] /\ [inbox EXCEPT ![v] = 0] \in [Vantages -> Nat]
    BY <2>1
  <2> QED
    BY <1>1, <2>2
<1>4. TypeInv'
  BY <1>1, <1>3 DEF TypeInv, recordVars, collectorVars
<1>5. ScanInv' /\ RowInv'
  BY <1>1 DEF ScanInv, RowInv, recordVars
<1>6. StoreInv' /\ LinesInv'
  BY <1>1, <1>2, StoreKept, LinesKept DEF recordVars, collectorVars
<1>7. AskInv'
  BY <1>1, ParkedStays
<1> QED
  BY <1>4, <1>5, <1>6, <1>7

LEMMA PullKeeps ==
  ASSUME AmendmentInv, NEW v \in Vantages, Pull(v)
  PROVE  AmendmentInv'
<1> USE DEF AmendmentInv
<1>1. /\ UNCHANGED <<now, world, recordVars, inbox, confirmer, answers, collectorVars>>
      /\ copied' = copied \cup {v} /\ answers[v] # NoRow
  BY DEF Pull
<1>2. RecordGrows
  BY <1>1, TypesAre DEF RecordGrows, recordVars
<1>3. TypeInv'
  BY <1>1 DEF TypeInv, recordVars, collectorVars
<1>4. ScanInv' /\ RowInv'
  BY <1>1 DEF ScanInv, RowInv, recordVars
<1>5. StoreInv' /\ LinesInv'
  BY <1>1, <1>2, StoreKept, LinesKept DEF recordVars, collectorVars
<1>6. AskInv'
  BY <1>1, ParkedStays
<1> QED
  BY <1>3, <1>4, <1>5, <1>6

-----------------------------------------------------------------------------
(* Another vantage: an answer, once given, stands. *)

LEMMA VantageKeeps ==
  ASSUME AmendmentInv, NEW v \in Vantages, NEW c \in Confirmers, NEW a \in Rows,
         confirmer' = [confirmer EXCEPT ![v] = c], answers' = [answers EXCEPT ![v] = a],
         Has(v) => a = answers[v],
         c.went <= c.restarts + 1,
         a # NoRow => c.doing = None /\ ~c.pending,
         a = NoRow /\ c.doing # "run" => c.went <= c.restarts,
         UNCHANGED <<now, world, recordVars, inbox, copied, collectorVars>>
  PROVE  AmendmentInv'
<1> USE DEF AmendmentInv
<1>1. confirmer \in [Vantages -> Confirmers] /\ answers \in [Vantages -> Rows] /\ copied \subseteq Vantages
  BY DEF TypeInv
<1>2. /\ confirmer' \in [Vantages -> Confirmers] /\ answers' \in [Vantages -> Rows]
      /\ confirmer'[v] = c /\ answers'[v] = a
      /\ \A w \in Vantages : w # v => confirmer'[w] = confirmer[w] /\ answers'[w] = answers[w]
  BY <1>1
<1>3. \A w \in copied : answers'[w] = answers[w] /\ answers[w] # NoRow
  BY <1>1, <1>2 DEF RowInv, Has
<1>4. RecordGrows
  BY <1>3, TypesAre DEF RecordGrows, recordVars
<1>5. TypeInv'
  BY <1>2 DEF TypeInv, recordVars, collectorVars
<1>6. ScanInv' /\ RowInv'
  BY <1>3 DEF ScanInv, RowInv, recordVars
<1>7. StoreInv' /\ LinesInv'
  BY <1>4, StoreKept, LinesKept DEF recordVars, collectorVars
<1>8. AskInv'
  <2> SUFFICES ASSUME NEW w \in Vantages
               PROVE  /\ confirmer'[w].went <= confirmer'[w].restarts + 1
                      /\ answers'[w] # NoRow => confirmer'[w].doing = None /\ ~confirmer'[w].pending
                      /\ answers'[w] = NoRow /\ confirmer'[w].doing # "run" =>
                           confirmer'[w].went <= confirmer'[w].restarts
    BY DEF AskInv, Has
  <2>1. CASE w = v
    BY <1>2, <2>1
  <2>2. CASE w # v
    BY <1>2, <2>2 DEF AskInv, Has
  <2> QED
    BY <2>1, <2>2
<1> QED
  BY <1>5, <1>6, <1>7, <1>8

LEMMA BeginPassKeeps ==
  ASSUME AmendmentInv, NEW v \in Vantages, BeginPass(v)
  PROVE  AmendmentInv'
<1> USE DEF AmendmentInv
<1> DEFINE c0 == confirmer[v]
           c1 == ReadRequests(v, c0)
           due == c1.pending /\ now < AskUntil
           c2 == [c1 EXCEPT !.pending = due, !.doing = IF due THEN "input" ELSE None]
<1>1. /\ c0.doing = None /\ confirmer' = [confirmer EXCEPT ![v] = c2]
      /\ UNCHANGED <<now, world, recordVars, inbox, answers, copied, collectorVars>>
  BY DEF BeginPass
<1>2. /\ c0 \in Confirmers /\ c0.went <= c0.restarts + 1 /\ (Has(v) => ~c0.pending)
      /\ ~Has(v) => c0.went <= c0.restarts
  BY <1>1, TypesAre DEF AskInv, None
<1>4. /\ c1 \in Confirmers /\ c1.went = c0.went /\ c1.restarts = c0.restarts
      /\ Has(v) => ~c1.pending
  <2> DEFINE from == IF inbox[v] < c0.offset THEN 0 ELSE c0.offset
  <2>1. from \in Nat /\ inbox[v] \in Nat
    BY <1>2 DEF Confirmers, TypeInv
  <2>2. CASE inbox[v] = from
    <3>1. c1 = [c0 EXCEPT !.offset = from]
      BY <2>2 DEF ReadRequests
    <3> QED
      BY <1>2, <2>1, <3>1 DEF Confirmers
  <2>3. CASE inbox[v] # from
    <3> DEFINE wanted == c0.pending \/ (~Has(v) /\ now < AskUntil)
    <3>1. c1 = [c0 EXCEPT !.offset = inbox[v], !.pending = wanted]
      BY <2>3 DEF ReadRequests
    <3>2. wanted \in BOOLEAN /\ (Has(v) => ~wanted)
      BY <1>2 DEF Confirmers
    <3> HIDE DEF wanted
    <3> QED
      BY <1>2, <2>1, <3>1, <3>2 DEF Confirmers
  <2> QED
    BY <2>2, <2>3
<1>5. due \in BOOLEAN /\ (Has(v) => ~due)
  BY <1>4
<1>6. /\ c2 \in Confirmers /\ c2.went = c0.went /\ c2.restarts = c0.restarts /\ c2.pending = due
      /\ c2.doing = (IF due THEN "input" ELSE None)
  <2> HIDE DEF due, c1
  <2> QED
    BY <1>4, <1>5 DEF Confirmers
<1>7. answers' = [answers EXCEPT ![v] = answers[v]] /\ answers[v] \in Rows
  BY <1>1 DEF TypeInv
<1>8. /\ answers[v] # NoRow => c2.doing = None /\ ~c2.pending
      /\ answers[v] = NoRow /\ c2.doing # "run" => c2.went <= c2.restarts
      /\ c2.went <= c2.restarts + 1
  <2> HIDE DEF c2, due, c0
  <2> QED
    BY <1>2, <1>5, <1>6 DEF Has
<1> HIDE DEF c2, c1, due, c0
<1> QED
  BY <1>1, <1>6, <1>7, <1>8, VantageKeeps

LEMMA LeftForLaterKeeps ==
  ASSUME AmendmentInv, NEW v \in Vantages, LeftForLater(v)
  PROVE  AmendmentInv'
<1> USE DEF AmendmentInv
<1> DEFINE c == [confirmer[v] EXCEPT !.doing = None]
<1>1. /\ confirmer[v].doing = "input" /\ confirmer' = [confirmer EXCEPT ![v] = c]
      /\ UNCHANGED <<now, world, recordVars, inbox, answers, copied, collectorVars>>
  BY DEF LeftForLater
<1>2. /\ confirmer[v] \in Confirmers /\ confirmer[v].went <= confirmer[v].restarts
      /\ confirmer[v].went \in Nat /\ confirmer[v].restarts \in Nat /\ ~Has(v)
  BY <1>1, TypesAre DEF AskInv, None
<1>3. c \in Confirmers /\ c.went = confirmer[v].went /\ c.restarts = confirmer[v].restarts
  BY <1>2 DEF Confirmers
<1>4. answers' = [answers EXCEPT ![v] = answers[v]] /\ answers[v] \in Rows /\ answers[v] = NoRow
  BY <1>1, <1>2 DEF TypeInv, Has
<1>5. c.went <= c.restarts /\ c.went <= c.restarts + 1
  BY <1>2, <1>3
<1> HIDE DEF c
<1> QED
  BY <1>1, <1>3, <1>4, <1>5, VantageKeeps

LEMMA AskKeeps ==
  ASSUME AmendmentInv, NEW v \in Vantages, Ask(v)
  PROVE  AmendmentInv'
<1> USE DEF AmendmentInv
<1> DEFINE c == [confirmer[v] EXCEPT !.doing = "run", !.started = now, !.went = @ + 1]
<1>1. /\ confirmer[v].doing = "input" /\ confirmer' = [confirmer EXCEPT ![v] = c]
      /\ UNCHANGED <<now, world, recordVars, inbox, answers, copied, collectorVars>>
  BY DEF Ask
<1>2. /\ confirmer[v] \in Confirmers /\ confirmer[v].went <= confirmer[v].restarts
      /\ confirmer[v].went \in Nat /\ confirmer[v].restarts \in Nat /\ ~Has(v) /\ now \in Nat
  BY <1>1, TypesAre DEF AskInv, None, TypeInv
<1> DEFINE once == confirmer[v].went + 1
<1>3. c \in Confirmers /\ c.went = confirmer[v].went + 1 /\ c.restarts = confirmer[v].restarts /\ c.doing = "run"
  <2>1. once \in Nat /\ c = [confirmer[v] EXCEPT !.doing = "run", !.started = now, !.went = once]
    BY <1>2 DEF Confirmers
  <2> HIDE DEF c
  <2>2. c \in Confirmers /\ c.went = once /\ c.restarts = confirmer[v].restarts /\ c.doing = "run"
    <3> HIDE DEF once
    <3> QED
      BY <1>2, <2>1 DEF Confirmers
  <2> QED
    BY <2>2
<1>4. answers' = [answers EXCEPT ![v] = answers[v]] /\ answers[v] \in Rows /\ answers[v] = NoRow
  BY <1>1, <1>2 DEF TypeInv, Has
<1>5. c.went <= c.restarts + 1
  BY <1>2, <1>3
<1> HIDE DEF c
<1> QED
  BY <1>1, <1>3, <1>4, <1>5, VantageKeeps

(* Having gone to the validator or not, a vantage that answers is done.    *)
LEMMA AnswerKeeps ==
  ASSUME AmendmentInv, NEW v \in Vantages, confirmer[v].doing # None,
         NEW started \in Nat, NEW class \in {"FAULT", "PROBE_ERROR", "HEALTHY"}, Answer(v, started, class),
         UNCHANGED <<now, world, recordVars, inbox, copied, collectorVars>>
  PROVE  AmendmentInv'
<1> USE DEF AmendmentInv
<1> DEFINE a == [started |-> started, class |-> class, gap |-> None]
           c == [confirmer[v] EXCEPT !.pending = FALSE, !.doing = None, !.started = Never]
<1>1. confirmer[v] \in Confirmers /\ confirmer[v].went <= confirmer[v].restarts + 1 /\ ~Has(v)
  BY TypesAre DEF AskInv
<1>2. answers' = [answers EXCEPT ![v] = a] /\ confirmer' = [confirmer EXCEPT ![v] = c]
  BY <1>1 DEF Answer
<1>3. a \in Rows /\ a # NoRow
  <2>1. a.class # "none"
    OBVIOUS
  <2> QED
    BY <2>1, RowIsThere DEF Rows
<1>4. c \in Confirmers /\ c.went = confirmer[v].went /\ c.restarts = confirmer[v].restarts /\ c.doing = None /\ ~c.pending
  BY <1>1, NoRowIsRow DEF Confirmers
<1>5. c.went <= c.restarts + 1
  BY <1>1, <1>4
<1> HIDE DEF a, c
<1> QED
  BY <1>1, <1>2, <1>3, <1>4, <1>5, VantageKeeps

LEMMA RefuseKeeps ==
  ASSUME AmendmentInv, NEW v \in Vantages, Refuse(v)
  PROVE  AmendmentInv'
<1>1. /\ Answer(v, now, "PROBE_ERROR") /\ UNCHANGED <<now, world, recordVars, inbox, copied, collectorVars>>
      /\ confirmer[v].doing # None
  BY DEF Refuse, None
<1>2. now \in Nat
  BY DEF AmendmentInv, TypeInv
<1> QED
  BY <1>1, <1>2, AnswerKeeps

LEMMA RunEndsKeeps ==
  ASSUME AmendmentInv, NEW v \in Vantages, RunEnds(v)
  PROVE  AmendmentInv'
<1> DEFINE started == confirmer[v].started
<1>1. UNCHANGED <<now, world, recordVars, inbox, copied, collectorVars>> /\ confirmer[v].doing # None
  BY DEF RunEnds, None
<1>2. PICK class \in AnswerClasses(started) : Answer(v, started, class)
  BY DEF RunEnds
<1>3. class \in {"FAULT", "PROBE_ERROR", "HEALTHY"}
  BY <1>2 DEF AnswerClasses
<1>4. started \in Nat
  BY TypesAre DEF AmendmentInv, Confirmers
<1> QED
  BY <1>1, <1>2, <1>3, <1>4, AnswerKeeps

LEMMA RestartKeeps ==
  ASSUME AmendmentInv, NEW v \in Vantages, RestartVantage(v)
  PROVE  AmendmentInv'
<1> USE DEF AmendmentInv
<1> DEFINE c == Fresh(confirmer[v].went, confirmer[v].restarts + 1)
<1>1. /\ confirmer' = [confirmer EXCEPT ![v] = c]
      /\ UNCHANGED <<now, world, recordVars, inbox, answers, copied, collectorVars>>
  BY DEF RestartVantage
<1>2. /\ confirmer[v].went <= confirmer[v].restarts + 1
      /\ confirmer[v].went \in Nat /\ confirmer[v].restarts \in Nat
  BY TypesAre DEF AskInv
<1>3. /\ c \in Confirmers /\ c.went = confirmer[v].went /\ c.restarts = confirmer[v].restarts + 1
      /\ c.doing = None /\ ~c.pending
  BY <1>2, NoRowIsRow DEF Confirmers, Fresh
<1>4. answers' = [answers EXCEPT ![v] = answers[v]] /\ answers[v] \in Rows
  BY <1>1 DEF TypeInv
<1>5. c.went <= c.restarts /\ c.went <= c.restarts + 1
  BY <1>2, <1>3
<1> HIDE DEF c
<1> QED
  BY <1>1, <1>3, <1>4, <1>5, VantageKeeps

-----------------------------------------------------------------------------
(* The collector's pass. *)

LEMMA VerdictStays ==
  ASSUME TypeInv, RecordGrows, OnRecord \subseteq OnRecord', NEW t, VerdictRight(t)
  PROVE  VerdictRight(t)'
<1>1. t.of # None => t.of \in copied' /\ (Cleared(t.of)' <=> Cleared(t.of))
  BY ClearedStays DEF VerdictRight, RecordGrows
<1>2. t.step # "settle" => LineRight(t.line)'
  BY LineStays DEF VerdictRight
<1>3. t.step = "apply" => t.line \in OnRecord'
  BY DEF VerdictRight
<1>4. t.step = "settle" => t.of # None /\ (Cleared(t.of)' => OnRecord' # {})
  BY <1>1 DEF VerdictRight
<1> QED
  BY <1>1, <1>2, <1>3, <1>4 DEF VerdictRight

LEMMA CollectorKeeps ==
  ASSUME AmendmentInv, Collecting \/ UNCHANGED <<now, world, recordVars, vantageVars>>,
         amendments' \in Seq(Lines), todo' \in Seq(Verdicts), db' \in Databases,
         pc' \in {"publications", "rows", "late", "confirmations", "done"}
  PROVE  /\ RecordGrows /\ TypeInv'
         /\ StoreInv' /\ LinesInv' => AmendmentInv'
<1> USE DEF AmendmentInv
<1>1. UNCHANGED <<now, world, recordVars, vantageVars>>
  BY DEF Collecting
<1>2. RecordGrows
  BY <1>1, TypesAre DEF RecordGrows, recordVars, vantageVars
<1>3. TypeInv'
  BY <1>1 DEF TypeInv, recordVars, vantageVars
<1>4. ScanInv' /\ RowInv'
  BY <1>1 DEF ScanInv, RowInv, recordVars, vantageVars
<1>5. AskInv'
  BY <1>1, ParkedStays DEF vantageVars
<1> QED
  BY <1>2, <1>3, <1>4, <1>5

(* A pass that only reads and draws: what is on record and what the store  *)
(* holds of the row stay.                                                  *)
LEMMA SameLines ==
  ASSUME AmendmentInv, RecordGrows, amendments' = amendments,
         db'.amended = db.amended, db'.replayed = db.replayed, db'.confirmations = db.confirmations,
         db.row # NoRow => db'.row # NoRow, todo' # <<>> => db'.row # NoRow,
         \A t \in Range(todo') : VerdictRight(t)
  PROVE  LinesInv'
<1> USE DEF AmendmentInv
<1>1. OnRecord' = OnRecord
  BY DEF OnRecord
<1>2. \A line \in OnRecord' : LineRight(line)'
  BY <1>1, LineStays DEF LinesInv
<1>3. \A t \in Range(todo') : VerdictRight(t)'
  BY <1>1, VerdictStays
<1>4. \A v \in copied : v \in copied' /\ (Cleared(v)' <=> Cleared(v))
  BY ClearedStays DEF RecordGrows
<1>5. \A v \in Vantages : db'.confirmations[v] # None => v \in copied'
  BY <1>4 DEF LinesInv
<1>6. \A v \in Vantages : db'.confirmations[v] = "judged" => db'.row # NoRow /\ (Cleared(v)' => OnRecord' # {})
  <2> SUFFICES ASSUME NEW v \in Vantages, db.confirmations[v] = "judged"
               PROVE  db'.row # NoRow /\ (Cleared(v)' => OnRecord' # {})
    OBVIOUS
  <2>1. v \in copied /\ db.row # NoRow /\ (Cleared(v) => OnRecord # {})
    BY DEF LinesInv, None
  <2> QED
    BY <1>1, <1>4, <2>1
<1> QED
  BY <1>1, <1>2, <1>3, <1>5, <1>6 DEF LinesInv, Amended

LEMMA ReadStateKeeps ==
  ASSUME AmendmentInv, ReadState
  PROVE  AmendmentInv'
<1> USE DEF AmendmentInv
<1>1. /\ todo = <<>> /\ pc' = "publications" /\ db' = [db EXCEPT !.frontier = state.frontier]
      /\ UNCHANGED <<amendments, todo>> /\ Collecting
  BY DEF ReadState, PassOver
<1>2. db \in Databases /\ state.frontier \in Nat /\ amendments \in Seq(Lines) /\ todo \in Seq(Verdicts)
  BY TypesAre DEF TypeInv
<1>3. /\ db' \in Databases /\ db'.row = db.row /\ db'.frontier = state.frontier /\ db'.known = db.known
      /\ db'.amended = db.amended /\ db'.replayed = db.replayed /\ db'.confirmations = db.confirmations
  BY <1>1, <1>2 DEF Databases
<1>4. RecordGrows /\ (StoreInv' /\ LinesInv' => AmendmentInv')
  BY <1>1, <1>2, <1>3, CollectorKeeps
<1>5. StoreInv'
  <2>1. state.frontier <= scanned /\ UNCHANGED <<row, scanned, published>>
    BY <1>1 DEF ScanInv, Collecting, recordVars
  <2> QED
    BY <1>1, <1>3, <2>1 DEF StoreInv
<1>6. LinesInv'
  <2>1. \A t \in Range(todo') : VerdictRight(t)
    BY <1>1 DEF LinesInv
  <2> QED
    BY <1>1, <1>3, <1>4, <2>1, SameLines
<1> QED
  BY <1>4, <1>5, <1>6

LEMMA ReadPublicationsKeeps ==
  ASSUME AmendmentInv, ReadPublications
  PROVE  AmendmentInv'
<1> USE DEF AmendmentInv
<1>1. /\ pc' = "rows" /\ db' = [db EXCEPT !.known = published]
      /\ UNCHANGED <<amendments, todo>> /\ Collecting
  BY DEF ReadPublications
<1>2. db \in Databases /\ published \in BOOLEAN /\ amendments \in Seq(Lines) /\ todo \in Seq(Verdicts)
  BY DEF TypeInv
<1>3. /\ db' \in Databases /\ db'.row = db.row /\ db'.frontier = db.frontier /\ db'.known = published
      /\ db'.amended = db.amended /\ db'.replayed = db.replayed /\ db'.confirmations = db.confirmations
  BY <1>1, <1>2 DEF Databases
<1>4. RecordGrows /\ (StoreInv' /\ LinesInv' => AmendmentInv')
  BY <1>1, <1>2, <1>3, CollectorKeeps
<1>5. StoreInv'
  <2>1. UNCHANGED <<row, scanned, published, world>>
    BY <1>1 DEF Collecting, recordVars
  <2>2. world.settles <= db.frontier /\ ~world.unread => published
    <3>1. db.frontier \in Nat /\ scanned \in Nat /\ world.settles \in Nat
      BY TypesAre
    <3> QED
      BY <3>1 DEF StoreInv, ScanInv
  <2> QED
    BY <1>1, <1>3, <2>1, <2>2 DEF StoreInv
<1>6. LinesInv'
  <2>1. \A t \in Range(todo') : VerdictRight(t)
    BY <1>1 DEF LinesInv
  <2>2. todo' # <<>> => db'.row # NoRow
    BY <1>1, <1>3 DEF LinesInv
  <2> QED
    BY <1>1, <1>3, <1>4, <2>1, <2>2, SameLines
<1> QED
  BY <1>4, <1>5, <1>6

(* The late verdict that can be drawn of a row in the store. *)
LEMMA LateIsFinal ==
  ASSUME AmendmentInv, pc = "late", db.row.gap # None, LateVerdict # NoVerdict
  PROVE  db.row = row /\ LineRight(LateVerdict) /\ LateVerdict \in Lines
<1> USE DEF AmendmentInv
<1>1. db.row = row
  BY NoRowIsRow DEF StoreInv
<1>2. row.class # "FAULT" /\ row.gap # None
  BY <1>1 DEF RowInv
<1>3. /\ world.timeout \in Nat /\ world.settles \in Nat /\ row.started \in Nat /\ db.frontier \in Nat /\ scanned \in Nat
      /\ db.frontier <= scanned /\ (published <=> world.settles <= scanned /\ ~world.unread)
      /\ (db.known => published) /\ (world.settles <= db.frontier /\ ~world.unread => db.known)
  BY TypesAre DEF StoreInv, ScanInv
<1>4. CASE row.gap = "scan_gap" \/ world.timeout = 0
  <2>1. LateVerdict = Final
    BY <1>1, <1>4 DEF LateVerdict, Final
  <2> QED
    BY <1>1, <1>2, <1>4, <2>1 DEF LineRight, Final, Lines, None
<1>5. CASE ~(row.gap = "scan_gap" \/ world.timeout = 0)
  <2>1. LateVerdict = LateShadow(row.started, db.frontier, db.known)
    BY <1>1, <1>5 DEF LateVerdict
  <2>2. row.started + world.timeout <= db.frontier
    BY <1>3, <1>5, <2>1 DEF LateShadow
  <2>3. row.started + world.timeout <= scanned
    BY <1>3, <2>2
  <2>4. OwnerCounts(row.started, db.known) <=> world.settles <= row.started + world.timeout /\ ~world.unread
    BY <1>3, <2>2 DEF OwnerCounts
  <2>5. LateVerdict = Final
    BY <1>3, <1>5, <2>1, <2>2, <2>4 DEF LateShadow, Final
  <2>6. Final \in Lines
    BY DEF Final, Lines, None
  <2> QED
    BY <1>1, <1>2, <2>3, <2>5, <2>6 DEF LineRight
<1> QED
  BY <1>4, <1>5

LEMMA JudgeLateKeeps ==
  ASSUME AmendmentInv, JudgeLate
  PROVE  AmendmentInv'
<1> USE DEF AmendmentInv
<1> DEFINE drawn == db.frontier > 0 /\ db.row.gap # None /\ ~Amended /\ LateVerdict # NoVerdict
           t == Verdict(None, None, LateVerdict)
<1>1. /\ pc = "late" /\ pc' = "confirmations" /\ todo' = IF drawn THEN <<t>> ELSE <<>>
      /\ UNCHANGED <<amendments, db>> /\ Collecting
  BY DEF JudgeLate
<1>2. drawn => /\ t.of = None /\ t.step = "log" /\ t.line = LateVerdict /\ t.result = "none"
               /\ t = [of |-> None, result |-> "none", line |-> LateVerdict, step |-> "log"]
  BY DEF Verdict, None
<1>3. drawn => db.row = row /\ LineRight(t.line) /\ t.line \in Lines
  BY <1>1, <1>2, LateIsFinal
<1>4. drawn => t \in Verdicts /\ VerdictRight(t) /\ db.row # NoRow
  <2> HIDE DEF t
  <2>1. drawn => t \in Verdicts
    BY <1>2, <1>3 DEF Verdicts
  <2>2. drawn => VerdictRight(t)
    BY <1>2, <1>3 DEF VerdictRight
  <2>3. drawn => db.row # NoRow
    BY NoRowIsRow
  <2> QED
    BY <2>1, <2>2, <2>3
<1> HIDE DEF t, drawn
<1>5. todo' \in Seq(Verdicts) /\ (\A e \in Range(todo') : VerdictRight(e)) /\ (todo' # <<>> => db.row # NoRow)
  <2>1. CASE drawn
    <3>1. todo' = <<t>>
      BY <1>1, <2>1
    <3>2. Range(todo') = {t}
      BY <3>1 DEF Range
    <3> QED
      BY <1>4, <2>1, <3>1, <3>2
  <2>2. CASE ~drawn
    <3>1. todo' = <<>>
      BY <1>1, <2>2
    <3>2. Range(todo') = {}
      BY <3>1 DEF Range
    <3> QED
      BY <3>1, <3>2
  <2> QED
    BY <2>1, <2>2
<1>6. RecordGrows /\ (StoreInv' /\ LinesInv' => AmendmentInv')
  BY <1>1, <1>5, CollectorKeeps DEF TypeInv
<1>7. StoreInv'
  BY <1>1 DEF StoreInv, Collecting, recordVars
<1>8. LinesInv'
  BY <1>1, <1>5, <1>6, SameLines
<1> QED
  BY <1>6, <1>7, <1>8

(* What the store takes from amendments.jsonl is a line of it.             *)
LEMMA ReplayedIsOnRecord ==
  ASSUME NEW d \in Databases, amendments \in Seq(Lines), d.replayed <= Len(amendments),
         d.amended # NoVerdict => d.amended \in OnRecord
  PROVE  LET e == Replayed(d)
         IN  /\ e \in Databases /\ e.row = d.row /\ e.frontier = d.frontier /\ e.known = d.known
             /\ e.confirmations = d.confirmations
             /\ e.replayed <= Len(amendments) /\ (e.amended # NoVerdict => e.amended \in OnRecord)
<1> DEFINE line == amendments[d.replayed + 1]
           a == ApplyAmendment(d, line)
           e == Replayed(d)
<1>1. Len(amendments) \in Nat /\ DOMAIN amendments = 1 .. Len(amendments) /\ d.replayed \in Nat
  BY LenProperties DEF Databases
<1>2. CASE d.row = NoRow \/ d.replayed = Len(amendments)
  <2>1. e = d
    BY <1>2 DEF Replayed
  <2> QED
    BY <2>1
<1>3. CASE ~(d.row = NoRow \/ d.replayed = Len(amendments))
  <2>1. d.replayed + 1 \in DOMAIN amendments
    BY <1>1, <1>3
  <2>2. line \in Lines /\ line \in OnRecord
    BY <1>1, <2>1, ElementOfSeq DEF OnRecord, Range
  <2>3. /\ a \in Databases /\ a.row = d.row /\ a.frontier = d.frontier /\ a.known = d.known
        /\ a.confirmations = d.confirmations /\ (a.amended # NoVerdict => a.amended \in OnRecord)
    <3>1. CASE d.amended # NoVerdict
      <4>1. a = d
        BY <3>1 DEF ApplyAmendment
      <4> QED
        BY <4>1
    <3>2. CASE d.amended = NoVerdict
      <4>1. a = [d EXCEPT !.amended = line]
        BY <3>2 DEF ApplyAmendment
      <4> HIDE DEF a, line
      <4> QED
        BY <2>2, <4>1 DEF Databases
    <3> QED
      BY <3>1, <3>2
  <2>4. e = [a EXCEPT !.replayed = Len(amendments)]
    BY <1>3 DEF Replayed
  <2> HIDE DEF a, e
  <2>5. /\ e.row = a.row /\ e.frontier = a.frontier /\ e.known = a.known /\ e.confirmations = a.confirmations
        /\ e.amended = a.amended /\ e.replayed = Len(amendments)
    BY <2>3, <2>4 DEF Databases
  <2>6. e \in Databases
    BY <1>1, <2>3, <2>4 DEF Databases
  <2>7. e.replayed <= Len(amendments)
    BY <1>1, <2>5
  <2> QED
    BY <2>3, <2>5, <2>6, <2>7 DEF e
<1> QED
  BY <1>2, <1>3

LEMMA ReadRowsKeeps ==
  ASSUME AmendmentInv, ReadRows
  PROVE  AmendmentInv'
<1> USE DEF AmendmentInv
<1> DEFINE cs == [v \in Vantages |-> IF v \in copied /\ db.confirmations[v] = None THEN "open" ELSE db.confirmations[v]]
           d == [db EXCEPT !.row = row, !.confirmations = cs]
<1>1. /\ pc = "rows" /\ pc' = "late" /\ db' = Replayed(d) /\ UNCHANGED <<amendments, todo>> /\ Collecting
  BY DEF ReadRows
<1>2. db \in Databases /\ row \in Rows /\ amendments \in Seq(Lines) /\ todo \in Seq(Verdicts) /\ copied \subseteq Vantages
  BY DEF TypeInv
<1>3. /\ cs \in [Vantages -> {None, "open", "judged"}]
      /\ \A v \in Vantages : (cs[v] # None => v \in copied) /\ (cs[v] = "judged" => db.confirmations[v] = "judged")
  <2>1. db.confirmations \in [Vantages -> {None, "open", "judged"}]
    BY <1>2 DEF Databases
  <2>2. \A v \in Vantages : db.confirmations[v] # None => v \in copied
    BY DEF LinesInv
  <2> QED
    BY <2>1, <2>2 DEF None
<1>4. /\ d \in Databases /\ d.row = row /\ d.frontier = db.frontier /\ d.known = db.known
      /\ d.confirmations = cs /\ d.amended = db.amended /\ d.replayed = db.replayed
  <2> HIDE DEF cs
  <2> QED
    BY <1>2, <1>3 DEF Databases
<1> HIDE DEF cs, d
<1>5. /\ db' \in Databases /\ db'.row = row /\ db'.frontier = db.frontier /\ db'.known = db.known
      /\ db'.confirmations = cs
      /\ db'.replayed <= Len(amendments) /\ (db'.amended # NoVerdict => db'.amended \in OnRecord)
  <2>1. d.replayed <= Len(amendments) /\ (d.amended # NoVerdict => d.amended \in OnRecord)
    BY <1>4 DEF LinesInv, Amended
  <2> QED
    BY <1>1, <1>2, <1>4, <2>1, ReplayedIsOnRecord
<1>6. RecordGrows /\ (StoreInv' /\ LinesInv' => AmendmentInv')
  BY <1>1, <1>2, <1>5, CollectorKeeps
<1>7. row' = row /\ scanned' = scanned /\ published' = published /\ world' = world /\ copied' = copied
  BY <1>1 DEF Collecting, recordVars, vantageVars
<1>8. StoreInv'
  BY <1>1, <1>5, <1>7 DEF StoreInv
<1>9. LinesInv'
  <2>1. OnRecord' = OnRecord
    BY <1>1 DEF OnRecord
  <2>2. \A line \in OnRecord' : LineRight(line)'
    BY <1>6, <2>1, LineStays DEF LinesInv
  <2>3. \A t \in Range(todo') : VerdictRight(t)'
    BY <1>1, <1>6, <2>1, VerdictStays DEF LinesInv
  <2>4. db.row # NoRow => db'.row # NoRow
    BY <1>5 DEF StoreInv
  <2>5. \A v \in Vantages : db'.confirmations[v] # None => v \in copied'
    BY <1>3, <1>5, <1>7
  <2>6. \A v \in copied : Cleared(v)' <=> Cleared(v)
    BY <1>6, ClearedStays
  <2>7. \A v \in Vantages : db'.confirmations[v] = "judged" => db'.row # NoRow /\ (Cleared(v)' => OnRecord' # {})
    <3> SUFFICES ASSUME NEW v \in Vantages, cs[v] = "judged"
                 PROVE  db'.row # NoRow /\ (Cleared(v)' => OnRecord' # {})
      BY <1>5
    <3>1. db.confirmations[v] = "judged"
      BY <1>3
    <3>2. v \in copied /\ db.row # NoRow /\ (Cleared(v) => OnRecord # {})
      BY <3>1 DEF LinesInv, None
    <3> QED
      BY <2>1, <2>4, <2>6, <3>2
  <2>8. todo' # <<>> => db'.row # NoRow
    BY <1>1, <2>4 DEF LinesInv
  <2> QED
    BY <1>1, <1>5, <2>1, <2>2, <2>3, <2>5, <2>7, <2>8 DEF LinesInv, Amended
<1> QED
  BY <1>6, <1>8, <1>9

(* What is drawn of an answer copied back and not judged yet.              *)
LEMMA DecisionRight ==
  ASSUME AmendmentInv, NEW v \in Open
  PROVE  Decision(v) \in Verdicts /\ VerdictRight(Decision(v)) /\ db.row # NoRow
<1> USE DEF AmendmentInv
<1>1. v \in Vantages /\ db.row # NoRow /\ v \in copied /\ v # None
  BY AmendmentAssumption DEF Open, LinesInv, None
<1>2. db.row = row
  BY <1>1 DEF StoreInv
<1> DEFINE result == IF row.class = "FAULT" /\ ~Amended THEN ConfirmFault(row.started, answers[v]) ELSE "none"
           withdrawn == [to |-> "PROBE_ERROR", by |-> v]
           line == IF result = "cleared" THEN withdrawn ELSE NoVerdict
           step == IF line = NoVerdict THEN "settle" ELSE "log"
           t == [of |-> v, result |-> result, line |-> line, step |-> step]
<1>3. Decision(v) = t
  BY <1>2 DEF Decision, Verdict
<1>4. result \in {"none", "cleared", "confirmed"}
  BY DEF ConfirmFault
<1>5. withdrawn \in Lines /\ NoVerdict \in Lines /\ withdrawn # NoVerdict /\ withdrawn.to = "PROBE_ERROR" /\ withdrawn.by = v
  <2>1. withdrawn.to # NoVerdict.to
    BY DEF NoVerdict, None
  <2> QED
    BY <1>1, <2>1 DEF Lines, NoVerdict, None
<1>6. result = "cleared" => Cleared(v)
  BY DEF Cleared
<1>7. Cleared(v) /\ result # "cleared" => OnRecord # {}
  <2>1. Cleared(v) /\ result # "cleared" => Amended
    BY DEF Cleared
  <2> QED
    BY <2>1 DEF LinesInv
<1> HIDE DEF result, withdrawn
<1>8. t \in Verdicts
  BY <1>1, <1>4, <1>5 DEF Verdicts
<1>9. VerdictRight(t)
  <2>1. CASE result = "cleared"
    <3>1. line = withdrawn /\ step = "log"
      BY <1>5, <2>1
    <3>2. LineRight(withdrawn)
      BY <1>1, <1>5, <1>6, <2>1 DEF LineRight, Cleared
    <3>3. t.of = v /\ t.line = withdrawn /\ t.step = "log"
      BY <3>1
    <3> HIDE DEF t, line, step
    <3> QED
      BY <1>1, <3>2, <3>3 DEF VerdictRight
  <2>2. CASE result # "cleared"
    <3>1. t.of = v /\ t.step = "settle"
      BY <2>2
    <3> HIDE DEF t, line, step
    <3> QED
      BY <1>1, <1>7, <2>2, <3>1 DEF VerdictRight
  <2> QED
    BY <2>1, <2>2
<1> QED
  BY <1>1, <1>3, <1>8, <1>9

LEMMA JudgeConfirmationsKeeps ==
  ASSUME AmendmentInv, JudgeConfirmations
  PROVE  AmendmentInv'
<1> USE DEF AmendmentInv
<1>1. /\ pc' = "done" /\ UNCHANGED <<amendments, db>> /\ Collecting
      /\ \E order \in [1 .. Cardinality(Open) -> Open] : todo' = [i \in DOMAIN order |-> Decision(order[i])]
  BY DEF JudgeConfirmations
<1>2. Cardinality(Open) \in Nat
  <2>1. IsFiniteSet(Vantages) /\ Open \subseteq Vantages
    BY AmendmentAssumption DEF Open
  <2> QED
    BY <2>1, FS_Subset, FS_CardinalityType
<1>3. PICK order \in [1 .. Cardinality(Open) -> Open] : todo' = [i \in DOMAIN order |-> Decision(order[i])]
  BY <1>1
<1>4. /\ DOMAIN todo' = 1 .. Cardinality(Open)
      /\ \A i \in DOMAIN todo' : order[i] \in Open /\ todo'[i] = Decision(order[i])
  BY <1>3
<1>5. todo' \in Seq(Verdicts)
  <2>1. \A i \in 1 .. Cardinality(Open) : Decision(order[i]) \in Verdicts
    BY <1>4, DecisionRight
  <2>2. todo' = [i \in 1 .. Cardinality(Open) |-> Decision(order[i])]
    BY <1>3
  <2> QED
    BY <1>2, <2>1, <2>2, IsASeq
<1>6. \A t \in Range(todo') : VerdictRight(t) /\ db.row # NoRow
  <2> SUFFICES ASSUME NEW t \in Range(todo')
               PROVE  VerdictRight(t) /\ db.row # NoRow
    OBVIOUS
  <2>1. PICK i \in DOMAIN todo' : t = todo'[i]
    BY DEF Range
  <2> QED
    BY <1>4, <2>1, DecisionRight
<1>7. todo' # <<>> => db.row # NoRow
  <2>1. todo' # <<>> => Range(todo') # {}
    BY <1>5, LastInRange
  <2> QED
    BY <1>6, <2>1
<1>8. RecordGrows /\ (StoreInv' /\ LinesInv' => AmendmentInv')
  BY <1>1, <1>5, CollectorKeeps DEF TypeInv
<1>9. StoreInv'
  BY <1>1 DEF StoreInv, Collecting, recordVars
<1>10. LinesInv'
  BY <1>1, <1>6, <1>7, <1>8, SameLines
<1> QED
  BY <1>8, <1>9, <1>10

(* The head of what is left to do.                                         *)
LEMMA HeadIsRight ==
  ASSUME AmendmentInv, todo # <<>>
  PROVE  /\ Head(todo) \in Verdicts /\ VerdictRight(Head(todo)) /\ db.row # NoRow
         /\ Tail(todo) \in Seq(Verdicts) /\ \A t \in Range(Tail(todo)) : VerdictRight(t)
BY FirstInSeq DEF AmendmentInv, TypeInv, LinesInv

(* A verdict further along, put where it was.                              *)
LEMMA HeadMovesOn ==
  ASSUME AmendmentInv, todo # <<>>, NEW step \in {"log", "apply", "settle"}
  PROVE  LET t == [Head(todo) EXCEPT !.step = step]
             s == [todo EXCEPT ![1].step = step]
         IN  /\ s = [todo EXCEPT ![1] = t] /\ s \in Seq(Verdicts) /\ Range(s) \subseteq Range(todo) \cup {t}
             /\ t.of = Head(todo).of /\ t.line = Head(todo).line /\ t.step = step
<1> DEFINE h == Head(todo)
           t == [h EXCEPT !.step = step]
<1>1. todo \in Seq(Verdicts) /\ h \in Verdicts /\ h = todo[1]
  BY FirstInSeq DEF AmendmentInv, TypeInv
<1>2. [todo EXCEPT ![1].step = step] = [todo EXCEPT ![1] = t]
  BY <1>1
<1> HIDE DEF h
<1>3. t \in Verdicts /\ t.of = h.of /\ t.line = h.line /\ t.step = step
  BY <1>1 DEF Verdicts
<1> HIDE DEF t
<1>4. [todo EXCEPT ![1] = t] \in Seq(Verdicts) /\ Range([todo EXCEPT ![1] = t]) \subseteq Range(todo) \cup {t}
  BY <1>1, <1>3, FirstInSeq
<1> QED
  BY <1>2, <1>3, <1>4 DEF h, t

LEMMA LogKeeps ==
  ASSUME AmendmentInv, Log
  PROVE  AmendmentInv'
<1> USE DEF AmendmentInv
<1> DEFINE h == Head(todo)
           t == [h EXCEPT !.step = "apply"]
<1>1. /\ todo # <<>> /\ h.step = "log" /\ amendments' = Append(amendments, h.line)
      /\ todo' = [todo EXCEPT ![1].step = "apply"] /\ UNCHANGED <<pc, db>> /\ Collecting
  BY DEF Log
<1>2. h \in Verdicts /\ VerdictRight(h) /\ db.row # NoRow
  BY <1>1, HeadIsRight
<1>3. h.line \in Lines /\ LineRight(h.line) /\ (h.of # None => h.of \in copied)
  BY <1>1, <1>2 DEF Verdicts, VerdictRight
<1>4. /\ todo' \in Seq(Verdicts) /\ Range(todo') \subseteq Range(todo) \cup {t}
      /\ t.of = h.of /\ t.line = h.line /\ t.step = "apply"
  BY <1>1, HeadMovesOn
<1>13. PICK e0 : e0 = t
  OBVIOUS
<1>14. /\ Range(todo') \subseteq Range(todo) \cup {e0} /\ e0.step = "apply"
       /\ e0.line = h.line /\ LineRight(e0.line) /\ (e0.of # None => e0.of \in copied)
  BY <1>3, <1>4, <1>13
<1> HIDE DEF h, t
<1>5. /\ amendments' \in Seq(Lines) /\ OnRecord' = OnRecord \cup {h.line}
      /\ Len(amendments') = Len(amendments) + 1 /\ Len(amendments) \in Nat
  BY <1>1, <1>3, AppendRange, LenProperties DEF OnRecord, TypeInv
<1>6. RecordGrows /\ (StoreInv' /\ LinesInv' => AmendmentInv')
  BY <1>1, <1>4, <1>5, CollectorKeeps DEF TypeInv
<1>7. StoreInv'
  BY <1>1 DEF StoreInv, Collecting, recordVars
<1>8. \A line \in OnRecord' : LineRight(line)'
  BY <1>3, <1>5, <1>6, LineStays DEF LinesInv
<1>9. \A e \in Range(todo') : VerdictRight(e)'
  <2>1. VerdictRight(e0)'
    <3>1. LineRight(e0.line)' /\ e0.line \in OnRecord'
      BY <1>5, <1>6, <1>14, LineStays
    <3>2. e0.of # None => e0.of \in copied'
      BY <1>6, <1>14 DEF RecordGrows
    <3> QED
      BY <1>14, <3>1, <3>2 DEF VerdictRight
  <2>2. \A e \in Range(todo) : VerdictRight(e)'
    BY <1>5, <1>6, VerdictStays DEF LinesInv
  <2> QED
    BY <1>14, <2>1, <2>2
<1>10. db'.replayed <= Len(amendments')
  <2>1. db.replayed \in Nat /\ db.replayed <= Len(amendments)
    BY TypesAre DEF LinesInv
  <2> QED
    BY <1>1, <1>5, <2>1
<1>11. \A v \in Vantages : db'.confirmations[v] # None => v \in copied'
  BY <1>1, <1>6 DEF LinesInv, RecordGrows
<1>12. \A v \in Vantages : db'.confirmations[v] = "judged" => db'.row # NoRow /\ (Cleared(v)' => OnRecord' # {})
  BY <1>1, <1>2, <1>5
<1> QED
  BY <1>1, <1>2, <1>5, <1>6, <1>7, <1>8, <1>9, <1>10, <1>11, <1>12 DEF LinesInv, Amended

LEMMA ApplyKeeps ==
  ASSUME AmendmentInv, Apply
  PROVE  AmendmentInv'
<1> USE DEF AmendmentInv
<1> DEFINE h == Head(todo)
           t == [h EXCEPT !.step = "settle"]
<1>1. /\ todo # <<>> /\ h.step = "apply" /\ db' = ApplyAmendment(db, h.line)
      /\ todo' = IF h.of = None THEN Tail(todo) ELSE [todo EXCEPT ![1].step = "settle"]
      /\ UNCHANGED <<pc, amendments>> /\ Collecting
  BY DEF Apply
<1>2. /\ h \in Verdicts /\ VerdictRight(h) /\ db.row # NoRow
      /\ Tail(todo) \in Seq(Verdicts) /\ \A e \in Range(Tail(todo)) : VerdictRight(e)
  BY <1>1, HeadIsRight
<1>3. h.line \in Lines /\ h.line \in OnRecord /\ (h.of # None => h.of \in copied)
  BY <1>1, <1>2 DEF Verdicts, VerdictRight
<1>4. todo' \in Seq(Verdicts) /\ \A e \in Range(todo') : VerdictRight(e)
  <2>1. CASE h.of = None
    BY <1>1, <1>2, <2>1
  <2>2. CASE h.of # None
    <3>1. /\ todo' \in Seq(Verdicts) /\ Range(todo') \subseteq Range(todo) \cup {t}
          /\ t.of = h.of /\ t.line = h.line /\ t.step = "settle"
      BY <1>1, <2>2, HeadMovesOn
    <3> HIDE DEF t, h
    <3>2. VerdictRight(t)
      BY <1>3, <2>2, <3>1 DEF VerdictRight
    <3> QED
      BY <3>1, <3>2 DEF LinesInv
  <2> QED
    BY <2>1, <2>2
<1> HIDE DEF h, t
<1>5. /\ db' \in Databases /\ db'.row = db.row /\ db'.frontier = db.frontier /\ db'.known = db.known
      /\ db'.confirmations = db.confirmations /\ db'.replayed = db.replayed
      /\ db'.amended # NoVerdict => db'.amended \in OnRecord
  <2>0. db \in Databases
    BY DEF TypeInv
  <2>1. CASE db.amended # NoVerdict
    <3>1. db' = db
      BY <1>1, <2>1 DEF ApplyAmendment
    <3> QED
      BY <2>0, <3>1 DEF LinesInv, Amended
  <2>2. CASE db.amended = NoVerdict
    <3>1. db' = [db EXCEPT !.amended = h.line]
      BY <1>1, <2>2 DEF ApplyAmendment
    <3> QED
      BY <1>3, <2>0, <3>1 DEF Databases
  <2> QED
    BY <2>1, <2>2
<1>6. RecordGrows /\ (StoreInv' /\ LinesInv' => AmendmentInv')
  BY <1>1, <1>4, <1>5, CollectorKeeps DEF TypeInv
<1>7. StoreInv'
  BY <1>1, <1>5 DEF StoreInv, Collecting, recordVars
<1>8. OnRecord' = OnRecord
  BY <1>1 DEF OnRecord
<1>9. \A e \in Range(todo') : VerdictRight(e)'
  BY <1>4, <1>6, <1>8, VerdictStays
<1>10. \A line \in OnRecord' : LineRight(line)'
  BY <1>6, <1>8, LineStays DEF LinesInv
<1>11. \A v \in Vantages : db'.confirmations[v] # None => v \in copied'
  BY <1>5, <1>6 DEF LinesInv, RecordGrows
<1>12. \A v \in Vantages : db'.confirmations[v] = "judged" => db'.row # NoRow /\ (Cleared(v)' => OnRecord' # {})
  BY <1>2, <1>3, <1>5, <1>8
<1> QED
  BY <1>1, <1>2, <1>5, <1>6, <1>7, <1>8, <1>9, <1>10, <1>11, <1>12 DEF LinesInv, Amended

LEMMA SettleKeeps ==
  ASSUME AmendmentInv, Settle
  PROVE  AmendmentInv'
<1> USE DEF AmendmentInv
<1> DEFINE h == Head(todo)
           cs == [db.confirmations EXCEPT ![h.of] = "judged"]
           by == IF h.result = "confirmed" /\ db.confirmedBy = None THEN h.of ELSE db.confirmedBy
<1>1. /\ todo # <<>> /\ h.step = "settle" /\ todo' = Tail(todo) /\ UNCHANGED <<pc, amendments>> /\ Collecting
      /\ db' = [db EXCEPT !.confirmations = cs, !.confirmedBy = by]
  BY DEF Settle
<1>2. /\ h \in Verdicts /\ VerdictRight(h) /\ db.row # NoRow
      /\ Tail(todo) \in Seq(Verdicts) /\ \A e \in Range(Tail(todo)) : VerdictRight(e)
  BY <1>1, HeadIsRight
<1>3. h.of \in copied /\ h.of \in Vantages /\ (Cleared(h.of) => OnRecord # {})
  BY <1>1, <1>2 DEF VerdictRight, TypeInv
<1>4. db \in Databases
  BY DEF TypeInv
<1>5. /\ cs \in [Vantages -> {None, "open", "judged"}] /\ cs[h.of] = "judged"
      /\ \A v \in Vantages : v # h.of => cs[v] = db.confirmations[v]
  BY <1>3, <1>4 DEF Databases
<1>6. by \in {None} \cup Vantages
  BY <1>3, <1>4 DEF Databases
<1> HIDE DEF h, cs, by
<1>7. /\ db' \in Databases /\ db'.row = db.row /\ db'.frontier = db.frontier /\ db'.known = db.known
      /\ db'.confirmations = cs /\ db'.replayed = db.replayed /\ db'.amended = db.amended
  BY <1>1, <1>4, <1>5, <1>6 DEF Databases
<1>8. RecordGrows /\ (StoreInv' /\ LinesInv' => AmendmentInv')
  BY <1>1, <1>2, <1>7, CollectorKeeps DEF TypeInv
<1>9. StoreInv'
  BY <1>1, <1>7 DEF StoreInv, Collecting, recordVars
<1>10. OnRecord' = OnRecord
  BY <1>1 DEF OnRecord
<1>11. \A e \in Range(todo') : VerdictRight(e)'
  BY <1>1, <1>2, <1>8, <1>10, VerdictStays
<1>12. \A line \in OnRecord' : LineRight(line)'
  BY <1>8, <1>10, LineStays DEF LinesInv
<1>13. \A v \in Vantages : db'.confirmations[v] # None => v \in copied'
  BY <1>3, <1>5, <1>7, <1>8 DEF LinesInv, RecordGrows
<1>14. \A v \in Vantages : db'.confirmations[v] = "judged" => db'.row # NoRow /\ (Cleared(v)' => OnRecord' # {})
  <2> SUFFICES ASSUME NEW v \in Vantages, cs[v] = "judged"
               PROVE  Cleared(v)' => OnRecord' # {}
    BY <1>2, <1>7
  <2>1. v \in copied /\ (Cleared(v) => OnRecord # {})
    BY <1>3, <1>5 DEF LinesInv, None
  <2>2. Cleared(v)' <=> Cleared(v)
    BY <1>8, <2>1, ClearedStays
  <2> QED
    BY <1>10, <2>1, <2>2
<1> QED
  BY <1>1, <1>2, <1>7, <1>8, <1>9, <1>10, <1>11, <1>12, <1>13, <1>14 DEF LinesInv, Amended

LEMMA StepFailsKeeps ==
  ASSUME AmendmentInv, StepFails
  PROVE  AmendmentInv'
<1> USE DEF AmendmentInv
<1>1. /\ todo # <<>> /\ todo' = Tail(todo)
      /\ UNCHANGED <<now, world, recordVars, vantageVars, pc, amendments, db>>
  BY DEF StepFails
<1>2. db.row # NoRow /\ Tail(todo) \in Seq(Verdicts) /\ \A e \in Range(Tail(todo)) : VerdictRight(e)
  BY <1>1, HeadIsRight
<1>3. RecordGrows /\ (StoreInv' /\ LinesInv' => AmendmentInv')
  BY <1>1, <1>2, CollectorKeeps DEF TypeInv
<1>4. StoreInv'
  BY <1>1 DEF StoreInv, recordVars
<1>5. LinesInv'
  BY <1>1, <1>2, <1>3, SameLines
<1> QED
  BY <1>3, <1>4, <1>5

LEMMA CrashKeeps ==
  ASSUME AmendmentInv, Crash
  PROVE  AmendmentInv'
<1> USE DEF AmendmentInv
<1>1. /\ pc' = "done" /\ todo' = <<>> /\ db' = db
      /\ UNCHANGED <<now, world, recordVars, vantageVars, amendments>>
  BY DEF Crash, CollectorRestarts
<1>2. todo' \in Seq(Verdicts) /\ Range(todo') = {}
  BY <1>1 DEF Range
<1>3. RecordGrows /\ (StoreInv' /\ LinesInv' => AmendmentInv')
  BY <1>1, <1>2, CollectorKeeps DEF TypeInv
<1>4. StoreInv'
  BY <1>1 DEF StoreInv, recordVars
<1>5. LinesInv'
  BY <1>1, <1>2, <1>3, SameLines
<1> QED
  BY <1>3, <1>4, <1>5

(* With its database the collector loses what it knew, and no line.        *)
LEMMA RebuildKeeps ==
  ASSUME AmendmentInv, Rebuild
  PROVE  AmendmentInv'
<1> USE DEF AmendmentInv
<1>1. /\ pc' = "done" /\ todo' = <<>> /\ db' = Empty
      /\ UNCHANGED <<now, world, recordVars, vantageVars, amendments>>
  BY DEF Rebuild, CollectorRestarts
<1>2. todo' \in Seq(Verdicts) /\ Range(todo') = {}
  BY <1>1 DEF Range
<1>3. /\ db' \in Databases /\ db'.row = NoRow /\ db'.frontier = 0 /\ ~db'.known
      /\ db'.amended = NoVerdict /\ db'.replayed = 0 /\ \A v \in Vantages : db'.confirmations[v] = None
  <2>1. NoVerdict \in Lines
    BY DEF NoVerdict, Lines, None
  <2>2. [v \in Vantages |-> None] \in [Vantages -> {None, "open", "judged"}]
    OBVIOUS
  <2> QED
    BY <1>1, <2>1, <2>2, NoRowIsRow DEF Empty, Databases
<1>4. RecordGrows /\ (StoreInv' /\ LinesInv' => AmendmentInv')
  BY <1>1, <1>2, <1>3, CollectorKeeps DEF TypeInv
<1>5. StoreInv'
  <2>1. scanned' \in Nat
    BY <1>1, TypesAre DEF recordVars
  <2> QED
    BY <1>1, <1>3, <2>1 DEF StoreInv
<1>6. LinesInv'
  <2>1. OnRecord' = OnRecord /\ amendments' = amendments
    BY <1>1 DEF OnRecord
  <2>2. \A line \in OnRecord' : LineRight(line)'
    BY <1>4, <2>1, LineStays DEF LinesInv
  <2>3. Len(amendments) \in Nat
    BY TypesAre
  <2>4. \A v \in Vantages : db'.confirmations[v] # "judged"
    BY <1>3 DEF None
  <2> QED
    BY <1>1, <1>2, <1>3, <2>1, <2>2, <2>3, <2>4 DEF LinesInv, Amended
<1> QED
  BY <1>4, <1>5, <1>6

LEMMA StutterKeeps ==
  ASSUME AmendmentInv, UNCHANGED amendmentVars
  PROVE  AmendmentInv'
<1> USE DEF AmendmentInv
<1>1. UNCHANGED <<now, world, recordVars, vantageVars, collectorVars>>
  BY DEF amendmentVars
<1>2. /\ RecordGrows
      /\ StoreInv' /\ LinesInv' => AmendmentInv'
  BY <1>1, CollectorKeeps DEF TypeInv, collectorVars
<1>3. StoreInv' /\ LinesInv'
  BY <1>1, <1>2, StoreKept, LinesKept DEF recordVars, collectorVars
<1> QED
  BY <1>2, <1>3

LEMMA StepHolds == AmendmentInv /\ [AmendmentNext]_amendmentVars => AmendmentInv'
<1> SUFFICES ASSUME AmendmentInv, [AmendmentNext]_amendmentVars
             PROVE  AmendmentInv'
  OBVIOUS
<1>1. CASE ClockTicks \/ ScanBlock \/ Checkpoint \/ Probe \/ RequestConfirmation
  BY <1>1, ClockKeeps, ScanKeeps, CheckpointKeeps, ProbeKeeps, RequestKeeps
<1>2. ASSUME NEW v \in Vantages, Push(v) \/ Replace(v) \/ Pull(v)
      PROVE  AmendmentInv'
  BY <1>2, CopyOfRequestsKeeps, PullKeeps
<1>3. ASSUME NEW v \in Vantages, BeginPass(v) \/ LeftForLater(v) \/ Refuse(v) \/ Ask(v) \/ RunEnds(v) \/ RestartVantage(v)
      PROVE  AmendmentInv'
  BY <1>3, BeginPassKeeps, LeftForLaterKeeps, RefuseKeeps, AskKeeps, RunEndsKeeps, RestartKeeps
<1>4. CASE ReadState \/ ReadPublications \/ ReadRows \/ JudgeLate \/ JudgeConfirmations
  BY <1>4, ReadStateKeeps, ReadPublicationsKeeps, ReadRowsKeeps, JudgeLateKeeps, JudgeConfirmationsKeeps
<1>5. CASE Log \/ Apply \/ Settle \/ StepFails \/ Crash \/ Rebuild
  BY <1>5, LogKeeps, ApplyKeeps, SettleKeeps, StepFailsKeeps, CrashKeeps, RebuildKeeps
<1>6. CASE UNCHANGED amendmentVars
  BY <1>6, StutterKeeps
<1> QED
  BY <1>1, <1>2, <1>3, <1>4, <1>5, <1>6 DEF AmendmentNext

-----------------------------------------------------------------------------
(* What scanner, prober, vantages, record and store have in common in      *)
(* every reachable state.                                                  *)
THEOREM AmendmentInvariant == AmendmentSpec => []AmendmentInv
BY InitHolds, StepHolds, PTL DEF AmendmentSpec

(* Every row the store has moved has the line that moved it on record, and *)
(* all lines of the row move it to the same class, whatever died, failed   *)
(* or was rebuilt in between (store.ApplyAmendment after records.Append).  *)
THEOREM AmendmentsOnRecordAlways == AmendmentSpec => []AmendmentsOnRecord
<1>1. AmendmentInv => AmendmentsOnRecord
  <2> SUFFICES ASSUME AmendmentInv, Amended
               PROVE  AmendmentsOnRecord
    BY DEF AmendmentsOnRecord
  <2>1. db.amended \in OnRecord /\ DOMAIN amendments = 1 .. Len(amendments)
    BY TypesAre DEF AmendmentInv, LinesInv
  <2>2. Contains(amendments, db.amended)
    BY <2>1 DEF Contains, OnRecord, Range
  <2>3. \A line \in OnRecord : line.to = IF row.class = "FAULT" THEN "PROBE_ERROR" ELSE Final.to
    BY LineSays DEF AmendmentInv, LinesInv
  <2>4. \A i \in DOMAIN amendments : amendments[i] \in OnRecord
    BY DEF OnRecord, Range
  <2> QED
    BY <2>1, <2>2, <2>3, <2>4 DEF AmendmentsOnRecord
<1> QED
  BY <1>1, AmendmentInvariant, PTL

(* The first by name of some vantages is one of them.                      *)
LEMMA FirstIsOne ==
  ASSUME NEW S \in SUBSET Vantages, S # {}
  PROVE  FirstOf(S) \in S
<1> DEFINE Less == {xy \in Nat \X Nat : xy[1] < xy[2]}
           ranks == {Rank[v] : v \in S}
<1>1. Rank \in [Vantages -> Nat]
  BY AmendmentAssumption
<1>2. IsWellFoundedOn(Less, Nat)
  BY NatLessThanWellFounded DEF OpToRel
<1>3. ranks \in SUBSET Nat /\ ranks # {}
  BY <1>1
<1>4. PICK x \in ranks : \A y \in ranks : <<y, x>> \notin Less
  <2> HIDE DEF Less, ranks
  <2> QED
    BY <1>2, <1>3, WFMin
<1>5. PICK v \in S : x = Rank[v]
  BY <1>4
<1>6. \A w \in S : Rank[v] <= Rank[w]
  <2> SUFFICES ASSUME NEW w \in S
               PROVE  Rank[v] <= Rank[w]
    OBVIOUS
  <2>1. <<Rank[w], Rank[v]>> \notin Less /\ Rank[v] \in Nat /\ Rank[w] \in Nat
    BY <1>1, <1>4, <1>5
  <2>2. <<Rank[w], Rank[v]>> \in Nat \X Nat /\ ~(Rank[w] < Rank[v])
    BY <2>1
  <2> QED
    BY <2>1, <2>2
<1>7. FirstOf(S) = CHOOSE u \in S : \A w \in S : Rank[u] <= Rank[w]
  BY DEF FirstOf
<1> QED
  BY <1>6, <1>7

(* What the record as a whole says of a row that could not be judged at    *)
(* the probe is what was said of it when its verdict was drawn.            *)
LEMMA DrawnAgain ==
  ASSUME AmendmentInv, LateAgain # NoVerdict, amendments # <<>>
  PROVE  Recorded = LateAgain
<1> USE DEF AmendmentInv
<1> DEFINE line == Last(amendments)
<1>1. Recorded = line /\ LineRight(line)
  BY LastInRange DEF Recorded, TypeInv, LinesInv, OnRecord
<1>2. row.gap = "shadow_pending" /\ LateAgain = LateShadow(row.started, LoadFrontier, published)
  BY DEF LateAgain
<1>3. row.class # "FAULT" /\ row.gap # "scan_gap"
  BY <1>2 DEF RowInv, None
<1>4. world.timeout # 0
  BY <1>2 DEF LateShadow
<1>5. line = Final /\ row.started + world.timeout <= scanned
  BY <1>1, <1>3, <1>4 DEF LineRight
<1>6. /\ world.timeout \in Nat /\ world.settles \in Nat /\ row.started \in Nat /\ scanned \in Nat
      /\ published <=> world.settles <= scanned /\ ~world.unread
  BY TypesAre DEF ScanInv
<1>7. OwnerCounts(row.started, published) <=> world.settles <= row.started + world.timeout /\ ~world.unread
  BY <1>5, <1>6 DEF OwnerCounts
<1> DEFINE late == LateShadow(row.started, LoadFrontier, published)
<1>8. late # NoVerdict
  BY <1>2
<1>9. late = Final
  BY <1>3, <1>4, <1>7, <1>8 DEF LateShadow, Final
<1> QED
  BY <1>1, <1>2, <1>5, <1>9

(* Once every answer copied back is judged, the record withdraws a fault   *)
(* exactly if an answer does.                                              *)
LEMMA WithdrawnAgain ==
  ASSUME AmendmentInv, row.class = "FAULT", \A v \in copied : db.confirmations[v] = "judged"
  PROVE  (ClearedBy # None) <=> (Recorded # NoVerdict)
<1> USE DEF AmendmentInv
<1> DEFINE S == {v \in copied : ConfirmFault(row.started, answers[v]) = "cleared"}
<1>1. S \in SUBSET Vantages /\ None \notin Vantages
  BY AmendmentAssumption DEF TypeInv
<1>2. ClearedBy # None <=> S # {}
  <2>1. CASE S = {}
    <3>1. ClearedBy = None
      BY <2>1 DEF ClearedBy, FirstOf
    <3> QED
      BY <2>1, <3>1
  <2>2. CASE S # {}
    <3>1. FirstOf(S) \in S
      BY <1>1, <2>2, FirstIsOne
    <3>2. ClearedBy = FirstOf(S)
      BY DEF ClearedBy
    <3> QED
      BY <1>1, <2>2, <3>1, <3>2
  <2> QED
    BY <2>1, <2>2
<1>3. Recorded # NoVerdict <=> amendments # <<>>
  <2>1. CASE amendments = <<>>
    BY <2>1 DEF Recorded
  <2>2. CASE amendments # <<>>
    <3>1. Recorded \in OnRecord
      BY <2>2, LastInRange DEF Recorded, TypeInv, OnRecord
    <3> QED
      BY <2>2, <3>1, LineSays DEF LinesInv
  <2> QED
    BY <2>1, <2>2
<1>4. ASSUME S # {}
      PROVE  amendments # <<>>
  <2>1. PICK v \in S : TRUE
    BY <1>4
  <2>2. v \in Vantages /\ Cleared(v) /\ db.confirmations[v] = "judged"
    BY <1>1, <2>1 DEF Cleared
  <2>3. OnRecord # {}
    BY <2>2 DEF LinesInv
  <2> QED
    BY <2>3, NoneInEmpty DEF OnRecord, TypeInv
<1>5. ASSUME amendments # <<>>
      PROVE  S # {}
  <2>1. LineRight(Last(amendments))
    BY <1>5, LastInRange DEF TypeInv, LinesInv, OnRecord
  <2>2. Last(amendments).by \in copied /\ Cleared(Last(amendments).by)
    BY <2>1 DEF LineRight
  <2> QED
    BY <2>2 DEF Cleared
<1> QED
  BY <1>2, <1>3, <1>4, <1>5

(* sentinel-recompute draws what the collector drew (loadAmendments        *)
(* against LateShadow and ConfirmFaultBy).                                 *)
THEOREM RecomputeAgreesAlways == AmendmentSpec => []RecomputeAgrees
<1>1. AmendmentInv => RecomputeAgrees
  <2> SUFFICES ASSUME AmendmentInv
               PROVE  RecomputeAgrees
    OBVIOUS
  <2>1. Recorded # NoVerdict => amendments # <<>>
    BY DEF Recorded
  <2>2. LateAgain # NoVerdict /\ Recorded # NoVerdict => Recorded = LateAgain
    BY <2>1, DrawnAgain
  <2>3. row.class = "FAULT" /\ (\A v \in copied : db.confirmations[v] = "judged")
          => ((ClearedBy # None) <=> (Recorded # NoVerdict))
    BY WithdrawnAgain
  <2> QED
    BY <2>2, <2>3 DEF RecomputeAgrees
<1> QED
  BY <1>1, AmendmentInvariant, PTL

(* No vantage goes to a validator twice for one request unless it was      *)
(* restarted in between (Confirmer.readRequests over its own rows).        *)
THEOREM AskedOnceAlways == AmendmentSpec => []AskedOnce
<1>1. AmendmentInv => AskedOnce
  <2> SUFFICES ASSUME AmendmentInv, NEW v \in Vantages
               PROVE  confirmer[v].went <= 1 + confirmer[v].restarts
    BY DEF AskedOnce
  <2>1. /\ confirmer[v].went <= confirmer[v].restarts + 1
        /\ confirmer[v].went \in Nat /\ confirmer[v].restarts \in Nat
    BY TypesAre DEF AmendmentInv, AskInv
  <2> QED
    BY <2>1
<1> QED
  BY <1>1, AmendmentInvariant, PTL
=============================================================================
