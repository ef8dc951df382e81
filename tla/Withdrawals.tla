----------------------------- MODULE Withdrawals -----------------------------
(***************************************************************************)
(* The withdrawal queue of one publisher, as successive reads of it become *)
(* a history: cmd/observer-collector/withdrawals.go and                    *)
(* observer/store/withdrawals.go, with the figures observer/api takes from *)
(* them.                                                                   *)
(*                                                                         *)
(* The chain is external and fixed.  Its time is its height; a withdrawal  *)
(* is named by the height it was requested at.  No event says that a       *)
(* settlement took a shortfall out of the queue, and a payout does not     *)
(* name the request it pays: "of" is what the observer never reads.        *)
(***************************************************************************)
EXTENDS Integers, FiniteSets, Functions

CONSTANTS
  Tip,            \* bound: the last height of the chain
  Amounts,        \* bound: what may be requested, and what a settlement may be short of
  Delays,         \* withdrawal_delay, in blocks
  MaxRequests,    \* bound: withdrawals requested
  MaxLost         \* bound: blocks the scanner could not read

VARIABLES
  queues,         \* external: by height, the queue in state after that block
  payouts,        \* external: every payout
  scanned,        \* payments.jsonl: the payouts up to this height,
  lost,           \* but for those in blocks of a gap
  lastScanned,    \* meta last_scanned_height
  payments,       \* the table payments: payouts
  ledger,         \* the table withdrawal_queue, by request
  escrow          \* the publisher's row of escrow_accounts

chainVars == <<queues, payouts>>
scannerFiles == <<scanned, lost>>
withdrawalVars == <<chainVars, scannerFiles, lastScanned, payments, ledger, escrow>>

Null == 0

ASSUME WithdrawalAssumption == Tip \in Nat \ {0} /\ Delays \subseteq Nat \ {0}

-----------------------------------------------------------------------------
(* x/fibre, as the comments of the two files describe it. *)

Total(queue) == SumFunction([r \in DOMAIN queue |-> queue[r].amount])

Without(queue, gone) == [r \in DOMAIN queue \ gone |-> queue[r]]

Due(queue, h) == {r \in DOMAIN queue : queue[r].available <= h}

(* A shortfall of n, taken from the oldest first. *)
Reduced(queue, n) ==
  LET Older(r) == SumFunction([o \in {k \in DOMAIN queue : k < r} |-> queue[o].amount])
      Left(r) == IF n <= Older(r) THEN queue[r].amount ELSE queue[r].amount - (n - Older(r))
  IN  [r \in {k \in DOMAIN queue : Left(k) > 0} |-> [queue[r] EXCEPT !.amount = Left(r)]]

(* What the txs of block h may leave of a queue. *)
AfterTxs(queue, h) ==
  {queue}
  \cup {Reduced(queue, n) : n \in {a \in Amounts : a <= Total(queue)}}
  \cup {[r \in DOMAIN queue \cup {h} |-> IF r = h THEN [available |-> h + d, amount |-> a] ELSE queue[r]] :
          d \in Delays, a \in Amounts}

EmptyQueue == [r \in {} |-> 0]

Requested(q) == UNION {DOMAIN q[h] : h \in DOMAIN q}

(* Block h after a history: it pays what is due, then come its txs. *)
WithBlock(c, h) ==
  LET before == c.queue[h - 1]
      due == Due(before, h)
      paid == {[height |-> h, amount |-> before[r].amount, of |-> r] : r \in due}
  IN  {[queue |-> [k \in 0 .. h |-> IF k = h THEN after ELSE c.queue[k]], paid |-> c.paid \cup paid] :
         after \in {q \in AfterTxs(Without(before, due), h) :
                      Cardinality(Requested(c.queue) \cup DOMAIN q) <= MaxRequests}}

Grown[h \in 0 .. Tip] ==
  IF h = 0
  THEN {[queue |-> [k \in {0} |-> EmptyQueue], paid |-> {}]}
  ELSE UNION {WithBlock(c, h) : c \in Grown[h - 1]}

Chains == {c \in Grown[Tip] : Requested(c.queue) # {}}

-----------------------------------------------------------------------------
(* One read of the queue, folded into the history. *)

SomeRow(P(_)) == \E r \in DOMAIN ledger : P(ledger[r])

(* Older than the last read stored, by the escrow row or by the rows' own. *)
Behind(h) ==
  \/ h < escrow.readHeight
  \/ SomeRow(LAMBDA w : h < w.lastSeen)
  \/ SomeRow(LAMBDA w : h < w.gone)

FirstSighting(w, h) ==
  [available |-> w.available, first |-> w.amount, amount |-> w.amount, lastSeen |-> h, gone |-> Null,
   outcome |-> "none", paid |-> {}]

(* Seen again, at another amount or after it was recorded gone. *)
SeenAgain(row, w, h) ==
  IF row.gone = Null
  THEN [row EXCEPT !.amount = w.amount, !.lastSeen = h]
  ELSE [row EXCEPT !.amount = w.amount, !.lastSeen = h, !.gone = Null, !.outcome = "none", !.paid = {}]

Missed(row, h) == IF row.gone = Null THEN [row EXCEPT !.gone = h] ELSE row

ObserveWithdrawals(queue, h) ==
  [r \in DOMAIN ledger \cup DOMAIN queue |->
     CASE r \notin DOMAIN ledger -> FirstSighting(queue[r], h)
       [] r \in DOMAIN ledger \cap DOMAIN queue -> SeenAgain(ledger[r], queue[r], h)
       [] OTHER -> Missed(ledger[r], h)]

-----------------------------------------------------------------------------
(* What became of those that left. *)

Undecided(rows) == {r \in DOMAIN rows : rows[r].gone # Null /\ rows[r].outcome \in {"none", "unattributed"}}

MissedTooEarly(row) == row.gone < row.available

Searchable(rows) == {r \in Undecided(rows) : ~MissedTooEarly(rows[r]) /\ lastScanned >= rows[r].gone}

Claimed(rows) == UNION {rows[r].paid : r \in DOMAIN rows}

(* The payouts a row could be. *)
Events(rows, r) ==
  {p \in payments \ Claimed(rows) :
     /\ p.height > rows[r].lastSeen /\ p.height <= rows[r].gone
     /\ p.height >= rows[r].available
     /\ p.amount = rows[r].amount}

Claims(rows, p) == {r \in Searchable(rows) : p \in Events(rows, r)}

(* Mutant: its only payout, whatever else could claim it. *)
OnlyEvent(rows, r) == {p \in Events(rows, r) : Events(rows, r) = {p}}

(* Its only payout, which nothing else could be paid by. *)
Unambiguous(rows, r) == {p \in Events(rows, r) : Events(rows, r) = {p} /\ Claims(rows, p) = {r}}

WithOutcome(rows, r) ==
  CASE r \in Undecided(rows) /\ MissedTooEarly(rows[r]) -> [rows[r] EXCEPT !.outcome = "consumed"]
    [] r \in Searchable(rows) /\ Unambiguous(rows, r) # {} ->
         [rows[r] EXCEPT !.outcome = "executed", !.paid = Unambiguous(rows, r)]
    [] r \in Searchable(rows) /\ Unambiguous(rows, r) = {} -> [rows[r] EXCEPT !.outcome = "unattributed"]
    [] OTHER -> rows[r]

ResolveWithdrawals(rows) == [r \in DOMAIN rows |-> WithOutcome(rows, r)]

-----------------------------------------------------------------------------
(* The scanner: the payouts of a block to payments.jsonl. *)
ScanPayments ==
  /\ scanned < Tip
  /\ scanned' = scanned + 1
  /\ lost' \in {lost} \cup {lost \cup {scanned + 1} : n \in 1 .. MaxLost - Cardinality(lost)}
  /\ UNCHANGED <<chainVars, lastScanned, payments, ledger, escrow>>

(* A pass reads state.json, then payments.jsonl; what cannot be read stays *)
(* as it was.  A checkpoint behind the payments is the last one again.     *)
Ingest ==
  /\ lastScanned' \in {lastScanned, scanned}
  /\ payments' \in {payments, {p \in payouts : p.height <= scanned /\ p.height \notin lost}}
  /\ UNCHANGED <<chainVars, scannerFiles, ledger, escrow>>

(* A pass whose escrow poll is due asks for one height, the tip of         *)
(* whichever node answers.  The escrow read may fail, or the queue read,   *)
(* or it is answered at another height or is older than the last; what can *)
(* be resolved is resolved all the same.                                   *)
EscrowAt(h) == [escrow EXCEPT !.height = h, !.locked = Total(queues[h])]

NoQueueRead(h) ==
  /\ escrow' \in {escrow, EscrowAt(h)}
  /\ ledger' = ResolveWithdrawals(ledger)

QueueRead(h) ==
  /\ ~Behind(h)
  /\ escrow' = [EscrowAt(h) EXCEPT !.readHeight = h, !.pending = Total(queues[h])]
  /\ ledger' = ResolveWithdrawals(ObserveWithdrawals(queues[h], h))

PollEscrow(h) ==
  /\ NoQueueRead(h) \/ QueueRead(h)
  /\ UNCHANGED <<chainVars, scannerFiles, lastScanned, payments>>

NothingRead ==
  /\ scanned = 0 /\ lost = {}
  /\ lastScanned = 0 /\ payments = {}
  /\ ledger = [r \in {} |-> 0]
  /\ escrow = [height |-> Null, locked |-> 0, readHeight |-> Null, pending |-> 0]

WithdrawalInit ==
  /\ \E c \in Chains : queues = c.queue /\ payouts = c.paid
  /\ NothingRead

WithdrawalNext ==
  \/ ScanPayments \/ Ingest
  \/ \E h \in 1 .. Tip : PollEscrow(h)

WithdrawalSpec == WithdrawalInit /\ [][WithdrawalNext]_withdrawalVars

-----------------------------------------------------------------------------
(* What the API says. *)

StillQueued == {r \in DOMAIN ledger : ledger[r].gone = Null}

PendingUtia == SumFunction([r \in StillQueued |-> ledger[r].amount])

(* queueCheck: only when both reads are of one height. *)
Comparable == escrow.height # Null /\ escrow.height = escrow.readHeight

Consistent == escrow.locked = escrow.pending

(* payout_delay_s and payout_lag_s. *)
PayoutDelay(r, p) == p.height - r
PayoutLag(r, p) == p.height - ledger[r].available

-----------------------------------------------------------------------------
PaidFor(r) == {p \in payouts : p.of = r}

(* A payout whose own withdrawal no read showed with the amount it paid. *)
Hidden(p) == p.of \notin DOMAIN ledger \/ ledger[p.of].amount # p.amount

(* The history says what happened: what is called consumed was never paid, *)
(* what is called executed has the payout that paid it (unless the payout  *)
(* belongs to a withdrawal no read ever showed at that amount) with the    *)
(* delay it really had, no payout is given away twice, what is pending is  *)
(* the queue as it stood at the read named beside it, and the published    *)
(* check of one against the other never accuses the module.                *)
WithdrawalsAreTrue ==
  /\ \A r \in DOMAIN ledger :
       /\ ledger[r].outcome = "consumed" => PaidFor(r) = {}
       /\ \A p \in ledger[r].paid :
            /\ p.of = r \/ Hidden(p)
            /\ PayoutLag(r, p) >= 0 /\ PayoutDelay(r, p) > PayoutLag(r, p)
            /\ \A k \in DOMAIN ledger \ {r} : p \notin ledger[k].paid
  /\ escrow.readHeight # Null =>
       StillQueued = DOMAIN queues[escrow.readHeight] /\ PendingUtia = Total(queues[escrow.readHeight])
  /\ Comparable => Consistent
=============================================================================
