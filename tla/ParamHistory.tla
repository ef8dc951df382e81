---------------------------- MODULE ParamHistory ----------------------------
(***************************************************************************)
(* The history of x/fibre params the scanner keeps, and the deadline       *)
(* (must_serve_until) it stamps on a publication from that history:        *)
(* internal/scan/params.go and the pure half of internal/scan/uncertainty.go. *)
(*                                                                         *)
(* A params value is a record of the two durations the deadline depends on; *)
(* the chain's other params fields move no deadline. Every publication is  *)
(* created at instant 0, so a deadline is the length of its window.        *)
(*                                                                         *)
(* A history is a sequence of entries in key order. A key is               *)
(* <<height, tx>>: tx is -1 for "from the first tx of the block".          *)
(***************************************************************************)
EXTENDS Integers, Sequences, FiniteSetsExt, Functions

CONSTANT EndOfBlock      \* math.MaxInt: past the last tx index of any block

ASSUME EndOfBlockAssumption == EndOfBlock \in Nat

Sources == {"seed", "event", "finalize", "reconcile", "verified"}

\* "No entry": the history starts after the point asked about.
NoEntry == [height |-> 0, tx |-> -1, params |-> [timeout |-> 0, retention |-> 0],
            source |-> "none"]

EntryAt(h, i, v, src) == [height |-> h, tx |-> i, params |-> v, source |-> src]

KeyLess(h1, i1, h2, i2) == h1 < h2 \/ (h1 = h2 /\ i1 < i2)

(* The window of a params value: max(payment_promise_timeout, shard_retention). *)
Window(v) == IF v.retention > v.timeout THEN v.retention ELSE v.timeout

(* How many entries of a history are in force at or before a point. The    *)
(* history is in key order, so they are its first ones.                    *)
Upto(hist, h, i) ==
  Cardinality({j \in DOMAIN hist : ~KeyLess(h, i, hist[j].height, hist[j].tx)})

(* The entry in force at a point of the chain, or NoEntry. *)
At(hist, h, i) ==
  LET n == Upto(hist, h, i) IN IF n = 0 THEN NoEntry ELSE hist[n]

(* A change observed at a point. A repeat of the value already in force    *)
(* there is dropped; a new value goes after every entry with the same key. *)
Add(hist, h, i, src, v) ==
  LET n == Upto(hist, h, i)
      unchanged == n > 0 /\ hist[n].params = v
  IN IF unchanged
     THEN hist
     ELSE [j \in 1 .. Len(hist) + 1 |->
             IF j <= n THEN hist[j]
             ELSE IF j = n + 1 THEN EntryAt(h, i, v, src)
             ELSE hist[j - 1]]

NewParamHistory(start, v) == <<EntryAt(start, -1, v, "seed")>>

(* A tx event takes effect strictly after its tx; an end-of-block event from *)
(* the next block.                                                         *)
AddTxEvent(hist, h, i, v) == Add(hist, h, i + 1, "event", v)
AddFinalizeEvent(hist, h, v) == Add(hist, h + 1, -1, "finalize", v)

(* Mutant: the changes between the promise and the settlement are forgotten. *)
CandidatesAtTheEnds(hist, promise, settle, tx) ==
  {At(hist, settle, tx), At(hist, promise - 1, EndOfBlock), At(hist, promise, EndOfBlock)} \ {NoEntry}

(* The entries whose params the server may have read: in force at the end of *)
(* the block before the promise, at the end of the promise's block, or     *)
(* anywhere from there to the settlement tx.                               *)
Candidates(hist, promise, settle, tx) ==
  ({At(hist, settle, tx), At(hist, promise - 1, EndOfBlock), At(hist, promise, EndOfBlock)} \ {NoEntry})
    \cup {e \in Range(hist) : /\ ~KeyLess(e.height, e.tx, promise, EndOfBlock)
                              /\ ~KeyLess(settle, tx, e.height, e.tx)}

(* Whether the history reaches back to the settlement at all. *)
Reaches(hist, settle, tx) == At(hist, settle, tx) # NoEntry

(* The earliest deadline any candidate gives. *)
MustServeUntil(hist, promise, settle, tx) ==
  Min({Window(e.params) : e \in Candidates(hist, promise, settle, tx)})

(* A copy of a history with every value a verified range proved put in at  *)
(* the first block it was seen at.                                         *)
ResolvedHistory(base, values) ==
  LET upTo[n \in 0 .. Len(values)] ==
        IF n = 0 THEN base ELSE Add(upTo[n - 1], values[n].height, -1, "verified", values[n].params)
  IN  upTo[Len(values)]

(* Mutant: the comparison is the wrong way round. *)
LaterDeadline(recorded, recomputed) ==
  IF recorded < recomputed THEN recomputed ELSE recorded

(* A verified range never moves a deadline later. *)
CorrectedDeadline(recorded, recomputed) ==
  IF recomputed < recorded THEN recomputed ELSE recorded

(* Whether an upload between the block before the promise and the          *)
(* settlement could have fallen in the range of heights from..to.          *)
Covers(from, to, promise, settle) == promise - 1 <= to /\ settle >= from
=============================================================================
