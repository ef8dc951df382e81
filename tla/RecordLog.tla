----------------------------- MODULE RecordLog -----------------------------
(***************************************************************************)
(* What a record file promises: one log that only grows at its end, and a  *)
(* reader that takes its lines in order, storing each that can be decoded  *)
(* (a positive number), and falls back to a position it had before when it *)
(* is started again.                                                       *)
(***************************************************************************)
EXTENDS Integers, Sequences

VARIABLES log, pos, got

Init == log = <<>> /\ pos = 0 /\ got = {}

Grow ==
  /\ Len(log') = Len(log) + 1 /\ SubSeq(log', 1, Len(log)) = log
  /\ UNCHANGED <<pos, got>>

Take ==
  /\ pos < Len(log)
  /\ pos' = pos + 1
  /\ got' = got \cup {line \in {log[pos + 1]} : line > 0}
  /\ UNCHANGED log

Resume == pos' \in 0 .. pos /\ UNCHANGED <<log, got>>

Next == Grow \/ Take \/ Resume

Spec == Init /\ [][Next]_<<log, pos, got>>
=============================================================================
