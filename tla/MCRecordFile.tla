---------------------------- MODULE MCRecordFile ----------------------------
(* TLC instances of RecordFile: which faults its runs allow. *)
EXTENDS RecordFile

EveryFault == {"writer", "archive", "tail", "short", "store"}
=============================================================================
