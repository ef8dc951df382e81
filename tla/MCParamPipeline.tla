-------------------------- MODULE MCParamPipeline --------------------------
(* ParamPipeline on a short chain. *)
EXTENDS ParamPipeline

Short == [timeout |-> 1, retention |-> 0]
Mid == [timeout |-> 1, retention |-> 2]
Long == [timeout |-> 3, retention |-> 2]

TwoValues == {Short, Long}
ThreeValues == {Short, Mid, Long}

(* The params dip and half recover before a check, and a publication       *)
(* settles in the block after it.                                          *)
Dip ==
  /\ chain[1].params = Long
  /\ Len(chain) >= 3 => chain[3] = [change |-> "silent", params |-> Short, pubs |-> {}]
  /\ Len(chain) >= 4 => chain[4] = [change |-> "silent", params |-> Mid, pubs |-> {}]
  /\ Len(chain) >= 5 => chain[5].change = "none"
=============================================================================
