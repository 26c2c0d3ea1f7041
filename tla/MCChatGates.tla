---------------------------- MODULE MCChatGates ----------------------------
(* Instances of ChatGates for TLC.                                          *)
EXTENDS ChatGates, TLC

CONSTANTS c1, c2, c3

Batches == {<<1, 2>>, <<2, 1>>}
Symmetry == Permutations({c1, c2})

OpsMeeting == [c \in Calls |-> IF c = c3 THEN {"delete"} ELSE {"withdraw", "batch"}]
OpsReturn ==
  [c \in Calls |-> CASE c = c1 -> {"create", "batch"}
                     [] c = c2 -> {"batch", "cleanup"}
                     [] OTHER  -> {"clear", "cleanup"}]
=============================================================================
