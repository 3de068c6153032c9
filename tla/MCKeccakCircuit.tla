--------------------------- MODULE MCKeccakCircuit ---------------------------
(* Bounds for TLC: MAYO2's 64 nibbles, an empty message and the longest one
   with scattered bits, so that the padding meets both ends of the block; a
   flip in the first, a middle and the last group. *)
EXTENDS KeccakCircuit

MCMessages ==
  {[bytes |-> 0, bits |-> {}],
   [bytes |-> 135, bits |-> {i \in 0 .. 1079 : (i * i + i \div 7) % 11 < 5}]}
MCFlips == {<<1, 0>>, <<4, 777>>, <<6, 1599>>}
=============================================================================
