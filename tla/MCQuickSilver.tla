---------------------------- MODULE MCQuickSilver ----------------------------
(* Bounds for TLC.  The tag field is GF(4), as {0, 1, 6, 7} inside GF(16): the
   smallest field in which a polynomial of degree three cannot vanish
   everywhere.  Circuits read one or two witness bits. *)
EXTENDS QuickSilver

CONSTANT Lanes
G == INSTANCE GF16
GFPlus(x, y) == G!AddTable[x][y]
GFTimes(x, y) == G!MulTable[x][y]

MCVoles == {<<[u |-> 1, tag |-> 6]>>, <<[u |-> 1, tag |-> 6], [u |-> 0, tag |-> 7]>>}
MCWitnesses == {<<1>>, <<0, 1>>}
MCScalars == {6}
MCCoefficients == {<<1, 1>>, <<7, 0>>}
MCStreams == {<<6, 1, 7, 7, 1, 6>>}
MCMasks == {<<[value |-> 7, tag |-> 6], [value |-> 6, tag |-> 1], [value |-> 6, tag |-> 7]>>}
MCForgeries == {<<0, 0>>, <<6, 1>>}
=============================================================================
