--------------------------- MODULE MCFpuAccuracy ---------------------------
(* Instances of FpuAccuracy for TLC. *)
EXTENDS FpuAccuracy

MCSigs == TopBit..(2^W - 1)
MCDiffs == 0..(W + 3)
MCExps == {EXP_UNDER - 3, EXP_UNDER, EXP_UNDER + 1, 0, EXP_OVER - 1}
M(rc, pc, sign) == [rc |-> rc, pc |-> pc, sign |-> sign]
MCModes == {M("RND", "64", 0), M("UP", "64", 0), M("DOWN", "53", 1), M("CHOP", "53", 0)}
=============================================================================
