-------------------------- MODULE MCProfileRegistry --------------------------
(* One profile with two reason codes that may be added and another file that *)
(* may be replaced.                                                          *)
EXTENDS ProfileRegistry, TLC

CONSTANTS c1, c2, x, y, t1, t2

MCSeed == [codes |-> {}, other |-> x]

MCSymmetry == Permutations({t1, t2})
=============================================================================
