-------------------------- MODULE MCOrderExecution --------------------------
(* Instances of OrderExecution for TLC: quantities in lots, a long and a     *)
(* short goal besides flat, orders of one lot either way.                    *)
EXTENDS OrderExecution

CONSTANTS t1, t2, r1, s1, s2

MCTargets == {-1, 0, 1}
MCFixed == {-1, 1}
ShortFlat == {-1, 0}
=============================================================================
