-------------------------------- MODULE MCMap --------------------------------
(***************************************************************************)
(* Five keys, three of which hash to the same slot and two behind it, at   *)
(* the end of the smallest tables, so that probes wrap around: three at    *)
(* the last word too.                                                      *)
(***************************************************************************)
EXTENDS BaseMap

FiveKeys == 1 .. 5
TwoVals  == {10, 20}
Colliding == [k \in FiveKeys |-> IF k <= 3 THEN 15 ELSE IF k = 4 THEN 0 ELSE 11]
SmallCaps == {1, 2, 4}
=============================================================================
