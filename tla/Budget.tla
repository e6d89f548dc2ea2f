-------------------------------- MODULE Budget --------------------------------
(***************************************************************************)
(* A number that bounds the steps an exploration still has.  `jumps' are   *)
(* the jumps that loopLimitation still allows, each counted once for each  *)
(* time it may be made; `ahead' are the labels, out of `labels', that can  *)
(* be reached by falling through until the next jump; `frame' (at most 2)  *)
(* is what is left of the frame at the current label.                      *)
(***************************************************************************)
EXTENDS Integers, FiniteSets

Budget(jumps, labels, ahead, frame) ==
    Cardinality(jumps) * (3 * Cardinality(labels)) + 3 * Cardinality(ahead) + frame

=============================================================================
