--------------------------- MODULE FingerProtocol ---------------------------
(***************************************************************************)
(* What the touch panel promises its reader: at most MaxFingers fingers are*)
(* down at once; a finger goes down once, with an identity never used      *)
(* before, and comes up once.                                              *)
(***************************************************************************)
EXTENDS Integers, FiniteSets

CONSTANT MaxFingers
VARIABLES down,      (* the fingers that are down                          *)
          next       (* no identity from here on was ever used             *)

Init == down = {} /\ next = 0

(* One event: some fingers come up, some new ones go down.                 *)
Touch ==
  \E up \in SUBSET down, n \in 0..MaxFingers :
    /\ down' = (down \ up) \cup (next .. next + n - 1)
    /\ next' = next + n
    /\ Cardinality(down') <= MaxFingers

Spec == Init /\ [][Touch]_<<down, next>>
=============================================================================
