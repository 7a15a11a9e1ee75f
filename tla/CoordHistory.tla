---------------------------- MODULE CoordHistory ----------------------------
(***************************************************************************)
(* What a finger's coordinate buffer promises: the last Size coordinates   *)
(* recorded since the finger went down, oldest first.                      *)
(***************************************************************************)
EXTENDS Integers, Sequences

CONSTANTS Size, Coords
VARIABLE hist

(* The coordinate c is recorded; in a full history it drives out the oldest.*)
Record(c) ==
  hist' = Append(IF Len(hist) = Size THEN Tail(hist) ELSE hist, c)

Reset == hist' = <<>>

Init == hist = <<>>
Next == Reset \/ \E c \in Coords : Record(c)
Spec == Init /\ [][Next]_hist
=============================================================================
