------------------------------ MODULE KeyQueue ------------------------------
(***************************************************************************)
(* What the Keys module promises its clients: the keys pressed and released*)
(* while it is open, each once, in the order they happened.  They are told *)
(* in that order to whoever asks; what is dropped is always the newest.    *)
(***************************************************************************)
EXTENDS Integers, Sequences

CONSTANTS
  Reports,             (* what may be told of a key                         *)
  Room                 (* as many can wait before any is dropped            *)

VARIABLES
  waiting,             (* what has happened and was not told yet            *)
  told                 (* what the last report said; <<>> when there is none*)

Init == waiting = <<>> /\ told = <<>>

Happen ==
  /\ \E report \in Reports : waiting' = Append(waiting, report)
  /\ UNCHANGED told

Tell ==
  /\ waiting # <<>>
  /\ told' = <<Head(waiting)>> /\ waiting' = Tail(waiting)

(* The device is opened, or closed: what was not fetched is forgotten.     *)
Forget ==
  /\ \E n \in 0 .. Len(waiting) : waiting' = SubSeq(waiting, 1, n)
  /\ told' = <<>>

(* Something happens that there is no room for: what was not fetched is    *)
(* dropped, and what happens last may be, too.                             *)
Drop ==
  /\ Len(waiting) >= Room
  /\ \E n \in 0 .. Len(waiting) :
       \/ waiting' = SubSeq(waiting, 1, n)
       \/ \E report \in Reports :
            waiting' = Append(SubSeq(waiting, 1, n), report)
  /\ UNCHANGED told

Next == Happen \/ Tell \/ Forget \/ Drop

Spec == Init /\ [][Next]_<<waiting, told>>
=============================================================================
