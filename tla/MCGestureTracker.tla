-------------------------- MODULE MCGestureTracker --------------------------
(* Positions for GestureTracker: the origin, which the code treats as "no  *)
(* contact", two close points, and one far from them.                      *)
EXTENDS GestureTracker
Corners == {<<0, 0>>, <<0, 1>>, <<1, 1>>, <<3, 0>>}
=============================================================================
