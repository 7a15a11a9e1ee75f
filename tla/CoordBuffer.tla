----------------------------- MODULE CoordBuffer -----------------------------
(***************************************************************************)
(* The coordinate buffer of a finger (coord_buf_t, touchpanel_gestures.c): *)
(* a ring written by update_coord_buffer and read by get_last_coords.  One *)
(* axis is modelled; x and y go through the same code side by side.        *)
(***************************************************************************)
EXTENDS Integers, Sequences

CONSTANTS size,            (* coordBufSize                                 *)
          Coords,          (* the coordinates the panel reports            *)
          positionFilter   (* of the settings: nudge towards the last one  *)

ASSUME SizeAssumption == size \in Nat \ {0}
ASSUME CoordsAssumption == Coords \subseteq Int
ASSUME FilterAssumption == positionFilter \in BOOLEAN

VARIABLES pCoords, head, tail, numItems,
          last             (* history: the coordinate recorded last        *)

ring == <<pCoords, head, tail, numItems>>
vars == <<ring, last>>

Index == 0 .. size - 1

(* create_coord_buffer: malloc leaves the array as it is.                  *)
Init ==
  /\ pCoords \in [Index -> Coords]
  /\ head = 0 /\ tail = 0 /\ numItems = 0
  /\ last \in Coords

(* reset_coord_buffer                                                      *)
Reset ==
  /\ head' = 0 /\ tail' = 0 /\ numItems' = 0
  /\ UNCHANGED <<pCoords, last>>

(* Mutant: the entry after the tail, as after its increment.               *)
MPrev == tail

(* The entry before the one being written.                                 *)
Prev == IF tail # 0 THEN tail - 1 ELSE size - 1

(* One step towards the previous coordinate.                               *)
Steadied(c) ==
  IF positionFilter /\ numItems # 0
  THEN IF c < pCoords[Prev] THEN c + 1
       ELSE IF c > pCoords[Prev] THEN c - 1 ELSE c
  ELSE c

(* Mutant: a full buffer keeps its head.                                   *)
MNextHead == head

NextHead ==
  IF head = tail /\ numItems = size THEN (head + 1) % size ELSE head

(* update_coord_buffer                                                     *)
Update(c) ==
  /\ head' = NextHead
  /\ pCoords' = [pCoords EXCEPT ![tail] = Steadied(c)]
  /\ last' = Steadied(c)
  /\ numItems' = IF numItems < size THEN numItems + 1 ELSE numItems
  /\ tail' = (tail + 1) % size

Next == Reset \/ \E c \in Coords : Update(c)

Spec == Init /\ [][Next]_vars

(* get_last_coords (only ever called on a buffer that is not empty).       *)
LastIndex == (head + numItems - 1) % size

-----------------------------------------------------------------------------
(* The ring's shape: its items are numItems entries from head on, and the  *)
(* test head = tail /\ numItems = size means exactly "full".               *)
RingOK ==
  /\ head \in Index /\ tail \in Index /\ numItems \in 0..size
  /\ pCoords \in [Index -> Int] /\ last \in Int
  /\ numItems < size => head = 0 /\ tail = numItems
  /\ numItems = size => head = tail

(* get_last_coords, which goes by head and numItems, returns what was      *)
(* recorded last, and the filter, which goes by tail, nudges towards it.   *)
LastIsNewest ==
  numItems # 0 => pCoords[LastIndex] = last /\ pCoords[Prev] = last

(* The ring's contents, oldest first, are the history of the finger.       *)
Contents == [k \in 1..numItems |-> pCoords[(head + k - 1) % size]]
History == INSTANCE CoordHistory WITH Size <- size, Coords <- Int, hist <- Contents
ImplementsHistory ==
  History!Init /\ [][History!Reset \/ History!Record(last')]_Contents
=============================================================================
