--------------------------- MODULE FingerTracking ---------------------------
(***************************************************************************)
(* The finger tracking of touchpanel_gestures.c as operators.  The panel   *)
(* reports contacts without identity; gesture_state_machine decides which  *)
(* known finger each contact is, and emits the events of every finger.     *)
(*                                                                         *)
(* A finger is [id, last, weight, down]: its identity, the newest entry of *)
(* its coordinate buffer (see CoordBuffer), lastWeight, and whether it has *)
(* left START_STATE.  A contact is [at, weight].  A tracker is             *)
(* [live, pool, nextId]: sFingers in list order, the number of finger      *)
(* buffers in availableFingers, and curFingerId.  Between two updates      *)
(* every live finger has minDist = INT_MAX.                                *)
(***************************************************************************)
EXTENDS Integers, SequencesExt

CONSTANTS INT_MAX,              (* a distance no two positions have        *)
          FingerDownThreshold   (* fingerDownThreshold of the settings     *)

ASSUME IntMaxAssumption == INT_MAX \in Nat \ {0}
ASSUME ThresholdAssumption == FingerDownThreshold \in Nat

NoContact == 0
Nowhere   == <<0, 0>>           \* also marks a contact already taken

Dist(p, q) == (p[1] - q[1]) * (p[1] - q[1]) + (p[2] - q[2]) * (p[2] - q[2])

(* Mutant: the first finger within reach rather than the closest.          *)
MBestFinger(m, live, at) ==
  LET near == {f \in DOMAIN live : Dist(at, live[f].last) <= m[f].dist} IN
  {f \in near : \A g \in near : f <= g}

(* The fingers a contact may take are those no earlier contact is closer   *)
(* to; it takes the closest of them, the first in the list on a tie.       *)
BestFinger(m, live, at) ==
  LET near == {f \in DOMAIN live : Dist(at, live[f].last) <= m[f].dist}
      d(f) == Dist(at, live[f].last)
  IN {f \in near : /\ d(f) < INT_MAX
                   /\ \A g \in near : d(f) < d(g) \/ (d(f) = d(g) /\ f <= g)}

(* minDist and minDistId of every finger once each contact has chosen.  A  *)
(* contact whose finger is taken away by a later one does not choose again.*)
Matching(live, contacts) ==
  LET m[j \in 0 .. Len(contacts)] ==
        IF j = 0 THEN [f \in DOMAIN live |-> [dist |-> INT_MAX, contact |-> NoContact]]
        ELSE [f \in DOMAIN live |->
                IF f \in BestFinger(m[j - 1], live, contacts[j].at)
                THEN [dist |-> Dist(contacts[j].at, live[f].last), contact |-> j]
                ELSE m[j - 1][f]]
  IN  m[Len(contacts)]

(* A matched finger takes the contact's coordinates, unless the contact has*)
(* lost half its weight, and always its weight.                            *)
Moved(finger, c) ==
  [finger EXCEPT !.last   = IF finger.weight \div 2 < c.weight THEN c.at ELSE @,
                 !.weight = c.weight]

Refreshed(live, contacts, m) ==
  [f \in DOMAIN live |->
     IF m[f].contact = NoContact THEN live[f]
     ELSE Moved(live[f], contacts[m[f].contact])]

(* The numbers from 1 to n that are in S, in their order.                  *)
Ascending(S, n) ==
  LET up[i \in 0 .. n] ==
        IF i = 0 THEN <<>> ELSE IF i \in S THEN Append(up[i - 1], i) ELSE up[i - 1]
  IN  up[n]

(* The contacts that become new fingers: not matched (a matched contact is *)
(* zeroed), not at the origin, not too light.                              *)
NewContacts(live, contacts, m) ==
  LET new   == {j \in DOMAIN contacts : /\ \A f \in DOMAIN live : m[f].contact # j
                                        /\ contacts[j].at # Nowhere
                                        /\ contacts[j].weight >= FingerDownThreshold}
      order == Ascending(new, Len(contacts))
  IN  [k \in DOMAIN order |-> contacts[order[k]]]

(* Mutant: curFingerId is not incremented within an update.                *)
MNewFingers(t, new) ==
  Reverse([i \in 1..(IF Len(new) < t.pool THEN Len(new) ELSE t.pool) |->
             [id |-> t.nextId, last |-> new[i].at,
              weight |-> new[i].weight, down |-> FALSE]])

(* add_new_finger for each: while there are buffers, with the next id, in  *)
(* front of the list.                                                      *)
NewFingers(t, new) ==
  Reverse([i \in 1..(IF Len(new) < t.pool THEN Len(new) ELSE t.pool) |->
             [id |-> t.nextId + i - 1, last |-> new[i].at,
              weight |-> new[i].weight, down |-> FALSE]])

(* Mutant: a lost finger gets its last coordinates but no BTN_TOUCH 0.     *)
MEventsOf(finger, lost) ==
  <<[type |-> "FINGERID", id |-> finger.id]>>
  \o (IF finger.down THEN <<>> ELSE <<[type |-> "KEY", value |-> 1]>>)
  \o <<[type |-> "ABS", at |-> finger.last]>>

(* gesture_state_machine_finger: the entries it appends for one finger.    *)
(* The ABS_X and ABS_Y entries are kept together.                          *)
EventsOf(finger, lost) ==
  <<[type |-> "FINGERID", id |-> finger.id]>>
  \o (IF finger.down THEN <<>> ELSE <<[type |-> "KEY", value |-> 1]>>)
  \o <<[type |-> "ABS", at |-> finger.last]>>
  \o (IF lost THEN <<[type |-> "KEY", value |-> 0]>> ELSE <<>>)

SYN == [type |-> "SYN"]

(* gesture_state_machine once the contacts are matched: new fingers come   *)
(* first, each finger appends its entries, and those no contact was found  *)
(* for go back to the pool.                                                *)
Updated(t, new, refreshed, m) ==
  LET fingers == new \o refreshed
      lost(i) == i > Len(new) /\ m[i - Len(new)].contact = NoContact
      kept    == Ascending({i \in DOMAIN fingers : ~lost(i)}, Len(fingers))
  IN [tracker |-> [live   |-> [k \in DOMAIN kept |->
                                 [fingers[kept[k]] EXCEPT !.down = TRUE]],
                   pool   |-> t.pool - Len(new) + (Len(fingers) - Len(kept)),
                   nextId |-> t.nextId + Len(new)],
      events  |-> FlattenSeq([i \in DOMAIN fingers |-> EventsOf(fingers[i], lost(i))])
                  \o (IF fingers = <<>> THEN <<>> ELSE <<SYN>>)]

Matched(t, contacts, m) ==
  Updated(t, NewFingers(t, NewContacts(t.live, contacts, m)),
          Refreshed(t.live, contacts, m), m)

(* gesture_state_machine: the tracker after an update, and its events.     *)
Track(t, contacts) == Matched(t, contacts, Matching(t.live, contacts))

(* Mutant: one buffer per finger.                                          *)
MInitTracker(t, maxFingers) == [t EXCEPT !.pool = @ + maxFingers]

(* init_gesture_state_machine adds two buffers per finger to the pool;     *)
(* curFingerId and sFingers are left as they are.                          *)
InitTracker(t, maxFingers) == [t EXCEPT !.pool = @ + 2 * maxFingers]

NoTracker == [live |-> <<>>, pool |-> 0, nextId |-> 0]

Ids(live) == {live[f].id : f \in DOMAIN live}

(* What the events of one update tell a reader that knew the fingers       *)
(* "known" to be down: entry i belongs to the last FINGERID before it.     *)
FingerAt(events, i) ==
  LET heads == {k \in 1..i : events[k].type = "FINGERID"}
  IN events[Max(heads)].id

KeyIds(events, value) ==
  {FingerAt(events, i) : i \in {k \in DOMAIN events :
       events[k].type = "KEY" /\ events[k].value = value}}

Told(known, events) == (known \cup KeyIds(events, 1)) \ KeyIds(events, 0)
=============================================================================
