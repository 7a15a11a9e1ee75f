--------------------------- MODULE GestureTracker ---------------------------
(***************************************************************************)
(* touchpanel_gestures.c as a component: its three entry points            *)
(* init_gesture_state_machine, gesture_state_machine and                   *)
(* deinit_gesture_state_machine, and the reader of the events it emits.    *)
(***************************************************************************)
EXTENDS FingerTracking

CONSTANTS MaxContacts,   (* the maxFingers given to init                   *)
          Positions,     (* where contacts are                             *)
          Weights,       (* how heavy they are                             *)
          MaxIds         (* bound on the identities given out              *)

ASSUME TrackerAssumption == MaxContacts \in Nat \ {0} /\ MaxIds \in Nat
ASSUME ContactAssumption == Positions \subseteq Int \X Int /\ Weights \subseteq Nat

VARIABLES
  tracker,   (* sFingers, availableFingers and curFingerId                 *)
  ready,     (* TRUE between init and deinit                               *)
  told       (* history: the fingers the emitted events say are down       *)

trackerVars == <<tracker, ready, told>>

TrackerInit ==
  /\ tracker = NoTracker /\ ready = FALSE
  /\ told = {}

InitGestures ==
  /\ ~ready /\ ready' = TRUE
  /\ tracker' = InitTracker(tracker, MaxContacts)
  /\ UNCHANGED told

Contacts == UNION {[1..n -> [at : Positions, weight : Weights]] :
                     n \in 0..MaxContacts}

GestureStateMachine(cs) ==
  /\ ready /\ UNCHANGED ready
  /\ \E r \in {Track(tracker, cs)} :
       /\ r.tracker.nextId <= MaxIds
       /\ tracker' = r.tracker
       /\ told' = Told(told, r.events)

(* Mutant: the pool is not emptied.                                        *)
MDeinit ==
  /\ ready /\ tracker.live = <<>>
  /\ ready' = FALSE
  /\ UNCHANGED <<tracker, told>>

(* deinit frees every finger and empties the pool, but not sFingers: it may*)
(* only run when no finger is down (sFingers would dangle).                *)
Deinit ==
  /\ ready /\ tracker.live = <<>>
  /\ ready' = FALSE
  /\ tracker' = [tracker EXCEPT !.pool = 0]
  /\ UNCHANGED told

TrackerNext ==
  \/ InitGestures \/ Deinit
  \/ \E cs \in Contacts : GestureStateMachine(cs)

TrackerSpec == TrackerInit /\ [][TrackerNext]_trackerVars

-----------------------------------------------------------------------------
Finger == [id : 0..MaxIds, last : Positions, weight : Weights, down : {TRUE}]

(* The shapes of the tracker's state.                                      *)
TrackerTypeOK ==
  /\ tracker.live \in Seq(Finger)
  /\ tracker.pool \in 0..(2 * MaxContacts) /\ tracker.nextId \in 0..MaxIds
  /\ ready \in BOOLEAN /\ told \subseteq 0..MaxIds

(* Every buffer is in the pool or in sFingers, never in both or lost, and  *)
(* enough are free for a whole set of new fingers to arrive while the old  *)
(* ones are still in the list: add_new_finger never rejects a finger.      *)
PoolSuffices ==
  ready => /\ tracker.pool + Len(tracker.live) = 2 * MaxContacts
           /\ tracker.pool >= MaxContacts

(* The reader is told of exactly the fingers in sFingers: each had one     *)
(* BTN_TOUCH 1, none its BTN_TOUCH 0, and no two share an identity.        *)
ReaderAgrees ==
  /\ told = Ids(tracker.live)
  /\ Cardinality(told) = Len(tracker.live)

(* Fingers are not lost to each other: when the contacts are exactly the   *)
(* positions of the live fingers, all different and in any order, every    *)
(* finger keeps its contact, whatever the order in which contacts chose.   *)
Still(t, cs) ==
  /\ \A f, g \in DOMAIN t.live : t.live[f].last = t.live[g].last => f = g
  /\ \A i, j \in DOMAIN cs : cs[i].at = cs[j].at => i = j
  /\ {cs[j].at : j \in DOMAIN cs} = {t.live[f].last : f \in DOMAIN t.live}

StillFingersKept ==
  \A cs \in Contacts : ready /\ Still(tracker, cs) =>
    LET t == Track(tracker, cs).tracker IN
    /\ DOMAIN t.live = DOMAIN tracker.live
    /\ \A f \in DOMAIN t.live : /\ t.live[f].id = tracker.live[f].id
                               /\ t.live[f].last = tracker.live[f].last

(* The reader sees the finger protocol.                                    *)
TrackerProtocol ==
  INSTANCE FingerProtocol WITH MaxFingers <- MaxContacts, down <- told,
                               next <- tracker.nextId
TrackerImplementsProtocol == TrackerProtocol!Spec
=============================================================================
