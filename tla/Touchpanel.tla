----------------------------- MODULE Touchpanel -----------------------------
(***************************************************************************)
(* The emulator's touch panel, touchpanel.c on top of the finger tracking: *)
(* the kernel's queue of raw events, handle_new_event turning them into    *)
(* the entries of touchpanel_event_list, and touchpanel_get_event handing  *)
(* the entries to the client as one event at a time.  One call of          *)
(* touchpanel_get_event is one step; a client calls it when the descriptor *)
(* is readable, until it gets no event.                                    *)
(***************************************************************************)
EXTENDS FingerTracking

CONSTANTS RawValues,       (* raw coordinates the panel reports            *)
          Num, Den,        (* scaleX and scaleY: display over panel size   *)
          MaxFrames,       (* bound on the frames the kernel delivers      *)
          QueueSize        (* the kernel's buffer: it holds one event less *)

ASSUME ScaleAssumption == RawValues \subseteq Nat /\ Num \in Nat /\ Den \in Nat \ {0}
ASSUME PanelAssumption ==
  MaxFrames \in Nat /\ QueueSize \in Nat /\ QueueSize > 2

VARIABLES
  queue, frames, pressed,  (* kernel: raw events to read, frames so far,   *)
                           (* whether the button is held                   *)
  heard,       (* history: what the module last read of the button         *)
  opened,      (* the client has a device: open returned NONE              *)
  fd,          (* touchpanel_event_fd: "none", "open", or "stale", the     *)
               (* number of a descriptor already closed                    *)
  panel,       (* the statics of the module: cachedX and cachedY as at,    *)
               (* touchButtonState, the tracker, touchpanel_event_list as  *)
               (* the entries filled and the number read                   *)
  read_input,  (* static of touchpanel_get_event                           *)
  current,     (* current_event_ptr holds an (empty) event                 *)
  delivered,   (* the entries of the event the last call returned          *)
  reported,    (* history: the fingers the client knows to be down         *)
  releasedAt   (* history: where the pointer was at the last release       *)

kernel == <<queue, frames, pressed>>
device == <<opened, fd>>
call   == <<read_input, current, delivered, reported, releasedAt>>
vars   == <<kernel, device, panel, call, heard>>

Init ==
  /\ queue = <<>> /\ frames = 0 /\ pressed = 0 /\ heard = 0
  /\ opened = FALSE /\ fd = "none"
  /\ panel = [at |-> Nowhere, button |-> 0, tracker |-> NoTracker,
              list |-> <<>>, read |-> 0]
  /\ read_input = 0 /\ current = FALSE /\ delivered = <<>>
  /\ reported = {} /\ releasedAt = Nowhere

-----------------------------------------------------------------------------
(* The kernel queues a frame at once, ended by EV_SYN: coordinates, a      *)
(* change of the button, or the wheel.  While the device is closed, the    *)
(* frame is lost.  An event that would fill the buffer drops all others    *)
(* and leaves a SYN_DROPPED before itself, which is an EV_SYN too.         *)
Moves == {<<>>} \cup {<<[type |-> a, value |-> v]>> : a \in {"X", "Y"}, v \in RawValues}
         \cup {<<[type |-> "X", value |-> v], [type |-> "Y", value |-> w]>> :
                 v, w \in RawValues}

Push(q, ev) == IF Len(q) + 1 = QueueSize THEN <<SYN, ev>> ELSE Append(q, ev)

Pushed(q, evs) ==
  LET p[i \in 0 .. Len(evs)] == IF i = 0 THEN q ELSE Push(p[i - 1], evs[i])
  IN  p[Len(evs)]

Deliver(frame) ==
  /\ frames < MaxFrames /\ frames' = frames + 1
  /\ queue' = IF fd = "open" THEN Pushed(queue, Append(frame, SYN)) ELSE queue

Move ==
  /\ \E m \in Moves \ {<<>>} : Deliver(m)
  /\ UNCHANGED <<pressed, device, panel, call, heard>>

Button ==
  LET key == <<[type |-> "KEY", value |-> 1 - pressed]>> IN
  /\ \E m \in Moves : Deliver(m \o key) \/ Deliver(key \o m)
  /\ pressed' = 1 - pressed
  /\ UNCHANGED <<device, panel, call, heard>>

Wheel ==
  /\ Deliver(<<[type |-> "REL"]>>)
  /\ UNCHANGED <<pressed, device, panel, call, heard>>

-----------------------------------------------------------------------------
Scale(v) == (v * Num) \div Den        \* the cast truncates

(* The points of the display that an event can name.  No two of them are   *)
(* INT_MAX apart.                                                          *)
Screen == {Scale(v) : v \in RawValues \cup {0}} \X {Scale(v) : v \in RawValues \cup {0}}

ASSUME ScreenAssumption == \A p, q \in Screen : Dist(p, q) < INT_MAX

(* The panel with the tracker and the events of an update.                 *)
Filled(p, r) == [p EXCEPT !.tracker = r.tracker, !.list = r.events, !.read = 0]

(* Mutant: a contact of weight 0 instead of none.                          *)
MGenerateMouseGesture(p, touchButtonState) ==
  Filled(p, Track(p.tracker, <<[at |-> p.at, weight |-> touchButtonState]>>))

(* generate_mouse_gesture: one contact where the pointer is, or none.  The *)
(* list is filled from the start.                                          *)
GenerateMouseGesture(p, touchButtonState) ==
  Filled(p, Track(p.tracker, IF touchButtonState = 0 THEN <<>>
                             ELSE <<[at |-> p.at, weight |-> 1]>>))

(* Mutant: a release makes no gesture of its own.                         *)
MHandleNewEvent(p, ev) ==
  CASE ev.type = "X"   -> [p EXCEPT !.at[1] = Scale(ev.value)]
    [] ev.type = "Y"   -> [p EXCEPT !.at[2] = Scale(ev.value)]
    [] ev.type = "KEY" -> [p EXCEPT !.button = ev.value]
    [] ev.type = "SYN" -> GenerateMouseGesture(p, p.button)
    [] ev.type = "REL" -> [p EXCEPT !.list = <<ev, SYN>>, !.read = 0]

(* Mutant: a release makes both gestures at once.                          *)
MHandleNewEventAtOnce(p, ev) ==
  CASE ev.type = "X"   -> [p EXCEPT !.at[1] = Scale(ev.value)]
    [] ev.type = "Y"   -> [p EXCEPT !.at[2] = Scale(ev.value)]
    [] ev.type = "KEY" -> LET q == [p EXCEPT !.button = ev.value] IN
                          IF ev.value = 0
                          THEN GenerateMouseGesture(GenerateMouseGesture(q, 1), 0)
                          ELSE q
    [] ev.type = "SYN" -> GenerateMouseGesture(p, p.button)
    [] ev.type = "REL" -> [p EXCEPT !.list = <<ev, SYN>>, !.read = 0]

(* handle_new_event.  A release first makes a gesture of its own at the    *)
(* release point; the frame's EV_SYN then makes the one without contact.   *)
HandleNewEvent(p, ev) ==
  CASE ev.type = "X"   -> [p EXCEPT !.at[1] = Scale(ev.value)]
    [] ev.type = "Y"   -> [p EXCEPT !.at[2] = Scale(ev.value)]
    [] ev.type = "KEY" -> LET q == [p EXCEPT !.button = ev.value] IN
                          IF ev.value = 0 THEN GenerateMouseGesture(q, 1) ELSE q
    [] ev.type = "SYN" -> GenerateMouseGesture(p, p.button)
    [] ev.type = "REL" -> [p EXCEPT !.list = <<ev, SYN>>, !.read = 0]

(* touchpanel_get_event after the bookkeeping: the unread entries up to    *)
(* the first EV_SYN are the event; without one it stays held.              *)
SynAt(p) == {k \in (p.read + 1)..Len(p.list) : p.list[k].type = "SYN"}
End(p)   == IF SynAt(p) = {} THEN Len(p.list) ELSE Min(SynAt(p))

Event(p) == IF SynAt(p) = {} THEN <<>> ELSE SubSeq(p.list, p.read + 1, End(p))

Return(p) ==
  /\ panel' = [p EXCEPT !.read = End(p)]
  /\ read_input' = IF p.read = Len(p.list) THEN 0 ELSE 1
  /\ current' = (SynAt(p) = {})
  /\ delivered' = Event(p)
  /\ reported' = Told(reported, delivered')

GetEvent ==
  /\ opened
  /\ \/ /\ read_input = 0 /\ fd = "open" /\ queue # <<>>
        /\ queue' = Tail(queue)
        /\ Return(HandleNewEvent(panel, Head(queue)))
        /\ releasedAt' = IF Head(queue).type = "KEY" /\ Head(queue).value = 0
                         THEN panel.at ELSE releasedAt
        /\ heard' = IF Head(queue).type = "KEY" THEN Head(queue).value ELSE heard
     \/ /\ read_input = 1 \/ fd # "open" \/ queue = <<>>
        /\ Return(panel)
        /\ UNCHANGED <<queue, releasedAt, heard>>
  /\ UNCHANGED <<frames, pressed, device>>

-----------------------------------------------------------------------------
(* nyx_module_open with init_touchpanel.  A failure before the tracker is  *)
(* set up is reported (the descriptor's number stays behind).  When only   *)
(* the display size is missing, init_touchpanel closes the descriptor and  *)
(* returns the 0 of its last ioctl: open returns NONE.                     *)
Opened(p) == [p EXCEPT !.tracker = InitTracker(@, 1)]

Open ==
  /\ ~opened
  /\ \/ /\ opened' = TRUE /\ fd' = "open" /\ panel' = Opened(panel)
     \/ /\ opened' = TRUE /\ fd' = "stale" /\ panel' = Opened(panel)
     \/ opened' = FALSE /\ fd' \in {"none", "stale"} /\ UNCHANGED panel
  /\ current' = FALSE
  /\ UNCHANGED <<kernel, read_input, delivered, reported, releasedAt, heard>>

(* Mutant: the finger buffers stay in the pool.                            *)
MClose ==
  /\ opened /\ panel.tracker.live = <<>>
  /\ opened' = FALSE /\ fd' = "none" /\ queue' = <<>>
  /\ panel' = [panel EXCEPT !.tracker.pool = @]
  /\ current' = FALSE
  /\ UNCHANGED <<frames, pressed, read_input, delivered, reported, releasedAt, heard>>

(* nyx_module_close.  The statics stay as they are, touchButtonState too.  *)
(* The code has no such guard, but sFingers would dangle: clients must not *)
(* close while a finger is down.                                           *)
Close ==
  /\ opened /\ panel.tracker.live = <<>>
  /\ opened' = FALSE /\ fd' = "none" /\ queue' = <<>>
  /\ panel' = [panel EXCEPT !.tracker.pool = 0]
  /\ current' = FALSE
  /\ UNCHANGED <<frames, pressed, read_input, delivered, reported, releasedAt, heard>>

Next == Move \/ Button \/ Wheel \/ GetEvent \/ Open \/ Close

Spec == Init /\ [][Next]_vars

(* A client keeps calling touchpanel_get_event while the descriptor is     *)
(* readable: weak fairness of GetEvent, which is enabled whenever the      *)
(* device is open, while there is something to read.                       *)
FairSpec ==
  Spec /\ ([]<>(~opened \/ queue = <<>>) \/ []<><<GetEvent>>_vars)

-----------------------------------------------------------------------------
(* The shapes of the module's state.                                       *)
TypeOK ==
  /\ opened \in BOOLEAN /\ fd \in {"none", "open", "stale"}
  /\ panel.at \in Screen
  /\ panel.button \in {0, 1}
  /\ panel.read \in 0..Len(panel.list)
  /\ Len(panel.tracker.live) <= 1 /\ panel.tracker.pool \in 0..2
  /\ read_input \in {0, 1} /\ current \in BOOLEAN
  /\ pressed \in {0, 1} /\ heard \in {0, 1} /\ frames \in 0..MaxFrames

(* No entry is lost: between calls the list is entirely read, so filling   *)
(* it from the start overwrites nothing the client has yet to see, and the *)
(* client knows as down exactly the fingers the tracker holds.             *)
NothingLost ==
  /\ panel.read = Len(panel.list)
  /\ reported = Ids(panel.tracker.live)

(* The client sees the finger protocol with one finger: down once with an  *)
(* identity never used before, up once.                                    *)
Protocol == INSTANCE FingerProtocol
              WITH MaxFingers <- 1, down <- reported, next <- panel.tracker.nextId
ImplementsProtocol == Protocol!Spec

(* A finger comes up at the point where the button was released, also when *)
(* the pointer moved in the very frame of the release.                     *)
ReleasedAtPoint ==
  [][\A i \in DOMAIN delivered' :
       delivered' # delivered /\ delivered'[i].type = "KEY" /\ delivered'[i].value = 0
       => delivered'[i - 1].at = releasedAt]_vars

(* A button that stays released is seen released by the client, provided   *)
(* the device stays open, unless the newest change of the button reached   *)
(* neither the module nor its queue: it was dropped by an overflow or by a *)
(* close, or made while the device was closed.                             *)
Missed ==
  LET keys == {i \in DOMAIN queue : queue[i].type = "KEY"}
  IN  pressed # IF keys = {} THEN heard ELSE queue[Max(keys)].value

ReleaseReported ==
  <>[](pressed = 0 /\ fd = "open" /\ ~Missed) => <>[](reported = {})
=============================================================================
