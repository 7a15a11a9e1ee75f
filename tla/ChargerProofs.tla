--------------------------- MODULE ChargerProofs ---------------------------
(***************************************************************************)
(* Proofs about the Charger module, for every set of chargers and levels   *)
(* of the battery and any number of uevents waiting.                       *)
(***************************************************************************)
EXTENDS Charger, TLAPS

(* No two opposite bits of the event, pair by pair.                        *)
NoOpposites(ev) ==
  /\ ~("CONNECTED" \in ev /\ "DISCONNECTED" \in ev)
  /\ ~("PRESENT" \in ev /\ "ABSENT" \in ev)
  /\ ~("COMPLETE" \in ev /\ "RESTART" \in ev)

LEMMA OppositePairs ==
  ASSUME NEW ev
  PROVE  NoOpposites(ev) <=>
           \A pair \in {{"CONNECTED", "DISCONNECTED"}, {"PRESENT", "ABSENT"},
                        {"COMPLETE", "RESTART"}} : ~(pair \subseteq ev)
  BY DEF NoOpposites

EventOK(ev) == ev \subseteq Events /\ NoOpposites(ev)

(* What the three tests of the event's bits set and leave alone.           *)
LEMMA ConnectedBitsFacts ==
  ASSUME NEW ev, EventOK(ev), NEW old \in BOOLEAN, NEW new \in BOOLEAN
  PROVE  /\ EventOK(ConnectedBits(ev, old, new))
         /\ old = new => ConnectedBits(ev, old, new) = ev
         /\ old # new => ("CONNECTED" \in ConnectedBits(ev, old, new) <=> new)
         /\ "PRESENT" \in ConnectedBits(ev, old, new) <=> "PRESENT" \in ev
<1> USE DEF EventOK, NoOpposites, Events
<1>1. CASE old = new
  <2>1. ConnectedBits(ev, old, new) = ev
    BY <1>1 DEF ConnectedBits
  <2> QED  BY <1>1, <2>1
<1>2. CASE new /\ ~old
  <2>1. ConnectedBits(ev, old, new) = (ev \ {"DISCONNECTED"}) \cup {"CONNECTED"}
    BY <1>2 DEF ConnectedBits
  <2> QED  BY <1>2, <2>1
<1>3. CASE old /\ ~new
  <2>1. ConnectedBits(ev, old, new) = (ev \ {"CONNECTED"}) \cup {"DISCONNECTED"}
    BY <1>3 DEF ConnectedBits
  <2> QED  BY <1>3, <2>1
<1> QED  BY <1>1, <1>2, <1>3

LEMMA PresentBitsFacts ==
  ASSUME NEW ev, EventOK(ev), NEW old \in BOOLEAN, NEW new \in BOOLEAN
  PROVE  /\ EventOK(PresentBits(ev, old, new))
         /\ old = new => PresentBits(ev, old, new) = ev
         /\ old # new => ("PRESENT" \in PresentBits(ev, old, new) <=> new)
         /\ "CONNECTED" \in PresentBits(ev, old, new) <=> "CONNECTED" \in ev
<1> USE DEF EventOK, NoOpposites, Events
<1>1. CASE old = new
  <2>1. PresentBits(ev, old, new) = ev
    BY <1>1 DEF PresentBits
  <2> QED  BY <1>1, <2>1
<1>2. CASE new /\ ~old
  <2>1. PresentBits(ev, old, new) = (ev \ {"ABSENT"}) \cup {"PRESENT"}
    BY <1>2 DEF PresentBits
  <2> QED  BY <1>2, <2>1
<1>3. CASE old /\ ~new
  <2>1. PresentBits(ev, old, new) = (ev \ {"PRESENT"}) \cup {"ABSENT"}
    BY <1>3 DEF PresentBits
  <2> QED  BY <1>3, <2>1
<1> QED  BY <1>1, <1>2, <1>3

LEMMA ChargeBitsFacts ==
  ASSUME NEW ev, EventOK(ev), NEW new
  PROVE  /\ EventOK(ChargeBits(ev, new))
         /\ "CONNECTED" \in ChargeBits(ev, new) <=> "CONNECTED" \in ev
         /\ "PRESENT" \in ChargeBits(ev, new) <=> "PRESENT" \in ev
<1> USE DEF EventOK, NoOpposites, Events
<1>1. CASE new = "Full"
  <2>1. ChargeBits(ev, new) = (ev \ {"RESTART"}) \cup {"COMPLETE"}
    BY <1>1 DEF ChargeBits
  <2> QED  BY <2>1
<1>2. CASE new # "Full"
  <2>1. ChargeBits(ev, new) = (ev \ {"COMPLETE"}) \cup {"RESTART"}
    BY <1>2 DEF ChargeBits
  <2> QED  BY <2>1
<1> QED  BY <1>1, <1>2

LEMMA StatusFacts ==
  /\ NoStatus \in Status /\ ~NoStatus.is_charging /\ NoStatus.connected = "none"
  /\ NoBatt \in Batt /\ ~NoBatt.present
  BY ChargerAssumption DEF NoStatus, NoBatt, Status, Batt
-----------------------------------------------------------------------------
(* The steps of _charger_read_status, whoever runs it.                     *)
Reading == {"usb", "ac", "any_usb", "any_ac", "any_other"}

(* The shapes of the state; who may be at which step; and what the locals  *)
(* of the handler hold where it does not run.                              *)
TInv ==
  /\ TypeOK
  /\ module # "open" => pc = "idle" /\ pending = 0
  /\ pc \in {"present", "status"} => caller \in {"init", "event"}
  /\ pc = "callbacks" => caller = "event"
  /\ pc = "state" => caller \in {"event", "callback"}
  /\ pc = "idle" => fire = {}
  /\ pc \in Reading /\ caller # "callback" => fire = {}

LEMMA TInvInit == Init => TInv
<1> SUFFICES ASSUME Init PROVE TInv
  OBVIOUS
<1>1. pending \in 0 .. MaxPending
  BY ChargerAssumption DEF Init
<1> QED  BY <1>1, StatusFacts DEF Init, TInv, TypeOK, Reading

LEMMA TypedEvent == TypeOK => EventOK(current_event)
  BY OppositePairs DEF TypeOK, EventOK

(* What each of the three reading steps does, with the shapes of what it   *)
(* leaves.                                                                 *)
LEMMA ConnectedRead ==
  ASSUME TypeOK, ReadConnected
  PROVE  /\ status' \in Status /\ status'.is_charging = status.is_charging
         /\ pc \in online => status'.connected = Name[pc]
         /\ pc \notin online => status' = status
         /\ pc' \in {"ac", "any_usb"}
<1>1. Name[pc] \in {"pc", "wall"}
  BY DEF ReadConnected, Name
<1>2. status \in Status
  BY DEF TypeOK
<1>3. CASE pc \in online
  <2>1. status' = [status EXCEPT !.connected = Name[pc]]
    BY <1>3 DEF ReadConnected
  <2> QED  BY <1>1, <1>2, <1>3, <2>1 DEF ReadConnected, Status
<1>4. CASE pc \notin online
  BY <1>2, <1>4 DEF ReadConnected
<1> QED  BY <1>3, <1>4

(* The three ways on from a read for is_charging: to the next file, or,    *)
(* done, for the handler or for a client.                                  *)
Found == File[pc] \in online

Onward ==
  /\ ~Found /\ pc # "any_other"
  /\ pc' = IF pc = "any_usb" THEN "any_ac" ELSE "any_other"
  /\ UNCHANGED <<status, current_event, fire, view, swallowed>>

FoundForHandler ==
  /\ Found \/ pc = "any_other"
  /\ status' = [status EXCEPT !.is_charging = Found]
  /\ caller \in {"init", "event"}
  /\ current_event' = ConnectedBits(current_event, prevCharging, Found)
  /\ fire' = FireOnCharger(prevCharging, Found)
  /\ swallowed' = (swallowed /\ prevCharging = Found)
  /\ pc' = "present"
  /\ UNCHANGED view

FoundForClient ==
  /\ Found \/ pc = "any_other"
  /\ status' = [status EXCEPT !.is_charging = Found]
  /\ caller \in {"client", "callback"}
  /\ view' = Seen(Found)
  /\ swallowed' = (Found # ("CONNECTED" \in current_event))
  /\ pc' = IF caller = "callback" THEN "state" ELSE "idle"
  /\ UNCHANGED <<current_event, fire>>

LEMMA ChargingRead ==
  ASSUME TypeOK, ReadCharging
  PROVE  /\ pc \in {"any_usb", "any_ac", "any_other"}
         /\ Onward \/ FoundForHandler \/ FoundForClient
         /\ UNCHANGED <<sysfs, module, caller, prevCharging, batt, prevBatt,
                        callbacks, seen, skipped>>
<1>1. pc \in {"any_usb", "any_ac", "any_other"}
  BY DEF ReadCharging, File
<1>2. CASE ~Found /\ pc # "any_other"
  BY <1>1, <1>2 DEF ReadCharging, Found, Onward
<1>3. CASE (Found \/ pc = "any_other") /\ caller \in {"init", "event"}
  BY <1>1, <1>3 DEF ReadCharging, Found, FoundForHandler
<1>4. CASE (Found \/ pc = "any_other") /\ caller \in {"client", "callback"}
  BY <1>1, <1>4 DEF ReadCharging, Found, FoundForClient
<1>5. caller \in {"init", "event", "client", "callback"}
  BY DEF TypeOK
<1>6. UNCHANGED <<sysfs, module, caller, prevCharging, batt, prevBatt,
                  callbacks, seen, skipped>>
  BY DEF ReadCharging
<1> QED  BY <1>1, <1>2, <1>3, <1>4, <1>5, <1>6

(* Done, the status has what was found; and so it keeps its shape.         *)
LEMMA FoundStatus ==
  ASSUME TypeOK, FoundForHandler \/ FoundForClient
  PROVE  /\ status' \in Status /\ Found \in BOOLEAN
         /\ status' = [connected |-> status.connected, is_charging |-> Found]
<1>1. Found \in BOOLEAN /\ status \in Status
  BY DEF Found, TypeOK
<1>2. status' = [status EXCEPT !.is_charging = Found]
  BY DEF FoundForHandler, FoundForClient
<1> QED  BY <1>1, <1>2 DEF Status

LEMMA PresentRead ==
  ASSUME TypeOK, ReadPresent
  PROVE  /\ batt' = [present |-> battery # "Unknown", status |-> batt.status]
         /\ batt' \in Batt
<1>1. batt \in Batt /\ (battery # "Unknown") \in BOOLEAN
  BY DEF TypeOK
<1>2. batt' = [batt EXCEPT !.present = battery # "Unknown"]
  BY DEF ReadPresent
<1> QED  BY <1>1, <1>2 DEF Batt

LEMMA BatteryRead ==
  ASSUME TypeOK, ReadStatus
  PROVE  /\ batt' = [present |-> batt.present, status |-> battery]
         /\ batt' = [batt EXCEPT !.status = battery]
         /\ batt' \in Batt /\ batt.present \in BOOLEAN /\ prevBatt.present \in BOOLEAN
<1>1. batt \in Batt /\ battery \in Levels /\ prevBatt \in Batt
  BY DEF TypeOK
<1>2. batt' = [batt EXCEPT !.status = battery]
  BY DEF ReadStatus
<1> QED  BY <1>1, <1>2 DEF Batt

LEMMA TypedReadStatus ==
  ASSUME TypeOK, ReadStatus
  PROVE  /\ EventOK(current_event') /\ skipped' \in BOOLEAN
         /\ pc' \in {"idle", "callbacks"} /\ prevBatt' \in Batt
         /\ fire' \subseteq {"status", "state"} /\ (pc' = "idle" => fire' = {})
         /\ pc' = "callbacks" => caller # "init"
<1> DEFINE ev == IF battery = "Full" THEN ChargeBits(current_event, "Full")
                 ELSE current_event
<1>1. EventOK(current_event) /\ EventOK(ev)
  BY TypedEvent, ChargeBitsFacts
<1>2. CASE caller = "init"
  <2>1. current_event' = PresentBits(ev, FALSE, batt.present)
    BY <1>2 DEF ReadStatus
  <2>2. EventOK(current_event')
    BY <1>1, <2>1, PresentBitsFacts, BatteryRead
  <2> QED  BY <1>2, <2>2, StatusFacts DEF ReadStatus, TypeOK
<1>3. CASE caller # "init"
  <2>1. EventOK(ChargeBits(current_event, battery))
    BY <1>1, ChargeBitsFacts
  <2>2. EventOK(PresentBits(current_event, prevBatt.present, batt.present))
    BY <1>1, PresentBitsFacts, BatteryRead
  <2>3. EventOK(current_event')
    BY <1>3, <2>1, <2>2 DEF ReadStatus
  <2>4. skipped' \in BOOLEAN
    <3>1. skipped' = IF prevBatt.present = batt.present THEN skipped
                     ELSE ChargeChanged(prevBatt.status, battery)
      BY <1>3, BatteryRead DEF ReadStatus, Skips
    <3>2. ChargeChanged(prevBatt.status, battery) \in BOOLEAN
      BY DEF ChargeChanged
    <3> QED  BY <3>1, <3>2, Zenon DEF TypeOK
  <2>5. fire' \subseteq {"status", "state"}
    BY <1>3 DEF ReadStatus, TypeOK
  <2> QED  BY <1>3, <2>3, <2>4, <2>5 DEF ReadStatus, TypeOK
<1> QED  BY <1>2, <1>3

LEMMA TInvStep == TInv /\ [Next]_vars => TInv'
<1> SUFFICES ASSUME TInv, [Next]_vars PROVE TInv'
  OBVIOUS
<1>0. TypeOK /\ EventOK(current_event)
  BY TypedEvent DEF TInv
<1> USE DEF TInv, TypeOK, Reading, sysfs, client
<1>1. CASE Change
  <2>1. pending' \in 0 .. MaxPending /\ (module # "open" => pending' = pending)
    BY <1>1, ChargerAssumption DEF Change
  <2>2. online' \subseteq Chargers /\ battery' \in Levels
    BY <1>1 DEF Change, Flip
  <2>3. UNCHANGED <<module, pc, caller, status, prevCharging, batt, prevBatt,
                    current_event, fire, client, swallowed, skipped>>
    BY <1>1 DEF Change
  <2> QED  BY <2>1, <2>2, <2>3
<1>2. CASE ReadConnected
  <2>1. status' \in Status /\ pc' \in {"ac", "any_usb"}
    BY <1>0, <1>2, ConnectedRead
  <2>2. pc \in {"usb", "ac"}
        /\ UNCHANGED <<sysfs, module, caller, prevCharging, batt, prevBatt,
                       current_event, fire, client, swallowed, skipped>>
    BY <1>2 DEF ReadConnected
  <2> QED  BY <2>1, <2>2
<1>3. CASE ReadCharging
  <2>0. /\ pc \in {"any_usb", "any_ac", "any_other"}
        /\ UNCHANGED <<sysfs, module, caller, prevCharging, batt, prevBatt,
                       callbacks, seen, skipped>>
    BY <1>0, <1>3, ChargingRead
  <2>1. CASE Onward
    BY <2>0, <2>1 DEF Onward
  <2>2. CASE FoundForHandler
    <3>1. status' \in Status /\ EventOK(current_event')
      BY <1>0, <2>2, FoundStatus, ConnectedBitsFacts DEF FoundForHandler
    <3>2. current_event' \subseteq Events
          /\ \A pair \in {{"CONNECTED", "DISCONNECTED"}, {"PRESENT", "ABSENT"},
                          {"COMPLETE", "RESTART"}} : ~(pair \subseteq current_event')
      BY <3>1, OppositePairs DEF EventOK
    <3>3. fire' \subseteq {"status", "state"} /\ swallowed' \in BOOLEAN
      BY <2>2 DEF FoundForHandler, FireOnCharger
    <3> QED  BY <2>0, <2>2, <3>1, <3>2, <3>3 DEF FoundForHandler
  <2>3. CASE FoundForClient
    <3>1. status' \in Status /\ Found \in BOOLEAN
      BY <1>0, <2>3, FoundStatus
    <3>2. view' \in BOOLEAN /\ swallowed' \in BOOLEAN
      BY <2>3, <3>1 DEF FoundForClient, Seen
    <3> QED  BY <2>0, <2>3, <3>1, <3>2 DEF FoundForClient
  <2> QED  BY <1>0, <1>3, <2>1, <2>2, <2>3, ChargingRead
<1>4. CASE ReadPresent
  <2>1. batt' \in Batt
    BY <1>0, <1>4, PresentRead
  <2> QED  BY <1>4, <2>1 DEF ReadPresent
<1>5. CASE ReadStatus
  <2>1. batt' \in Batt
    BY <1>0, <1>5, BatteryRead
  <2>2. current_event' \subseteq Events
        /\ \A pair \in {{"CONNECTED", "DISCONNECTED"}, {"PRESENT", "ABSENT"},
                        {"COMPLETE", "RESTART"}} : ~(pair \subseteq current_event')
    BY <1>0, <1>5, TypedReadStatus, OppositePairs DEF EventOK
  <2>3. pc = "status"
        /\ UNCHANGED <<sysfs, module, caller, status, prevCharging, client, swallowed>>
    BY <1>5 DEF ReadStatus
  <2>4. /\ skipped' \in BOOLEAN /\ pc' \in {"idle", "callbacks"} /\ prevBatt' \in Batt
        /\ fire' \subseteq {"status", "state"} /\ (pc' = "idle" => fire' = {})
        /\ pc' = "callbacks" => caller # "init"
    BY <1>0, <1>5, TypedReadStatus
  <2> QED  BY <2>1, <2>2, <2>3, <2>4
<1>6. CASE StatusCallback
  <2>1. UNCHANGED <<sysfs, module, prevCharging, batt, prevBatt, current_event,
                    fire, callbacks, seen, swallowed, skipped>>
    BY <1>6 DEF StatusCallback
  <2>2. \/ caller' = "callback" /\ pc' = "usb" /\ status' = NoStatus /\ UNCHANGED view
        \/ pc' = "state" /\ UNCHANGED <<caller, status>> /\ view' \in BOOLEAN
    BY <1>6 DEF StatusCallback, ReadStatusOf, Seen, Status
  <2>3. pc = "callbacks"
    BY <1>6 DEF StatusCallback
  <2> QED  BY <2>1, <2>2, <2>3, StatusFacts
<1>7. CASE StateCallback
  BY <1>7, StatusFacts DEF StateCallback
<1>8. CASE Open
  <2>1. \/ module' = "open" /\ caller' = "init" /\ pc' = "usb" /\ status' = NoStatus
        \/ module' = "failed" /\ UNCHANGED <<pc, caller, status>>
    BY <1>8 DEF Open, ReadStatusOf
  <2> QED  BY <1>8, <2>1, StatusFacts DEF Open
<1>9. CASE HandleEvent
  <2>1. pending' \in 0 .. MaxPending /\ prevCharging' \in BOOLEAN
    BY <1>9, ChargerAssumption DEF HandleEvent, Status
  <2> QED  BY <1>9, <2>1, StatusFacts DEF HandleEvent, ReadStatusOf
<1>10. CASE QueryStatus
  BY <1>10, StatusFacts DEF QueryStatus, ReadStatusOf
<1>11. ASSUME NEW cb \in {"status", "state"}, Register(cb) PROVE TInv'
  BY <1>11 DEF Register, Status
<1>12. CASE UNCHANGED vars
  BY <1>12 DEF vars
<1> QED
  BY <1>1, <1>2, <1>3, <1>4, <1>5, <1>6, <1>7, <1>8, <1>9, <1>10, <1>11, <1>12
  DEF Next, Module

(* The shapes of the module's state hold in every reachable state, and of  *)
(* two opposite bits of the event at most one is ever set.                 *)
THEOREM ChargerTypeCorrect == Spec => []TypeOK
<1>1. TInv => TypeOK
  BY DEF TInv
<1> QED  BY <1>1, TInvInit, TInvStep, PTL DEF Spec

-----------------------------------------------------------------------------
(* While no uevent waits, sysfs is as it was when the running handler was  *)
(* started: what a call has read so far is what sysfs has.                 *)
Quiet == module = "open" /\ pending = 0

StatusTruth == [connected |-> Connected(online), is_charging |-> online # {}]
BattTruth   == [present |-> battery # "Unknown", status |-> battery]

StatusRight ==
  /\ pc \in {"usb", "ac"} => status.connected = "none"
  /\ pc \in Reading => ~status.is_charging
  /\ Quiet => /\ pc = "ac" => "usb" \notin online
              /\ pc \in {"any_usb", "any_ac", "any_other"} =>
                   status.connected = Connected(online)
              /\ pc \in {"any_ac", "any_other"} => "usb" \notin online
              /\ pc = "any_other" => "ac" \notin online
              /\ pc \notin Reading => status = StatusTruth

BattRight ==
  Quiet => /\ pc = "status" => batt.present = BattTruth.present
           /\ \/ pc \in {"callbacks", "state", "idle"}
              \/ caller \in {"client", "callback"}
              => batt = BattTruth

CInv == TInv /\ StatusRight /\ BattRight

LEMMA CInvInit == Init => CInv
  BY TInvInit DEF Init, CInv, StatusRight, BattRight, Quiet, Reading

LEMMA OnlineChargers ==
  ASSUME TypeOK
  PROVE  /\ online # {} <=> "usb" \in online \/ "ac" \in online \/ "other" \in online
         /\ File["any_usb"] = "usb" /\ File["any_ac"] = "ac" /\ File["any_other"] = "other"
  BY ChargerAssumption DEF TypeOK, File

(* The last of the reads is done: the answer is that of all the chargers.  *)
LEMMA FoundTruth ==
  ASSUME CInv, ReadCharging, FoundForHandler \/ FoundForClient, Quiet
  PROVE  status' = StatusTruth /\ Found = (online # {})
<1>1. TypeOK /\ pc \in {"any_usb", "any_ac", "any_other"}
  BY ChargingRead DEF CInv, TInv
<1>2. Found <=> online # {}
  BY <1>1, OnlineChargers DEF CInv, StatusRight, Found, FoundForHandler, FoundForClient
<1>3. status.connected = Connected(online)
  BY <1>1 DEF CInv, StatusRight
<1>4. Found \in BOOLEAN /\ (online # {}) \in BOOLEAN
  BY DEF Found
<1>5. Found = (online # {})
  BY <1>2, <1>4
<1>6. status' = [connected |-> status.connected, is_charging |-> Found]
  BY <1>1, FoundStatus
<1> QED  BY <1>3, <1>5, <1>6 DEF StatusTruth

LEMMA CInvStep == CInv /\ [Next]_vars => CInv'
<1> SUFFICES ASSUME CInv, [Next]_vars PROVE CInv'
  OBVIOUS
<1>0. TypeOK /\ TInv /\ TInv'
  BY TInvStep DEF CInv, TInv
<1> USE DEF StatusRight, BattRight, Quiet, Reading, sysfs, client
<1>1. CASE Change
  <2>1. UNCHANGED <<module, pc, caller, status, batt>>
    BY <1>1 DEF Change
  <2>2. module = "open" => pending' > 0
    BY <1>0, <1>1, ChargerAssumption DEF Change, TypeOK
  <2>3. module # "open" => pc = "idle"
    BY <1>0 DEF TInv
  <2> QED  BY <1>0, <2>1, <2>2, <2>3 DEF CInv
<1>2. CASE ReadConnected
  <2>1. /\ status'.is_charging = status.is_charging
        /\ pc \in online => status'.connected = Name[pc]
        /\ pc \notin online => status' = status
    BY <1>0, <1>2, ConnectedRead
  <2>2. /\ UNCHANGED <<sysfs, module, caller, batt, BattTruth>> /\ pc \in {"usb", "ac"}
        /\ pc' = IF pc = "usb" /\ pc \notin online THEN "ac" ELSE "any_usb"
    BY <1>2 DEF ReadConnected, BattTruth
  <2>3. Name["usb"] = "pc" /\ Name["ac"] = "wall"
    BY DEF Name
  <2>4. StatusRight'
    <3>1. CASE pc \in online
      BY <2>1, <2>2, <2>3, <3>1 DEF CInv, Connected
    <3>2. CASE pc \notin online
      BY <2>1, <2>2, <3>2 DEF CInv, Connected
    <3> QED  BY <3>1, <3>2
  <2>5. BattRight'
    BY <2>2 DEF CInv
  <2> QED  BY <1>0, <2>4, <2>5 DEF CInv
<1>3. CASE ReadCharging
  <2>0. /\ pc \in {"any_usb", "any_ac", "any_other"}
        /\ UNCHANGED <<sysfs, module, caller, batt, BattTruth, StatusTruth>>
    BY <1>0, <1>3, ChargingRead DEF BattTruth, StatusTruth, Connected
  <2>1. CASE Onward
    BY <1>0, <2>0, <2>1, OnlineChargers DEF Onward, CInv, Found, Connected
  <2>2. CASE FoundForHandler
    <3>1. Quiet => status' = StatusTruth
      BY <1>3, <2>2, FoundTruth
    <3> QED  BY <1>0, <2>0, <2>2, <3>1 DEF FoundForHandler, CInv
  <2>3. CASE FoundForClient
    <3>1. Quiet => status' = StatusTruth
      BY <1>3, <2>3, FoundTruth
    <3> QED  BY <1>0, <2>0, <2>3, <3>1 DEF FoundForClient, CInv
  <2> QED  BY <1>0, <1>3, <2>1, <2>2, <2>3, ChargingRead
<1>4. CASE ReadPresent
  <2>1. batt'.present = BattTruth.present
    BY <1>0, <1>4, PresentRead DEF BattTruth
  <2>2. /\ pc = "present" /\ pc' = "status" /\ caller \in {"init", "event"}
        /\ UNCHANGED <<sysfs, module, caller, status, BattTruth, StatusTruth>>
    BY <1>0, <1>4 DEF ReadPresent, TInv, BattTruth, StatusTruth, Connected
  <2> QED  BY <1>0, <2>1, <2>2 DEF CInv
<1>5. CASE ReadStatus
  <2>1. batt' = [present |-> batt.present, status |-> battery] /\ pc' \in {"idle", "callbacks"}
    BY <1>0, <1>5, BatteryRead, TypedReadStatus
  <2>2. /\ pc = "status"
        /\ UNCHANGED <<sysfs, module, caller, status, BattTruth, StatusTruth>>
    BY <1>5 DEF ReadStatus, BattTruth, StatusTruth, Connected
  <2>3. Quiet => batt' = BattTruth
    BY <2>1, <2>2 DEF CInv, BattTruth
  <2> QED  BY <1>0, <2>1, <2>2, <2>3 DEF CInv
<1>6. CASE StatusCallback
  <2>1. /\ UNCHANGED <<sysfs, module, batt, BattTruth, StatusTruth>> /\ pc = "callbacks"
    BY <1>6 DEF StatusCallback, BattTruth, StatusTruth, Connected
  <2>2. \/ caller' = "callback" /\ pc' = "usb" /\ status' = NoStatus
        \/ pc' = "state" /\ UNCHANGED <<caller, status>>
    BY <1>6 DEF StatusCallback, ReadStatusOf
  <2> QED  BY <1>0, <2>1, <2>2, StatusFacts DEF CInv
<1>7. CASE StateCallback
  <2>1. /\ UNCHANGED <<sysfs, module, caller, status, batt, BattTruth, StatusTruth>>
        /\ pc = "state" /\ pc' = "idle"
    BY <1>7 DEF StateCallback, BattTruth, StatusTruth, Connected
  <2> QED  BY <1>0, <2>1 DEF CInv
<1>8. CASE Open
  <2>1. \/ module' = "open" /\ caller' = "init" /\ pc' = "usb" /\ status' = NoStatus
        \/ module' = "failed" /\ pc' = "idle"
    BY <1>8 DEF Open, ReadStatusOf
  <2> QED  BY <1>0, <2>1, StatusFacts DEF CInv
<1>9. CASE HandleEvent
  <2>1. caller' = "event" /\ pc' = "usb" /\ status' = NoStatus
    BY <1>9 DEF HandleEvent, ReadStatusOf
  <2> QED  BY <1>0, <2>1, StatusFacts DEF CInv
<1>10. CASE QueryStatus
  <2>1. /\ caller' = "client" /\ pc' = "usb" /\ status' = NoStatus /\ pc = "idle"
        /\ UNCHANGED <<sysfs, module, batt, BattTruth>>
    BY <1>10 DEF QueryStatus, ReadStatusOf, BattTruth
  <2> QED  BY <1>0, <2>1, StatusFacts DEF CInv
<1>11. ASSUME NEW cb \in {"status", "state"}, Register(cb) PROVE CInv'
  <2>1. UNCHANGED <<sysfs, module, pc, caller, status, batt, BattTruth, StatusTruth>>
    BY <1>11 DEF Register, BattTruth, StatusTruth, Connected
  <2> QED  BY <1>0, <2>1 DEF CInv
<1>12. CASE UNCHANGED vars
  <2>1. UNCHANGED <<sysfs, module, pc, caller, status, batt, BattTruth, StatusTruth>>
    BY <1>12 DEF vars, BattTruth, StatusTruth, Connected
  <2> QED  BY <1>0, <2>1 DEF CInv
<1> QED
  BY <1>1, <1>2, <1>3, <1>4, <1>5, <1>6, <1>7, <1>8, <1>9, <1>10, <1>11, <1>12
  DEF Next, Module

(* With every uevent handled the cached statuses are those of sysfs, though*)
(* up to seven files were read for them while the kernel was free to write *)
(* any of them, and a client's query may have run in between.              *)
THEOREM ChargerCacheCurrent == Spec => []CacheCurrent
<1>1. CInv => CacheCurrent
  BY DEF CInv, StatusRight, BattRight, Quiet, Reading, StatusTruth, BattTruth,
         CacheCurrent, Settled
<1> QED  BY <1>1, CInvInit, CInvStep, PTL DEF Spec

-----------------------------------------------------------------------------
(* CONNECTED goes with the is_charging of the last status but one a handler*)
(* read or is about to replace, PRESENT with the presence it read last.    *)
(* The client's queries write a status no handler compares.                *)
ConnectedBitRight ==
  ~swallowed =>
    /\ pc \in Reading /\ caller \in {"init", "event"} =>
         ("CONNECTED" \in current_event <=> prevCharging)
    /\ pc \notin Reading => ("CONNECTED" \in current_event <=> status.is_charging)

PresentBitRight ==
  /\ caller = "init" /\ pc = "status" => ~prevBatt.present
  /\ module # "open" \/ (caller = "init" /\ (pc \in Reading \/ pc = "present")) =>
       ~batt.present
  /\ ~skipped => ("PRESENT" \in current_event <=>
                    IF pc = "status" THEN prevBatt.present ELSE batt.present)


(* Before the module is open it has read nothing.                          *)
NotStarted == module # "open" => prevCharging = FALSE /\ ~status.is_charging

EInv == TInv /\ ConnectedBitRight /\ PresentBitRight /\ NotStarted

LEMMA EInvInit == Init => EInv
  BY TInvInit, StatusFacts DEF Init, EInv, ConnectedBitRight, PresentBitRight, Reading, NotStarted

LEMMA EInvStep == EInv /\ [Next]_vars => EInv'
<1> SUFFICES ASSUME EInv, [Next]_vars PROVE EInv'
  OBVIOUS
<1>0. TypeOK /\ TInv /\ TInv' /\ EventOK(current_event)
  BY TInvStep, TypedEvent DEF EInv, TInv
<1>a. pc # "idle" => module = "open"
  BY <1>0 DEF TInv
<1> USE DEF ConnectedBitRight, PresentBitRight, NotStarted, Reading, sysfs, client
<1>1. CASE Change
  BY <1>0, <1>1 DEF Change, EInv
<1>2. CASE ReadConnected
  <2>1. pc \in {"usb", "ac"} /\ pc' \in {"ac", "any_usb"}
        /\ UNCHANGED <<module, caller, prevCharging, batt, prevBatt, current_event,
                       swallowed, skipped>>
    BY <1>0, <1>2, ConnectedRead DEF ReadConnected
  <2> QED  BY <1>0, <1>a, <2>1 DEF EInv
<1>3. CASE ReadCharging
  <2>0. /\ pc \in {"any_usb", "any_ac", "any_other"}
        /\ UNCHANGED <<sysfs, module, caller, prevCharging, batt, prevBatt, skipped>>
    BY <1>0, <1>3, ChargingRead
  <2>1. CASE Onward
    BY <1>0, <2>0, <2>1 DEF Onward, EInv
  <2>2. CASE FoundForHandler
    <3>1. /\ prevCharging = Found => current_event' = current_event
          /\ prevCharging # Found => ("CONNECTED" \in current_event' <=> Found)
          /\ "PRESENT" \in current_event' <=> "PRESENT" \in current_event
      BY <1>0, <2>2, FoundStatus, ConnectedBitsFacts DEF FoundForHandler, TypeOK
    <3>2. pc' = "present" /\ swallowed' = (swallowed /\ prevCharging = Found)
          /\ caller \in {"init", "event"} /\ status'.is_charging = Found
      BY <1>0, <2>2, FoundStatus DEF FoundForHandler
    <3>3. ConnectedBitRight'
      <4>1. CASE prevCharging = Found
        BY <2>0, <3>1, <3>2, <4>1 DEF EInv
      <4>2. CASE prevCharging # Found
        BY <2>0, <3>1, <3>2, <4>2 DEF EInv
      <4> QED  BY <4>1, <4>2
    <3>4. PresentBitRight'
      BY <2>0, <3>1, <3>2 DEF EInv
    <3> QED  BY <1>0, <1>a, <2>0, <3>3, <3>4 DEF EInv
  <2>3. CASE FoundForClient
    <3>1. /\ pc' \in {"state", "idle"} /\ caller \in {"client", "callback"}
          /\ swallowed' = (Found # ("CONNECTED" \in current_event))
          /\ UNCHANGED current_event /\ status'.is_charging = Found
      BY <1>0, <2>3, FoundStatus DEF FoundForClient
    <3>2. ConnectedBitRight'
      BY <2>0, <3>1
    <3>3. PresentBitRight'
      BY <2>0, <3>1 DEF EInv
    <3> QED  BY <1>0, <1>a, <2>0, <3>2, <3>3 DEF EInv
  <2> QED  BY <1>0, <1>3, <2>1, <2>2, <2>3, ChargingRead
<1>4. CASE ReadPresent
  <2>1. /\ pc = "present" /\ pc' = "status" /\ prevBatt' = batt
        /\ UNCHANGED <<module, caller, status, current_event, swallowed, skipped>>
    BY <1>4 DEF ReadPresent
  <2>2. module = "open"
    BY <1>0, <2>1 DEF TInv, TypeOK
  <2> QED  BY <1>0, <2>1, <2>2 DEF EInv
<1>5. CASE ReadStatus
  <2>1. /\ batt'.present = batt.present /\ pc' \in {"idle", "callbacks"}
        /\ batt.present \in BOOLEAN /\ prevBatt.present \in BOOLEAN
    BY <1>0, <1>5, BatteryRead, TypedReadStatus
  <2>2. /\ pc = "status" /\ UNCHANGED <<module, caller, status, swallowed>>
    BY <1>5 DEF ReadStatus
  <2>3. /\ "CONNECTED" \in current_event' <=> "CONNECTED" \in current_event
        /\ ~skipped' => ("PRESENT" \in current_event' <=> batt.present)
    <3>1. CASE caller = "init"
      <4> DEFINE ev == IF battery = "Full" THEN ChargeBits(current_event, "Full")
                       ELSE current_event
      <4>1. EventOK(ev) /\ ("CONNECTED" \in ev <=> "CONNECTED" \in current_event)
            /\ ("PRESENT" \in ev <=> "PRESENT" \in current_event)
        BY <1>0, ChargeBitsFacts
      <4>2. current_event' = PresentBits(ev, FALSE, batt.present) /\ skipped' = skipped
        BY <1>5, <3>1 DEF ReadStatus
      <4>3. ~skipped => "PRESENT" \notin current_event
        BY <2>2, <3>1 DEF EInv
      <4> HIDE DEF ev
      <4>4. /\ "CONNECTED" \in current_event' <=> "CONNECTED" \in ev
            /\ batt.present => "PRESENT" \in current_event'
            /\ ~batt.present => current_event' = ev
        BY <2>1, <4>1, <4>2, PresentBitsFacts
      <4> QED  BY <2>1, <4>1, <4>2, <4>3, <4>4
    <3>2. CASE caller # "init" /\ ChargeChanged(prevBatt.status, battery)
      <4>1. current_event' = ChargeBits(current_event, battery)
        BY <1>5, <3>2 DEF ReadStatus
      <4>2. skipped' = IF prevBatt.present = batt.present THEN skipped ELSE TRUE
        BY <1>0, <1>5, <3>2, BatteryRead DEF ReadStatus, Skips
      <4>3. ~skipped => ("PRESENT" \in current_event <=> prevBatt.present)
        BY <2>2 DEF EInv
      <4> QED  BY <1>0, <2>1, <4>1, <4>2, <4>3, ChargeBitsFacts
    <3>3. CASE caller # "init" /\ ~ChargeChanged(prevBatt.status, battery)
      <4>1. current_event' = PresentBits(current_event, prevBatt.present, batt.present)
        BY <1>5, <3>3 DEF ReadStatus
      <4>2. prevBatt.present = batt.present => skipped' = skipped
        BY <1>0, <1>5, <3>3, BatteryRead DEF ReadStatus, Skips
      <4>3. ~skipped => ("PRESENT" \in current_event <=> prevBatt.present)
        BY <2>2 DEF EInv
      <4> QED  BY <1>0, <2>1, <4>1, <4>2, <4>3, PresentBitsFacts
    <3> QED  BY <3>1, <3>2, <3>3
  <2>4. module = "open"
    BY <1>0, <2>2 DEF TInv, TypeOK
  <2> QED  BY <1>0, <2>1, <2>2, <2>3, <2>4 DEF EInv
<1>6. CASE StatusCallback
  <2>1. /\ UNCHANGED <<module, batt, prevBatt, current_event, swallowed, skipped>>
        /\ pc = "callbacks" /\ caller = "event"
    BY <1>0, <1>6 DEF StatusCallback, TInv
  <2>2. \/ caller' = "callback" /\ pc' = "usb"
        \/ pc' = "state" /\ UNCHANGED <<caller, status>>
    BY <1>6 DEF StatusCallback, ReadStatusOf
  <2> QED  BY <1>0, <1>a, <2>1, <2>2 DEF EInv
<1>7. CASE StateCallback
  <2>1. /\ UNCHANGED <<module, caller, status, batt, current_event, swallowed, skipped>>
        /\ pc = "state" /\ pc' = "idle"
    BY <1>7 DEF StateCallback
  <2> QED  BY <1>0, <1>a, <2>1 DEF EInv
<1>8. CASE Open
  <2>1. /\ module = "closed" /\ pc = "idle"
        /\ UNCHANGED <<prevCharging, batt, prevBatt, current_event, swallowed, skipped>>
        /\ \/ module' = "open" /\ caller' = "init" /\ pc' = "usb"
           \/ module' = "failed" /\ UNCHANGED <<pc, caller, status>>
    BY <1>8 DEF Open, ReadStatusOf
  <2> QED  BY <1>0, <2>1 DEF EInv
<1>9. CASE HandleEvent
  <2>1. /\ caller' = "event" /\ pc' = "usb" /\ pc = "idle" /\ module' = "open"
        /\ prevCharging' = status.is_charging
        /\ UNCHANGED <<batt, prevBatt, current_event, swallowed, skipped>>
    BY <1>9 DEF HandleEvent, ReadStatusOf
  <2> QED  BY <1>0, <2>1 DEF EInv
<1>10. CASE QueryStatus
  <2>1. /\ caller' = "client" /\ pc' = "usb" /\ pc = "idle" /\ module' = "open"
        /\ UNCHANGED <<batt, prevBatt, current_event, swallowed, skipped>>
    BY <1>10 DEF QueryStatus, ReadStatusOf
  <2> QED  BY <1>0, <2>1 DEF EInv
<1>11. ASSUME NEW cb \in {"status", "state"}, Register(cb) PROVE EInv'
  BY <1>0, <1>11 DEF Register, EInv
<1>12. CASE UNCHANGED vars
  BY <1>0, <1>12 DEF vars, EInv
<1> QED
  BY <1>1, <1>2, <1>3, <1>4, <1>5, <1>6, <1>7, <1>8, <1>9, <1>10, <1>11, <1>12
  DEF Next, Module

(* The bits of the event agree with sysfs when every uevent is handled,    *)
(* whatever the order of the handlers, the queries and the kernel's writes,*)
(* but for a change that a query saw first and a battery that a handler    *)
(* did not look at.                                                        *)
THEOREM ChargerEventBitsRight == Spec => []EventBitsRight
<1>1. CInv /\ EInv => EventBitsRight
  <2> SUFFICES ASSUME CInv, EInv, Settled
               PROVE  /\ swallowed \/ ("CONNECTED" \in current_event <=> online # {})
                      /\ skipped \/ ("PRESENT" \in current_event <=> battery # "Unknown")
    BY DEF EventBitsRight
  <2>1. status = StatusTruth /\ batt = BattTruth
    BY DEF CInv, StatusRight, BattRight, Quiet, Reading, Settled
  <2>2. (status.is_charging <=> online # {}) /\ (batt.present <=> battery # "Unknown")
    BY <2>1 DEF StatusTruth, BattTruth
  <2> QED  BY <2>2 DEF EInv, ConnectedBitRight, PresentBitRight, Reading, Settled
<1> QED  BY <1>1, CInvInit, CInvStep, EInvInit, EInvStep, PTL DEF Spec

-----------------------------------------------------------------------------
(* A client with a callback knows what the module has, or is about to be   *)
(* told: the handler has the callback in fire, or has not yet compared what*)
(* it reads with what was there before.                                    *)
ViewKept ==
  "status" \in callbacks =>
    /\ pc \in Reading /\ caller \in {"init", "event"} => view = prevCharging
    /\ pc \in {"present", "status", "callbacks"} =>
         "status" \in fire \/ view = status.is_charging
    /\ pc \in {"state", "idle"} => view = status.is_charging

SeenKept ==
  "state" \in callbacks => "state" \in fire \/ seen = current_event

KInv ==
  /\ TInv /\ ViewKept /\ SeenKept
  /\ module # "open" \/ (caller = "init" /\ pc # "idle") => callbacks = {}

LEMMA KInvInit == Init => KInv
  BY TInvInit DEF Init, KInv, ViewKept, SeenKept

LEMMA KInvStep == KInv /\ [Next]_vars => KInv'
<1> SUFFICES ASSUME KInv, [Next]_vars PROVE KInv'
  OBVIOUS
<1>0. TypeOK /\ TInv /\ TInv' /\ EventOK(current_event)
  BY TInvStep, TypedEvent DEF KInv, TInv
<1> USE DEF ViewKept, SeenKept, Reading, sysfs, client
<1>1. CASE Change
  BY <1>0, <1>1 DEF Change, KInv
<1>2. CASE ReadConnected
  <2>1. pc \in {"usb", "ac"} /\ pc' \in {"ac", "any_usb"}
        /\ UNCHANGED <<module, caller, prevCharging, current_event, fire, client>>
    BY <1>0, <1>2, ConnectedRead DEF ReadConnected
  <2> QED  BY <1>0, <2>1 DEF KInv
<1>3. CASE ReadCharging
  <2>0. /\ pc \in {"any_usb", "any_ac", "any_other"}
        /\ UNCHANGED <<module, caller, prevCharging, callbacks, seen>>
    BY <1>0, <1>3, ChargingRead
  <2>1. CASE Onward
    BY <1>0, <2>0, <2>1 DEF Onward, KInv
  <2>2. CASE FoundForHandler
    <3>1. /\ prevCharging = Found => current_event' = current_event
          /\ status'.is_charging = Found /\ pc' = "present" /\ UNCHANGED view
          /\ caller \in {"init", "event"}
      BY <1>0, <2>2, FoundStatus, ConnectedBitsFacts DEF FoundForHandler, TypeOK
    <3>2. CASE prevCharging = Found
      <4>1. fire = {} /\ fire' = {}
        BY <1>0, <2>0, <2>2, <3>1, <3>2 DEF FoundForHandler, FireOnCharger, TInv
      <4> QED  BY <1>0, <2>0, <3>1, <3>2, <4>1 DEF KInv
    <3>3. CASE prevCharging # Found
      <4>1. fire' = {"status", "state"}
        BY <2>2, <3>3 DEF FoundForHandler, FireOnCharger
      <4> QED  BY <1>0, <2>0, <3>1, <4>1 DEF KInv
    <3> QED  BY <3>2, <3>3
  <2>3. CASE FoundForClient
    <3>1. /\ pc' \in {"state", "idle"} /\ UNCHANGED <<current_event, fire>>
          /\ status'.is_charging = Found /\ caller \in {"client", "callback"}
          /\ "status" \in callbacks => view' = Found
      BY <1>0, <2>3, FoundStatus DEF FoundForClient, Seen
    <3> QED  BY <1>0, <2>0, <3>1 DEF KInv
  <2> QED  BY <1>0, <1>3, <2>1, <2>2, <2>3, ChargingRead
<1>4. CASE ReadPresent
  BY <1>0, <1>4 DEF ReadPresent, KInv
<1>5. CASE ReadStatus
  <2>1. pc = "status" /\ pc' \in {"idle", "callbacks"}
        /\ UNCHANGED <<module, caller, status, prevCharging, client>>
    BY <1>0, <1>5, TypedReadStatus DEF ReadStatus
  <2>2. CASE caller = "init"
    BY <1>0, <2>1, <2>2 DEF KInv
  <2>3. CASE caller # "init"
    <3>1. pc' = "callbacks" /\ fire \subseteq fire'
          /\ ("state" \in fire' \/ current_event' = current_event)
      <4>1. CASE ChargeChanged(prevBatt.status, battery) \/ prevBatt.present # batt.present
        BY <1>5, <2>3, <4>1 DEF ReadStatus
      <4>2. CASE ~(ChargeChanged(prevBatt.status, battery) \/ prevBatt.present # batt.present)
        <5>1. current_event' = PresentBits(current_event, prevBatt.present, batt.present)
          BY <1>5, <2>3, <4>2 DEF ReadStatus
        <5>2. current_event' = current_event
          BY <1>0, <1>5, <4>2, <5>1, PresentBitsFacts, BatteryRead
        <5> QED  BY <1>5, <2>3, <4>2, <5>2 DEF ReadStatus
      <4> QED  BY <4>1, <4>2
    <3> QED  BY <1>0, <2>1, <2>3, <3>1 DEF KInv
  <2> QED  BY <2>2, <2>3
<1>6. CASE StatusCallback
  <2>1. UNCHANGED <<module, current_event, fire, callbacks, seen>>
        /\ pc = "callbacks" /\ caller = "event"
    BY <1>0, <1>6 DEF StatusCallback, TInv
  <2>2. \/ caller' = "callback" /\ pc' = "usb"
        \/ /\ pc' = "state" /\ UNCHANGED <<caller, status>>
           /\ view' = IF "status" \in fire THEN Seen(status.is_charging) ELSE view
    BY <1>6 DEF StatusCallback, ReadStatusOf
  <2> QED  BY <1>0, <2>1, <2>2 DEF KInv, Seen
<1>7. CASE StateCallback
  BY <1>0, <1>7 DEF StateCallback, KInv
<1>8. CASE Open
  <2>1. /\ module = "closed" /\ UNCHANGED <<client, fire, current_event>>
        /\ \/ module' = "open" /\ caller' = "init" /\ pc' = "usb"
           \/ module' = "failed" /\ UNCHANGED <<pc, caller, status>>
    BY <1>8 DEF Open, ReadStatusOf
  <2> QED  BY <1>0, <2>1 DEF KInv
<1>9. CASE HandleEvent
  <2>1. /\ caller' = "event" /\ pc' = "usb" /\ pc = "idle" /\ module' = "open"
        /\ module = "open" /\ prevCharging' = status.is_charging
        /\ UNCHANGED <<client, fire, current_event>>
    BY <1>9 DEF HandleEvent, ReadStatusOf
  <2> QED  BY <1>0, <2>1 DEF KInv
<1>10. CASE QueryStatus
  <2>1. /\ caller' = "client" /\ pc' = "usb" /\ pc = "idle" /\ module = "open"
        /\ UNCHANGED <<module, client, fire, current_event>>
    BY <1>10 DEF QueryStatus, ReadStatusOf
  <2> QED  BY <1>0, <2>1 DEF KInv
<1>11. ASSUME NEW cb \in {"status", "state"}, Register(cb) PROVE KInv'
  BY <1>0, <1>11 DEF Register, KInv
<1>12. CASE UNCHANGED vars
  BY <1>0, <1>12 DEF vars, KInv
<1> QED
  BY <1>1, <1>2, <1>3, <1>4, <1>5, <1>6, <1>7, <1>8, <1>9, <1>10, <1>11, <1>12
  DEF Next, Module

(* With every uevent handled a client with callbacks knows what sysfs says *)
(* and what event the module has: no change is lost between a callback's   *)
(* registration, a query and the handler's comparisons.                    *)
THEOREM ChargerClientKnows == Spec => []ClientKnows
<1>1. CInv /\ KInv => ClientKnows
  BY DEF CInv, KInv, TInv, StatusRight, ViewKept, SeenKept, Quiet, Reading, StatusTruth,
         ClientKnows, Settled
<1> QED  BY <1>1, CInvInit, CInvStep, KInvInit, KInvStep, PTL DEF Spec
=============================================================================
