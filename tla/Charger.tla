------------------------------ MODULE Charger ------------------------------
(***************************************************************************)
(* The Charger module on a device: charger.c (sysfs, uevents, the charger  *)
(* event) and chargerlib.c (the API and the client's callbacks).           *)
(*                                                                         *)
(* The kernel changes sysfs and queues a uevent.  The main loop handles a  *)
(* uevent, or a client calls, on one thread; but the handler reads sysfs   *)
(* file by file, so the kernel may change it between two reads: pc is      *)
(* where the running call stands.                                          *)
(***************************************************************************)
EXTENDS Integers

CONSTANTS Chargers,     (* those of the device, of "usb", "ac" and "other" *)
          Levels,       (* the values of battery/status that occur         *)
          MaxPending    (* bound on the uevents the netlink socket holds   *)

ASSUME ChargerAssumption ==
  /\ Chargers \subseteq {"usb", "ac", "other"}     \* other: touch and wireless
  /\ {"Unknown"} \subseteq Levels
  /\ Levels \subseteq {"Unknown", "Charging", "Full", "Discharging"}
  /\ MaxPending \in Nat \ {0}

VARIABLES
  online,      (* sysfs: the chargers with online = 1                      *)
  battery,     (* sysfs: battery/status, "Unknown" when it is not present  *)
  pending,     (* uevents not received yet                                 *)
  module,      (* "closed", "failed" (init failed, nyxDev set) or "open"   *)
  pc,          (* "idle", or the next step of the running call             *)
  caller,      (* who runs _charger_read_status: "init", "event", "client" *)
               (* or "callback"                                            *)
  status,      (* gChargerStatus: connected (and powered), is_charging     *)
  prevCharging, (* locals of the handler: what it saw before                *)
  batt,        (* curr_battery_state->present and battery_status           *)
  prevBatt,     (* ... and of the battery                                  *)
  current_event, (* the bits of current_event that are set                 *)
  fire,        (* the callbacks to run: of "status" and "state"            *)
  callbacks,   (* the callbacks registered                                 *)
  view,        (* history: is_charging of the status the client saw last   *)
  seen,        (* history: the event the client saw last                   *)
  swallowed,   (* history: a query saw the chargers as they are before any *)
               (* uevent's handler did                                     *)
  skipped      (* history: a handler saw the battery come or go, and did   *)
               (* not look at it                                           *)

sysfs  == <<online, battery, pending>>
client == <<callbacks, view, seen>>
vars   == <<sysfs, module, pc, caller, status, prevCharging, batt, prevBatt,
            current_event, fire, client, swallowed, skipped>>

NoStatus == [connected |-> "none", is_charging |-> FALSE]
NoBatt   == [present |-> FALSE, status |-> "Unknown"]

Init ==
  /\ online \in SUBSET Chargers /\ battery \in Levels /\ pending = 0
  /\ module = "closed" /\ pc = "idle" /\ caller = "init"
  /\ status = NoStatus /\ prevCharging = FALSE
  /\ batt = NoBatt /\ prevBatt = NoBatt
  /\ current_event = {} /\ fire = {}
  /\ callbacks = {} /\ view = FALSE /\ seen = {}
  /\ swallowed = FALSE /\ skipped = FALSE

-----------------------------------------------------------------------------
(* The kernel: a charger comes or goes, or the battery changes; a uevent   *)
(* is queued once the module listens.                                      *)
Flip(c) == IF c \in online THEN online \ {c} ELSE online \cup {c}

Change ==
  /\ pending < MaxPending
  /\ \/ (\E c \in Chargers : online' = Flip(c)) /\ UNCHANGED battery
     \/ battery' \in Levels \ {battery} /\ UNCHANGED online
  /\ pending' = IF module = "open" THEN pending + 1 ELSE pending
  /\ UNCHANGED <<module, pc, caller, status, prevCharging, batt, prevBatt,
                 current_event, fire, client, swallowed, skipped>>

(* _charger_read_status: it clears gChargerStatus and reads usb, then ac,  *)
(* for what is connected.  Then it reads usb again, ac and the others, up  *)
(* to the first that is online, for is_charging (ReadCharging).            *)
(* Mutant: gChargerStatus is not cleared first.                            *)
MReadStatusOf(who) ==
  /\ caller' = who /\ pc' = "usb"
  /\ status' = [status EXCEPT !.is_charging = FALSE]

ReadStatusOf(who) ==
  /\ caller' = who /\ pc' = "usb"
  /\ status' = NoStatus

Name == [usb |-> "pc", ac |-> "wall"]

ReadConnected ==
  /\ pc \in {"usb", "ac"}
  /\ status' = IF pc \in online THEN [status EXCEPT !.connected = Name[pc]] ELSE status
  /\ pc' = IF pc = "usb" /\ pc \notin online THEN "ac" ELSE "any_usb"
  /\ UNCHANGED <<sysfs, module, caller, prevCharging, batt, prevBatt, current_event,
                 fire, client, swallowed, skipped>>

(* _has_charger_connected_state_changed, ..._battery_state_changed and     *)
(* _has_charger_state_changed: the bits they set and clear.                *)
(* Mutant: connecting leaves the bit of the disconnection.                 *)
MConnectedBits(ev, old, new) ==
  CASE old = new   -> ev
    [] new /\ ~old -> ev \cup {"CONNECTED"}
    [] old /\ ~new -> (ev \ {"CONNECTED"}) \cup {"DISCONNECTED"}

ConnectedBits(ev, old, new) ==
  CASE old = new   -> ev
    [] new /\ ~old -> (ev \ {"DISCONNECTED"}) \cup {"CONNECTED"}
    [] old /\ ~new -> (ev \ {"CONNECTED"}) \cup {"DISCONNECTED"}

(* Mutant: the event of a battery that goes is forgotten.                  *)
MPresentBits(ev, old, new) ==
  IF new /\ ~old THEN (ev \ {"ABSENT"}) \cup {"PRESENT"} ELSE ev

PresentBits(ev, old, new) ==
  CASE old = new   -> ev
    [] new /\ ~old -> (ev \ {"ABSENT"}) \cup {"PRESENT"}
    [] old /\ ~new -> (ev \ {"PRESENT"}) \cup {"ABSENT"}

ChargeChanged(old, new) == <<old, new>> \in {<<"Charging", "Full">>, <<"Full", "Charging">>}

ChargeBits(ev, new) ==
  IF new = "Full" THEN (ev \ {"RESTART"}) \cup {"COMPLETE"}
                  ELSE (ev \ {"COMPLETE"}) \cup {"RESTART"}

(* Mutant: a change of the charger only runs the state-change callback.    *)
MFireOnCharger(old, new) == IF old # new THEN {"state"} ELSE {}

(* Mutant: ... only the status callback.                                   *)
MFireStatusOnly(old, new) == IF old # new THEN {"status"} ELSE {}

FireOnCharger(old, new) == IF old # new THEN {"status", "state"} ELSE {}

(* What a client with a status callback has seen once it is told a status. *)
Seen(is_charging) == IF "status" \in callbacks THEN is_charging ELSE view

File == [any_usb |-> "usb", any_ac |-> "ac", any_other |-> "other"]

ReadCharging ==
  /\ pc \in DOMAIN File
  /\ LET found == File[pc] \in online IN
     IF ~found /\ pc # "any_other"
     THEN /\ pc' = IF pc = "any_usb" THEN "any_ac" ELSE "any_other"
          /\ UNCHANGED <<status, current_event, fire, view, swallowed>>
     ELSE /\ status' = [status EXCEPT !.is_charging = found]
          /\ IF caller \in {"init", "event"}
             THEN /\ current_event' = ConnectedBits(current_event, prevCharging, found)
                  /\ fire' = FireOnCharger(prevCharging, found)
                  /\ swallowed' = (swallowed /\ prevCharging = found)
                  /\ pc' = "present"
                  /\ UNCHANGED view
             ELSE /\ view' = Seen(found)
                  /\ swallowed' = (found # ("CONNECTED" \in current_event))
                  /\ pc' = IF caller = "callback" THEN "state" ELSE "idle"
                  /\ UNCHANGED <<current_event, fire>>
  /\ UNCHANGED <<sysfs, module, caller, prevCharging, batt, prevBatt, callbacks, seen,
                 skipped>>

(* _battery_read_status: present, then status.                             *)
ReadPresent ==
  /\ pc = "present" /\ pc' = "status"
  /\ prevBatt' = batt
  /\ batt' = [batt EXCEPT !.present = battery # "Unknown"]
  /\ UNCHANGED <<sysfs, module, caller, status, prevCharging, current_event,
                 fire, client, swallowed, skipped>>

(* A handler whose test stops at the battery's status (||) although the    *)
(* battery came or went; until one next sees it come or go.                *)
Skips(old, new) ==
  IF old.present = new.present THEN skipped ELSE ChargeChanged(old.status, new.status)

(* The handler looks at the battery's presence only when its status shows  *)
(* no change (||); _charger_init_events looks at both, and "Full" at the   *)
(* start is a completed charge.                                            *)
ReadStatus ==
  /\ pc = "status"
  /\ batt' = [batt EXCEPT !.status = battery]
  /\ IF caller = "init"
     THEN /\ current_event' =
               LET ev == IF battery = "Full" THEN ChargeBits(current_event, "Full")
                         ELSE current_event
               IN PresentBits(ev, FALSE, batt.present)
          /\ fire' = {} /\ pc' = "idle" /\ prevBatt' = NoBatt
          /\ UNCHANGED skipped
     ELSE /\ skipped' = Skips(prevBatt, [batt EXCEPT !.status = battery])
          /\ current_event' =
               IF ChargeChanged(prevBatt.status, battery)
               THEN ChargeBits(current_event, battery)
               ELSE PresentBits(current_event, prevBatt.present, batt.present)
          /\ fire' = IF \/ ChargeChanged(prevBatt.status, battery)
                        \/ prevBatt.present # batt.present
                     THEN fire \cup {"state"} ELSE fire
          /\ pc' = "callbacks" /\ UNCHANGED prevBatt
  /\ UNCHANGED <<sysfs, module, caller, status, prevCharging, client, swallowed>>

(* charger_status_callback: the client queries the new status, or asks for *)
(* the cached one.  Then state_change_callback: it queries the event.      *)
StatusCallback ==
  /\ pc = "callbacks"
  /\ \/ /\ "status" \in fire \cap callbacks
        /\ ReadStatusOf("callback") /\ UNCHANGED view
     \/ /\ pc' = "state" /\ UNCHANGED <<caller, status>>
        /\ view' = IF "status" \in fire THEN Seen(status.is_charging) ELSE view
  /\ UNCHANGED <<sysfs, module, prevCharging, batt, prevBatt, current_event,
                 fire, callbacks, seen, swallowed, skipped>>

StateCallback ==
  /\ pc = "state" /\ pc' = "idle"
  /\ seen' = IF "state" \in fire \cap callbacks THEN current_event ELSE seen
  /\ fire' = {} /\ prevCharging' = FALSE /\ prevBatt' = NoBatt
  /\ UNCHANGED <<sysfs, module, caller, status, batt, current_event, callbacks, view,
                 swallowed, skipped>>

-----------------------------------------------------------------------------
(* nyx_module_open and _charger_init: the monitor listens before sysfs is  *)
(* read for the first time.  When init fails nyxDev is set all the same.   *)
Open ==
  /\ module = "closed" /\ pc = "idle"
  /\ \/ module' = "open" /\ ReadStatusOf("init")
     \/ module' = "failed" /\ UNCHANGED <<pc, caller, status>>
  /\ UNCHANGED <<sysfs, prevCharging, batt, prevBatt, current_event, fire, client,
                 swallowed, skipped>>

(* _handle_power_supply_event up to the first read.                        *)
HandleEvent ==
  /\ module = "open" /\ pc = "idle" /\ pending > 0
  /\ pending' = pending - 1
  /\ prevCharging' = status.is_charging
  /\ ReadStatusOf("event")
  /\ UNCHANGED <<online, battery, module, batt, prevBatt, current_event, fire, client,
                 swallowed, skipped>>

(* charger_query_charger_status reads sysfs anew, into gChargerStatus.     *)
QueryStatus ==
  /\ module = "open" /\ pc = "idle"
  /\ ReadStatusOf("client")
  /\ UNCHANGED <<sysfs, module, prevCharging, batt, prevBatt, current_event, fire,
                 client, swallowed, skipped>>

(* Registering: a client registers a callback and then asks for what it    *)
(* would have been told, the cached status (charger_enable_charging hands  *)
(* it out) or the current event.                                           *)
Register(cb) ==
  /\ module = "open" /\ pc = "idle"
  /\ callbacks' = callbacks \cup {cb}
  /\ view' = IF cb = "status" THEN status.is_charging ELSE view
  /\ seen' = IF cb = "state" THEN current_event ELSE seen
  /\ UNCHANGED <<sysfs, module, pc, caller, status, prevCharging, batt, prevBatt,
                 current_event, fire, swallowed, skipped>>

Module == ReadConnected \/ ReadCharging \/ ReadPresent \/ ReadStatus \/ StatusCallback
          \/ StateCallback \/ HandleEvent

Next ==
  \/ Change \/ Open \/ Module \/ QueryStatus
  \/ \E cb \in {"status", "state"} : Register(cb)

Spec == Init /\ [][Next]_vars

(* The main loop runs the handler it has started, and handles uevents.     *)
FairSpec == Spec /\ WF_vars(Module)

-----------------------------------------------------------------------------
Events == {"CONNECTED", "DISCONNECTED", "PRESENT", "ABSENT", "COMPLETE", "RESTART"}
Status == [connected : {"none", "pc", "wall"}, is_charging : BOOLEAN]
Batt   == [present : BOOLEAN, status : Levels]

(* The shapes of the module's state; of each pair of opposite events at    *)
(* most one bit is set.                                                    *)
TypeOK ==
  /\ online \subseteq Chargers /\ battery \in Levels /\ pending \in 0..MaxPending
  /\ module \in {"closed", "failed", "open"}
  /\ pc \in {"idle", "usb", "ac", "any_usb", "any_ac", "any_other", "present", "status", "callbacks", "state"}
  /\ caller \in {"init", "event", "client", "callback"}
  /\ status \in Status /\ view \in BOOLEAN /\ prevCharging \in BOOLEAN
  /\ batt \in Batt /\ prevBatt \in Batt
  /\ fire \subseteq {"status", "state"} /\ callbacks \subseteq {"status", "state"}
  /\ {swallowed, skipped} \subseteq BOOLEAN
  /\ current_event \subseteq Events /\ seen \subseteq Events
  /\ \A pair \in {{"CONNECTED", "DISCONNECTED"}, {"PRESENT", "ABSENT"},
                  {"COMPLETE", "RESTART"}} : ~(pair \subseteq current_event)

(* What _charger_read_status finds connected when sysfs does not change.   *)
Connected(on) == IF "usb" \in on THEN "pc" ELSE IF "ac" \in on THEN "wall" ELSE "none"

Settled == module = "open" /\ pc = "idle" /\ pending = 0

(* With every uevent handled, the cached statuses are those of sysfs,      *)
(* although they were read file by file while the kernel was changing them.*)
CacheCurrent ==
  Settled => /\ status = [connected |-> Connected(online), is_charging |-> online # {}]
             /\ batt = [present |-> battery # "Unknown", status |-> battery]

(* With every uevent handled, the bits of the event agree with sysfs:      *)
(* CONNECTED is set exactly while some charger is online, unless a query   *)
(* saw the change first, and PRESENT while there is a battery, unless a    *)
(* handler stopped at the battery's status.                                *)
EventBitsRight ==
  Settled => /\ swallowed \/ ("CONNECTED" \in current_event <=> online # {})
             /\ skipped \/ ("PRESENT" \in current_event <=> battery # "Unknown")

(* With every uevent handled, a client with a status callback knows whether*)
(* the device is charging, and one with a state callback the current event.*)
ClientKnows ==
  Settled => /\ "status" \in callbacks => view = (online # {})
             /\ "state" \in callbacks => seen = current_event

(* A charger that stays in is known to such a client from some time on,    *)
(* whatever else keeps changing.                                           *)
PluggedSeen ==
  <>[]("usb" \in online /\ "status" \in callbacks) => <>[]view
=============================================================================
