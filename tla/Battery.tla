------------------------------- MODULE Battery -------------------------------
(***************************************************************************)
(* The Battery module (batterylib.c with device/battery.c).  The open      *)
(* looks for the battery's directory in sysfs, reads its files and then    *)
(* has the monitor receive uevents; every uevent reads the files again,    *)
(* one after the other, and calls the client when the percentage or the    *)
(* presence has changed.  The client registers its callback when it has    *)
(* the device, asks for the status then and whenever it is called, and     *)
(* may ask at any other time.  All of it runs in one thread: only the      *)
(* kernel changes the files between two reads.                             *)
(***************************************************************************)
EXTENDS Integers

CONSTANTS
  Full,          (* energy_full                                            *)
  MaxPending     (* bound on the uevents not received yet                  *)

ASSUME FullAssumption == Full \in Nat \ {0}
ASSUME PendingAssumption == MaxPending \in Nat \ {0}

VARIABLES
  slot,          (* sysfs: "none", no directory of type Battery; "empty",  *)
                 (* a directory but no battery; "filled"                   *)
  now,           (* ... energy_now                                         *)
  capacity,      (* ... and whether it has a capacity node                 *)
  pending,       (* uevents for the monitor                                *)
  found,         (* battery_sysfs_path is set                              *)
  monitor,       (* the monitor receives uevents                           *)
  task,          (* who reads the status: "open", "event", "query"         *)
  pc,            (* "closed", "idle" (in the main loop), or at the file to *)
                 (* read: "present", "percentage", "done"                  *)
  reading,       (* the status being read                                  *)
  state,         (* curr_state                                             *)
  client,        (* history: the status the client got last                *)
  unnoticed,     (* history: the battery changed after the open's reading  *)
                 (* and before there were uevents, and no uevent came since*)
  ahead          (* history: the client last got a status the module itself*)
                 (* had not read                                           *)

sysfs   == <<slot, now, capacity>>
device  == <<found, monitor, state>>
control == <<task, pc, reading>>
history == <<client, unnoticed, ahead>>
vars    == <<sysfs, pending, device, control, history>>

NoStatus == [present |-> FALSE, percentage |-> 0]

Init ==
  /\ slot \in {"none", "empty", "filled"} /\ now = Full /\ capacity \in BOOLEAN
  /\ pending = 0
  /\ found = FALSE /\ monitor = FALSE /\ state = NoStatus
  /\ task = "open" /\ pc = "closed" /\ reading = NoStatus
  /\ client = NoStatus /\ unnoticed = FALSE /\ ahead = FALSE

-----------------------------------------------------------------------------
(* The kernel: the battery is pulled or put in, its driver comes or goes,  *)
(* it charges or discharges.                                               *)
Change ==
  /\ slot' \in {"none", "empty", "filled"} /\ now' \in 0 .. Full
  /\ <<slot', now'>> # <<slot, now>>
  /\ IF monitor THEN pending < MaxPending /\ pending' = pending + 1
     ELSE UNCHANGED pending
  /\ unnoticed' = (unnoticed \/ (task = "open" /\ pc \in {"percentage", "done"}))
  /\ UNCHANGED <<capacity, device, control, client, ahead>>

(* The share of the battery that is left, in percent: the capacity node.   *)
Percent == (100 * now) \div Full

(* battery_percent: without a capacity node the quotient of energy_now and *)
(* energy_full (or charge_now and charge_full), a division of integers.    *)
BatteryPercent ==
  CASE slot # "filled"               -> -1
    [] slot = "filled" /\ capacity   -> Percent
    [] slot = "filled" /\ ~capacity  -> now \div Full

(* battery_is_present: nothing is found under an empty path.               *)
BatteryIsPresent == found /\ slot = "filled"

-----------------------------------------------------------------------------
(* battery_read_status, file by file, for whoever asked.                   *)
Read(who) == task' = who /\ pc' = "present" /\ UNCHANGED reading

(* Mutant: the status is not cleared before it is read.                    *)
MReadPresent ==
  /\ pc = "present" /\ pc' = IF BatteryIsPresent THEN "percentage" ELSE "done"
  /\ reading' = [reading EXCEPT !.present = BatteryIsPresent]
  /\ UNCHANGED <<sysfs, pending, device, task, history>>

ReadPresent ==
  /\ pc = "present" /\ pc' = IF BatteryIsPresent THEN "percentage" ELSE "done"
  /\ reading' = [NoStatus EXCEPT !.present = BatteryIsPresent]
  /\ UNCHANGED <<sysfs, pending, device, task, history>>

(* The battery may be gone since.                                          *)
ReadPercentage ==
  /\ pc = "percentage" /\ pc' = "done"
  /\ reading' = [reading EXCEPT !.percentage = BatteryPercent]
  /\ UNCHANGED <<sysfs, pending, device, task, history>>

-----------------------------------------------------------------------------
(* find_power_supply_sysfs_path: the battery's directory, if there is one; *)
(* another directory that cannot be opened ends the search.                *)
FindPath(stopped) == slot # "none" /\ ~stopped

(* nyx_module_open: battery_read_init looks for the directory, once, and   *)
(* reads the status.  Without udev it gets no further.                     *)
Open ==
  /\ pc = "closed"
  /\ \/ Read("open") /\ \E stopped \in BOOLEAN : found' = FindPath(stopped)
     \/ pc' = "idle" /\ UNCHANGED <<found, task, reading>>
  /\ UNCHANGED <<sysfs, pending, monitor, state, history>>

(* Mutant: the status is not kept.                                         *)
MOpened ==
  /\ pc = "done" /\ task = "open"
  /\ \/ monitor' = TRUE /\ Read("query")
     \/ monitor' = FALSE /\ pc' = "idle" /\ UNCHANGED <<task, reading>>
  /\ UNCHANGED <<sysfs, pending, found, state, history>>

(* The end of the open: the monitor is set up, or fails.  In that case the *)
(* open reports an error and the next one, which finds nyxDev set, does    *)
(* not: the device then answers queries only.  A close does nothing.       *)
Opened ==
  /\ pc = "done" /\ task = "open" /\ state' = reading
  /\ \/ monitor' = TRUE /\ Read("query")
     \/ monitor' = FALSE /\ pc' = "idle" /\ UNCHANGED <<task, reading>>
  /\ UNCHANGED <<sysfs, pending, found, history>>

(* _handle_event begins: a uevent is received.                             *)
Receive ==
  /\ pc = "idle" /\ monitor /\ pending > 0 /\ pending' = pending - 1
  /\ Read("event") /\ unnoticed' = FALSE
  /\ UNCHANGED <<sysfs, device, client, ahead>>

(* Mutant: only the percentage is compared.                                *)
MChanged(old, new) == new.percentage # old.percentage

Changed(old, new) == new.present # old.present \/ new.percentage # old.percentage

(* _handle_event ends: the callback, in which the client asks.             *)
Handled ==
  /\ pc = "done" /\ task = "event" /\ state' = reading
  /\ IF Changed(state, reading) THEN Read("query")
     ELSE pc' = "idle" /\ UNCHANGED <<task, reading>>
  /\ UNCHANGED <<sysfs, pending, found, monitor, history>>

(* battery_query_battery_status reads the files anew and leaves the        *)
(* module's copy alone.                                                    *)
Query ==
  /\ pc = "idle" /\ Read("query")
  /\ UNCHANGED <<sysfs, pending, device, history>>

Answered ==
  /\ pc = "done" /\ task = "query" /\ pc' = "idle"
  /\ client' = reading /\ ahead' = (reading # state)
  /\ UNCHANGED <<sysfs, pending, device, task, reading, unnoticed>>

Next ==
  \/ Change \/ ReadPresent \/ ReadPercentage
  \/ Open \/ Opened \/ Receive \/ Handled \/ Query \/ Answered

Spec == Init /\ [][Next]_vars

-----------------------------------------------------------------------------
Statuses == [present : BOOLEAN, percentage : -1 .. 100]

(* The shapes of the state; a battery that is not there has no percentage. *)
TypeOK ==
  /\ slot \in {"none", "empty", "filled"} /\ now \in 0 .. Full /\ capacity \in BOOLEAN
  /\ pending \in 0 .. MaxPending /\ {found, monitor} \subseteq BOOLEAN
  /\ task \in {"open", "event", "query"}
  /\ pc \in {"closed", "idle", "present", "percentage", "done"}
  /\ {reading, state, client} \subseteq Statuses
  /\ {unnoticed, ahead} \subseteq BOOLEAN
  /\ \A s \in {reading, state, client} : ~s.present => s.percentage = 0

(* What the files say, all read at once.                                   *)
Truth == IF slot = "filled" THEN [present |-> TRUE, percentage |-> BatteryPercent]
         ELSE NoStatus

(* Every uevent received and handled, the module's copy is what sysfs has, *)
(* although its files were read at different times, for a battery whose    *)
(* directory the open found, unless it changed between the open's reading  *)
(* and the monitor's start.                                                *)
AtRest == pc = "idle" /\ monitor /\ pending = 0
CacheCurrent == AtRest /\ found /\ ~unnoticed => state = Truth

(* Then the client's copy is right too, although its queries read the      *)
(* files at times of their own: no change goes without a callback, unless  *)
(* the client got a status that the module itself never read.              *)
ClientKnows == AtRest /\ found /\ ~unnoticed /\ ~ahead => client = Truth
=============================================================================
