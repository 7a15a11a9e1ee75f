----------------------------- MODULE AlarmClock -----------------------------
(***************************************************************************)
(* What the System module promises the clients of its alarm: nobody is     *)
(* called before the time promised last, and there are no more calls than  *)
(* alarms that were set.                                                   *)
(***************************************************************************)
EXTENDS Integers

CONSTANT Expiries      (* the times clients ask for                         *)

VARIABLES
  now,                 (* the clock                                        *)
  due,                 (* the time promised to a client, 0 when none is    *)
  owed,                (* how many calls the alarms that were set may make *)
  calling              (* a client is being called                         *)

Init == now = 0 /\ due = 0 /\ owed = 0 /\ calling = FALSE

(* An alarm is set, for somebody to be called or just so; it may replace   *)
(* one that was set before.                                                *)
Set ==
  /\ due' \in Expiries \cup {0} /\ owed' \in 1..(owed + 1)
  /\ UNCHANGED <<now, calling>>

(* It is withdrawn, which need not succeed, or nobody wants the call.      *)
Withdraw ==
  /\ due' = 0 /\ owed' \in 0..owed
  /\ UNCHANGED <<now, calling>>

(* Alarms whose time has come may make one call together, but not none.    *)
Tick ==
  /\ now' = now + 1
  /\ IF owed = 0 THEN owed' = 0 ELSE owed' \in 1..owed
  /\ UNCHANGED <<due, calling>>

(* A call may come after a withdrawal, but not early and not unasked; it   *)
(* serves what is promised and may take other alarms with it.              *)
Call ==
  /\ ~calling /\ calling' = TRUE
  /\ owed > 0 /\ owed' \in 0..(owed - 1)
  /\ due <= now /\ due' = 0
  /\ UNCHANGED now

Return == calling /\ calling' = FALSE /\ UNCHANGED <<now, due, owed>>

Next == Set \/ Withdraw \/ Tick \/ Call \/ Return

Spec == Init /\ [][Next]_<<now, due, owed, calling>>
=============================================================================
