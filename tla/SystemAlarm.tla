---------------------------- MODULE SystemAlarm ----------------------------
(***************************************************************************)
(* The alarm of the System module: system.c (the API), rtc.c (the driver   *)
(* convenience functions), and, as external parts, the kernel's RTC, the   *)
(* process's descriptor table and the GLib main loop that dispatches       *)
(* rtc_event.  Everything runs on one thread: an API call is one step, a   *)
(* main-loop iteration is a poll followed by one step per ready source.    *)
(*                                                                         *)
(* Descriptors are numbers: a GLib source polls a NUMBER, so a source left *)
(* behind by rtc_clear_watch watches whatever is opened there next, and a  *)
(* channel left behind by nyx_module_close names a number given back.      *)
(* Two history variables say for which alarms and from when that matters:  *)
(* promise and left.  Clients make any call in any order.                  *)
(***************************************************************************)
EXTENDS Integers, FiniteSets

CONSTANTS
  Fds,          (* descriptor numbers the process can get                  *)
  Expiries,     (* the times clients ask for (0 means "clear")             *)
  MaxTime,      (* bound on the RTC clock                                  *)
  MaxSources,   (* bound on the GLib sources left in the main context      *)
  MaxForeign    (* descriptors the rest of the process may hold            *)

ASSUME FdsAssumption == Fds \subseteq Nat /\ Fds # {}
ASSUME TimeAssumption == MaxTime \in Nat /\ Expiries \subseteq Nat \ {0}
ASSUME BoundAssumption == MaxSources \in Nat /\ MaxForeign \in Nat

NoFd == -1                        \* rtc_fd's "closed"

VARIABLES
  rtc_fd,                (* the driver's descriptor, or NoFd               *)
  rtc_channel,           (* the descriptor of the channel, NoFd for NULL   *)
  alarm_fired_callback,  (* TRUE when a client callback is registered      *)
  curr_expiry,           (* static of rtc_set_alarm_time                   *)
  nyxDev,                (* TRUE once the module was opened                *)
  fdUse,                 (* descriptor table: "free", "rtc" or "foreign"   *)
  sources,               (* number of GLib sources polling a descriptor    *)
  ready,                 (* per descriptor, sources found readable by poll *)
                         (* and still to dispatch in this iteration        *)
  inCallback,            (* the client's callback is running               *)
  now, hwEnabled, hwTime, irq,  (* RTC: clock, alarm, unread RTC_AF        *)
  promise,               (* history: the expiry a client was told is set   *)
                         (* with a callback and that Promised covers, or 0 *)
  left                   (* history: the number nyx_module_close gave back *)
                         (* under a channel it kept, NoFd once the device  *)
                         (* is opened there again or the channel is gone   *)

module == <<rtc_fd, rtc_channel, alarm_fired_callback, curr_expiry, nyxDev>>
glib   == <<sources, ready, inCallback>>
rtc    == <<now, hwEnabled, hwTime, irq>>
history == <<promise, left>>
vars   == <<module, fdUse, glib, rtc, history>>

Init ==
  /\ rtc_fd = NoFd /\ rtc_channel = NoFd
  /\ alarm_fired_callback = FALSE /\ curr_expiry = 0 /\ nyxDev = FALSE
  /\ fdUse = [fd \in Fds |-> "free"]
  /\ sources = [fd \in Fds |-> 0] /\ ready = [fd \in Fds |-> 0] /\ inCallback = FALSE
  /\ now = 0 /\ hwEnabled = FALSE /\ hwTime = 0 /\ irq = FALSE
  /\ promise = 0 /\ left = NoFd

-----------------------------------------------------------------------------
(* The client calls from the thread of the main loop: between iterations,  *)
(* or from inside the callback.                                            *)
Idle == \A fd \in Fds : ready[fd] = 0
ClientRuns == Idle \/ inCallback

Free == {fd \in Fds : fdUse[fd] = "free"}
LowestFree == CHOOSE fd \in Free : \A g \in Free : fd <= g

(* rtc_open, when it succeeds (when it fails nothing changes).  Opening    *)
(* the device drops an interrupt nobody has read.                          *)
CanOpen      == rtc_fd # NoFd \/ Free # {}
OpenedFd     == IF rtc_fd # NoFd THEN rtc_fd ELSE LowestFree
OpenedUse    == [fdUse EXCEPT ![OpenedFd] = "rtc"]
IrqAfterOpen == irq /\ rtc_fd # NoFd
LeftAfterOpen == IF OpenedFd = left THEN NoFd ELSE left

(* Mutant: the comparison of the two-second floor the wrong way round.     *)
MFloor2(t, clock) == IF t < clock + 2 THEN t ELSE clock + 2

Floor2(t, clock) == IF t < clock + 2 THEN clock + 2 ELSE t

(* rtc_set_alarm_time: an expiry equal to the cached one is accepted with  *)
(* nothing done; the cache is updated before the driver is asked; the      *)
(* driver refuses a time that is not ahead of its clock.  clockOk and      *)
(* setOk are the outcomes of the two ioctls.                               *)
ProgramAlarm(t, clockOk, setOk) ==
  LET e == Floor2(t, IF clockOk THEN now ELSE 0) IN
  /\ t # curr_expiry
  /\ curr_expiry' = t
  /\ setOk => now < e /\ e <= MaxTime
  /\ hwEnabled' = (setOk \/ hwEnabled)
  /\ hwTime' = IF setOk THEN e ELSE hwTime

RepeatAlarm(t) ==
  /\ t = curr_expiry
  /\ UNCHANGED <<curr_expiry, hwEnabled, hwTime>>

(* The alarms a client with a callback can rely on.  A repeated expiry is  *)
(* one only when its alarm still is; a new one is not when an interrupt is *)
(* unread, because the rtc_event to come clears whatever is set then.      *)
Promised(t) ==
  IF t = curr_expiry THEN (IF promise = t THEN t ELSE 0)
  ELSE IF IrqAfterOpen THEN 0 ELSE t

(* The tail of system_set_alarm for a client that gives a callback:        *)
(* rtc_add_watch attaches a source only when there is no channel.          *)
AddWatch(fd) ==
  /\ alarm_fired_callback' = TRUE
  /\ rtc_fd' = fd
  /\ fdUse' = OpenedUse
  /\ IF rtc_channel # NoFd
     THEN UNCHANGED <<rtc_channel, sources>>
     ELSE /\ rtc_channel' = fd
          /\ sources[fd] < MaxSources
          /\ sources' = [sources EXCEPT ![fd] = @ + 1]

(* Mutant: clearing the watch does not call rtc_close.                     *)
MClearWatchKeepsFd(fd) ==
  /\ alarm_fired_callback' = FALSE
  /\ rtc_fd' = fd
  /\ IF rtc_channel # NoFd
     THEN /\ rtc_channel' = NoFd
          /\ fdUse' = [OpenedUse EXCEPT ![rtc_channel] = "free"]
     ELSE UNCHANGED rtc_channel /\ fdUse' = OpenedUse
  /\ UNCHANGED sources

(* Mutant: the channel pointer is not reset after the shutdown.            *)
MClearWatchChannel(fd) ==
  /\ alarm_fired_callback' = FALSE
  /\ IF rtc_channel # NoFd
     THEN /\ rtc_fd' = NoFd
          /\ fdUse' = [OpenedUse EXCEPT ![rtc_channel] = "free", ![fd] = "free"]
     ELSE rtc_fd' = fd /\ fdUse' = OpenedUse
  /\ UNCHANGED <<rtc_channel, sources>>

(* ... and for a client that gives none: rtc_clear_watch shuts the channel *)
(* down, which closes its descriptor, and calls rtc_close, which closes    *)
(* rtc_fd; the source stays in the main context.                           *)
ClearWatch(fd) ==
  /\ alarm_fired_callback' = FALSE
  /\ IF rtc_channel # NoFd
     THEN /\ rtc_channel' = NoFd /\ rtc_fd' = NoFd
          /\ fdUse' = [OpenedUse EXCEPT ![rtc_channel] = "free", ![fd] = "free"]
     ELSE UNCHANGED rtc_channel /\ rtc_fd' = fd /\ fdUse' = OpenedUse
  /\ UNCHANGED sources

(* system_set_alarm(time # 0).  When the driver refuses the alarm it       *)
(* returns before the callback is looked at.                               *)
SetAlarm(t, withCallback, clockOk, setOk) ==
  /\ nyxDev /\ ClientRuns /\ CanOpen
  /\ irq' = IrqAfterOpen
  /\ \/ ProgramAlarm(t, clockOk, setOk)
     \/ RepeatAlarm(t) /\ clockOk /\ setOk
  /\ IF ~setOk
     THEN /\ rtc_fd' = OpenedFd /\ fdUse' = OpenedUse /\ left' = LeftAfterOpen
          /\ UNCHANGED <<rtc_channel, alarm_fired_callback, sources, promise>>
     ELSE IF withCallback
     THEN /\ AddWatch(OpenedFd)
          /\ promise' = Promised(t) /\ left' = LeftAfterOpen
     ELSE /\ ClearWatch(OpenedFd)
          /\ promise' = 0 /\ left' = NoFd
  /\ UNCHANGED <<nyxDev, ready, inCallback, now>>

(* system_set_alarm(0): rtc_clear_alarm, whose failure is not reported.    *)
(* The cached expiry, the callback and the watch stay.                     *)
ClearAlarm ==
  /\ nyxDev /\ ClientRuns /\ CanOpen
  /\ rtc_fd' = OpenedFd /\ fdUse' = OpenedUse /\ irq' = IrqAfterOpen
  /\ hwEnabled' \in {FALSE, hwEnabled}
  /\ promise' = 0 /\ left' = LeftAfterOpen
  /\ UNCHANGED <<rtc_channel, alarm_fired_callback, curr_expiry, nyxDev,
                 glib, now, hwTime>>

(* system_query_next_alarm and system_query_rtc_time: they open the device *)
(* and read it.                                                            *)
Query ==
  /\ nyxDev /\ ClientRuns /\ CanOpen /\ rtc_fd = NoFd
  /\ rtc_fd' = OpenedFd /\ fdUse' = OpenedUse /\ irq' = IrqAfterOpen
  /\ left' = LeftAfterOpen
  /\ UNCHANGED <<rtc_channel, alarm_fired_callback, curr_expiry, nyxDev,
                 glib, now, hwEnabled, hwTime, promise>>

Open ==
  /\ ~nyxDev
  /\ nyxDev' = TRUE
  /\ UNCHANGED <<rtc_fd, rtc_channel, alarm_fired_callback, curr_expiry,
                 fdUse, glib, rtc, history>>

(* nyx_module_close: rtc_close only.  The device record, the channel, the  *)
(* source and the callback stay.                                           *)
Close ==
  /\ nyxDev /\ ClientRuns /\ rtc_fd # NoFd
  /\ rtc_fd' = NoFd
  /\ fdUse' = [fdUse EXCEPT ![rtc_fd] = "free"]
  /\ promise' = 0 /\ left' = rtc_channel
  /\ UNCHANGED <<rtc_channel, alarm_fired_callback, curr_expiry, nyxDev,
                 glib, rtc>>

-----------------------------------------------------------------------------
(* One iteration of the main loop: poll finds the RTC readable when an     *)
(* interrupt is unread, other descriptors when they please, and makes      *)
(* every source on a readable descriptor ready.                            *)
RtcReadable == {fd \in Fds : irq /\ fd = rtc_fd}
ForeignFds  == {fd \in Fds : fdUse[fd] = "foreign"}

Poll ==
  /\ Idle /\ ~inCallback
  /\ \E R \in SUBSET ForeignFds :
       /\ ready' = [fd \in Fds |-> IF fd \in R \cup RtcReadable
                                  THEN sources[fd] ELSE 0]
       /\ \E fd \in Fds : ready'[fd] > 0
  /\ UNCHANGED <<module, fdUse, sources, inCallback, rtc, history>>

(* Mutant: rtc_event returns FALSE, which destroys its source.             *)
MRtcEventOnce ==
  /\ ~inCallback
  /\ irq \/ rtc_fd = NoFd
  /\ \E fd \in Fds : /\ ready[fd] > 0
                     /\ ready' = [ready EXCEPT ![fd] = @ - 1]
                     /\ sources' = [sources EXCEPT ![fd] = @ - 1]
  /\ IF rtc_fd = NoFd
     THEN UNCHANGED <<irq, hwEnabled, inCallback, promise>>
     ELSE /\ irq' = FALSE
          /\ hwEnabled' \in {FALSE, hwEnabled}
          /\ inCallback' = alarm_fired_callback
          /\ promise' = IF alarm_fired_callback THEN 0 ELSE promise
  /\ UNCHANGED <<module, fdUse, now, hwTime, left>>

(* rtc_event: rtc_check_alarm reads rtc_fd (blocking while no interrupt is *)
(* unread, failing when it is closed), clears the alarm, and AlarmFiredCB  *)
(* calls the client.                                                       *)
RtcEvent ==
  /\ ~inCallback
  /\ irq \/ rtc_fd = NoFd
  /\ \E fd \in Fds : /\ ready[fd] > 0
                     /\ ready' = [ready EXCEPT ![fd] = @ - 1]
  /\ IF rtc_fd = NoFd
     THEN UNCHANGED <<irq, hwEnabled, inCallback, promise>>
     ELSE /\ irq' = FALSE
          /\ hwEnabled' \in {FALSE, hwEnabled}
          /\ inCallback' = alarm_fired_callback
          /\ promise' = IF alarm_fired_callback THEN 0 ELSE promise
  /\ UNCHANGED <<module, fdUse, sources, now, hwTime, left>>

CallbackReturns ==
  /\ inCallback /\ inCallback' = FALSE
  /\ UNCHANGED <<module, fdUse, sources, ready, rtc, history>>

(* The RTC: at its time an enabled alarm raises RTC_AF; kernels differ in  *)
(* whether the alarm then reads back as enabled.                           *)
Tick ==
  /\ now < MaxTime
  /\ now' = now + 1
  /\ LET fires == hwEnabled /\ hwTime = now + 1 IN
     /\ irq' = (irq \/ fires)
     /\ hwEnabled' \in (IF fires THEN BOOLEAN ELSE {hwEnabled})
  /\ UNCHANGED <<module, fdUse, glib, hwTime, history>>

(* The rest of the process opens and closes descriptors.                   *)
Foreign ==
  /\ ClientRuns
  /\ \/ /\ Free # {}
        /\ Cardinality(ForeignFds) < MaxForeign
        /\ fdUse' = [fdUse EXCEPT ![LowestFree] = "foreign"]
     \/ \E fd \in ForeignFds : fdUse' = [fdUse EXCEPT ![fd] = "free"]
  /\ UNCHANGED <<module, glib, rtc, history>>

Next ==
  \/ Open \/ Close \/ ClearAlarm \/ Query
  \/ \E t \in Expiries, cb, clockOk, setOk \in BOOLEAN :
        SetAlarm(t, cb, clockOk, setOk)
  \/ Poll \/ RtcEvent \/ CallbackReturns
  \/ Tick \/ Foreign

Fairness == WF_vars(Tick) /\ WF_vars(Poll) /\ WF_vars(RtcEvent)
            /\ WF_vars(CallbackReturns)

Spec == Init /\ [][Next]_vars
FairSpec == Spec /\ Fairness

-----------------------------------------------------------------------------
(* The driver's descriptor is the one descriptor open on the RTC: neither a*)
(* close nor a shutdown of the channel leaks it or gives it away.          *)
FdOwned == \A fd \in Fds : fdUse[fd] = "rtc" <=> fd = rtc_fd

(* A channel has a source, and its number is the driver's, except the one  *)
(* nyx_module_close left.                                                  *)
ChannelOwned ==
  /\ rtc_channel # NoFd => /\ sources[rtc_channel] > 0
                           /\ rtc_channel \in {rtc_fd, left}
  /\ left # NoFd => left = rtc_channel /\ left # rtc_fd

(* The state of the module, the descriptor table, the main loop and the    *)
(* clock have the shapes the code gives them, ...                          *)
Shapes ==
  /\ rtc_fd \in Fds \cup {NoFd} /\ rtc_channel \in Fds \cup {NoFd}
  /\ left \in Fds \cup {NoFd}
  /\ alarm_fired_callback \in BOOLEAN /\ nyxDev \in BOOLEAN
  /\ curr_expiry \in Expiries \cup {0} /\ promise \in Expiries \cup {0}
  /\ fdUse \in [Fds -> {"free", "rtc", "foreign"}]
  /\ sources \in [Fds -> Nat] /\ ready \in [Fds -> Nat]
  /\ inCallback \in BOOLEAN /\ hwEnabled \in BOOLEAN /\ irq \in BOOLEAN
  /\ now \in 0..MaxTime /\ hwTime \in 0..MaxTime

(* ... and the descriptor, the channel and the sources go together.        *)
TypeOK == Shapes /\ FdOwned /\ ChannelOwned

(* An alarm a client can rely on, and that has not fired, been cleared or  *)
(* lost to a close, is in the hardware: enabled for a time still ahead and *)
(* no earlier than asked, or already raised and waiting for rtc_event.     *)
PromiseArmed ==
  promise # 0 =>
    irq \/ (hwEnabled /\ hwTime >= promise /\ hwTime > now)

(* rtc_event runs only for an interrupt: the read in rtc_check_alarm never *)
(* blocks the main loop.                                                   *)
ReadNeverBlocks ==
  ~Idle /\ ~inCallback => irq \/ rtc_fd = NoFd

(* The module implements the alarm clock: the client's callback is not     *)
(* started before the time promised last, and no more often than alarms    *)
(* were set, whichever clears, failing ioctls, sets over an unread         *)
(* interrupt and closes there were.  An alarm is owed while it is ahead in *)
(* the hardware, and one more while an interrupt is unread.                *)
Ahead == hwEnabled /\ hwTime > now
Owed  == (IF irq THEN 1 ELSE 0) + (IF Ahead THEN 1 ELSE 0)
Clock == INSTANCE AlarmClock
           WITH due <- promise, owed <- Owed, calling <- inCallback
ImplementsAlarm == Clock!Spec

(* While an alarm is promised, rtc_event is attached to a channel, and to  *)
(* the very descriptor the alarm will make readable unless a close has left*)
(* the channel on a number the device was not opened on again, although    *)
(* rtc_add_watch attaches nothing when there is a channel already.         *)
PromiseWatched ==
  promise # 0 => /\ rtc_fd # NoFd /\ alarm_fired_callback
                 /\ rtc_channel # NoFd /\ sources[rtc_channel] > 0
                 /\ left = NoFd => rtc_channel = rtc_fd

(* rtc_close and the channel's shutdown close the RTC's descriptor, never  *)
(* one that the rest of the process has opened in the meantime, but for one*)
(* number: the one nyx_module_close gave back and a channel still names.   *)
ForeignSafe ==
  [][ForeignFds \ ForeignFds' \subseteq {left} \/ UNCHANGED module]_vars

(* A promised alarm does not stay promised for ever, unless a close has    *)
(* left the watch on another number: it fires, or the client clears it,    *)
(* replaces it or closes the device.                                       *)
PromiseKept ==
  \A t \in Expiries : (promise = t /\ left = NoFd) ~> (promise # t)
=============================================================================
