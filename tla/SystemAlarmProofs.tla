------------------------- MODULE SystemAlarmProofs -------------------------
(***************************************************************************)
(* Proofs about SystemAlarm for every set of descriptors, expiries and     *)
(* every clock bound, and for clients that make any call at any time.  The *)
(* invariant that carries them is IInv: what the code keeps between a      *)
(* successful system_set_alarm and its callback.                           *)
(***************************************************************************)
EXTENDS SystemAlarm, WellFoundedInduction, TLAPS

LEMMA NoFdNotFd == NoFd \notin Fds
  BY FdsAssumption DEF NoFd

(* A set of naturals that is not empty has a least element.                *)
LEMMA LeastExists ==
  ASSUME NEW S, S \subseteq Nat, S # {}
  PROVE  \E m \in S : \A n \in S : m <= n
<1>1. \A m, n \in Nat : n < m => <<n, m>> \in OpToRel(<, Nat)
  BY SMT DEF OpToRel
<1>2. \E m \in S : \A n \in S : ~(<<n, m>> \in OpToRel(<, Nat))
  BY WFMin, NatLessThanWellFounded, Zenon
<1>3. PICK m \in S : \A n \in S : ~(<<n, m>> \in OpToRel(<, Nat))
  BY <1>2, Zenon
<1>4. \A n \in S : ~(n < m)
  BY <1>1, <1>3, Zenon
<1> QED  BY <1>4

(* open() returns a descriptor that is free.                               *)
LEMMA LowestFreeIsFree == Free # {} => LowestFree \in Free
<1>1. Free \subseteq Nat  BY FdsAssumption DEF Free
<1>2. Free # {} => \E fd \in Free : \A g \in Free : fd <= g
  BY <1>1, LeastExists
<1> QED  BY <1>2, Zenon DEF LowestFree

(* rtc_open takes a descriptor nobody else has, and is the only one to.    *)
LEMMA OpenedFacts ==
  ASSUME TypeOK, CanOpen
  PROVE  /\ OpenedFd \in Fds /\ OpenedFd # NoFd
         /\ OpenedUse \in [Fds -> {"free", "rtc", "foreign"}]
         /\ \A fd \in Fds : OpenedUse[fd] = "rtc" <=> fd = OpenedFd
         /\ fdUse[OpenedFd] # "foreign"
         /\ IrqAfterOpen \in BOOLEAN
         /\ rtc_fd # NoFd => OpenedFd = rtc_fd /\ IrqAfterOpen = irq
<1> USE DEF TypeOK, Shapes
<1>1. OpenedFd \in Fds /\ OpenedFd # NoFd
  BY LowestFreeIsFree, NoFdNotFd DEF CanOpen, OpenedFd, Free
<1>2. OpenedUse \in [Fds -> {"free", "rtc", "foreign"}]
  BY <1>1 DEF OpenedUse
<1>3. IrqAfterOpen \in BOOLEAN
  BY DEF IrqAfterOpen
<1>4. rtc_fd # NoFd => OpenedFd = rtc_fd /\ IrqAfterOpen = irq
  BY DEF OpenedFd, IrqAfterOpen
<1>5. fdUse[OpenedFd] \in {"rtc", "free"}
  <2>1. CASE rtc_fd # NoFd
    BY <1>1, <1>4, <2>1 DEF FdOwned
  <2>2. CASE rtc_fd = NoFd
    BY <2>2, LowestFreeIsFree DEF CanOpen, OpenedFd, Free
  <2> QED  BY <2>1, <2>2
<1>6. \A fd \in Fds : OpenedUse[fd] = "rtc" <=> fd = OpenedFd
  <2>1. \A fd \in Fds : fdUse[fd] = "rtc" => fd = OpenedFd
    BY <1>4, NoFdNotFd DEF FdOwned
  <2> QED  BY <1>1, <2>1 DEF OpenedUse
<1> QED  BY <1>1, <1>2, <1>3, <1>4, <1>5, <1>6

(* The descriptors of the rest of the process are left alone, but for the  *)
(* one number a close has left to the channel.                             *)
ForeignKept == ForeignFds \ ForeignFds' \subseteq {left}

-----------------------------------------------------------------------------
(* A call that opens the device and leaves the channel alone.              *)
LEMMA OpenOnlyLinks ==
  ASSUME TypeOK, CanOpen, rtc_fd' = OpenedFd, fdUse' = OpenedUse,
         left' = LeftAfterOpen, UNCHANGED <<rtc_channel, sources>>
  PROVE  FdOwned' /\ ChannelOwned' /\ ForeignKept /\ left' \in Fds \cup {NoFd}
<1>1. FdOwned'
  BY OpenedFacts DEF FdOwned
<1>2. ChannelOwned' /\ left' \in Fds \cup {NoFd}
  BY OpenedFacts DEF TypeOK, Shapes, ChannelOwned, LeftAfterOpen
<1>3. ForeignFds \subseteq ForeignFds'
  BY OpenedFacts DEF TypeOK, Shapes, ForeignFds, OpenedUse
<1> QED  BY <1>1, <1>2, <1>3 DEF ForeignKept

LEMMA AddWatchLinks ==
  ASSUME TypeOK, CanOpen, AddWatch(OpenedFd), left' = LeftAfterOpen
  PROVE  /\ FdOwned' /\ ChannelOwned' /\ ForeignKept /\ left' \in Fds \cup {NoFd}
         /\ rtc_channel' \in Fds /\ sources' \in [Fds -> Nat]
<1>1. rtc_fd' = OpenedFd /\ fdUse' = OpenedUse
  BY DEF AddWatch
<1>2. CASE rtc_channel # NoFd
  <2>1. UNCHANGED <<rtc_channel, sources>>
    BY <1>2 DEF AddWatch
  <2> QED  BY <1>1, <1>2, <2>1, OpenOnlyLinks DEF TypeOK, Shapes
<1>3. CASE rtc_channel = NoFd
  <2>1. /\ rtc_channel' = OpenedFd
        /\ sources' = [sources EXCEPT ![OpenedFd] = @ + 1]
    BY <1>3 DEF AddWatch
  <2>2. left = NoFd /\ left' = NoFd
    BY <1>3 DEF TypeOK, ChannelOwned, LeftAfterOpen
  <2>3. FdOwned' /\ ForeignFds \subseteq ForeignFds'
    BY <1>1, OpenedFacts DEF FdOwned, TypeOK, Shapes, ForeignFds, OpenedUse
  <2>4. sources' \in [Fds -> Nat] /\ sources'[OpenedFd] > 0
    BY <2>1, OpenedFacts DEF TypeOK, Shapes
  <2> QED  BY <1>1, <2>1, <2>2, <2>3, <2>4, OpenedFacts
           DEF ChannelOwned, ForeignKept
<1> QED  BY <1>2, <1>3

(* The shutdown of a channel that a close has left is the one step that may*)
(* close a descriptor of somebody else.                                    *)
LEMMA ClearWatchLinks ==
  ASSUME TypeOK, CanOpen, ClearWatch(OpenedFd), left' = NoFd
  PROVE  /\ FdOwned' /\ ChannelOwned' /\ ForeignKept
         /\ rtc_channel' = NoFd /\ rtc_fd' \in Fds \cup {NoFd}
         /\ fdUse' \in [Fds -> {"free", "rtc", "foreign"}]
<1> USE DEF TypeOK, Shapes
<1>1. CASE rtc_channel # NoFd
  <2>1. /\ rtc_channel' = NoFd /\ rtc_fd' = NoFd
        /\ fdUse' = [OpenedUse EXCEPT ![rtc_channel] = "free",
                                      ![OpenedFd] = "free"]
    BY <1>1 DEF ClearWatch
  <2>2. rtc_channel \in Fds
    BY <1>1
  <2>3. FdOwned'
    BY <2>1, <2>2, OpenedFacts, NoFdNotFd DEF FdOwned
  <2>4. rtc_channel \in ForeignFds => rtc_channel = left
    BY <1>1, <2>2 DEF ChannelOwned, FdOwned, ForeignFds
  <2>5. ForeignFds \ ForeignFds' \subseteq {rtc_channel} \cap ForeignFds
    BY <2>1, <2>2, OpenedFacts DEF ForeignFds, OpenedUse
  <2> QED  BY <2>1, <2>2, <2>3, <2>4, <2>5, OpenedFacts
           DEF ChannelOwned, ForeignKept
<1>2. CASE rtc_channel = NoFd
  <2>1. rtc_channel' = NoFd /\ rtc_fd' = OpenedFd /\ fdUse' = OpenedUse
    BY <1>2 DEF ClearWatch
  <2>2. FdOwned' /\ ForeignFds \subseteq ForeignFds'
    BY <2>1, OpenedFacts DEF FdOwned, ForeignFds, OpenedUse
  <2> QED  BY <2>1, <2>2, OpenedFacts DEF ChannelOwned, ForeignKept
<1> QED  BY <1>1, <1>2

LEMMA SetAlarmType ==
  ASSUME TypeOK, NEW t \in Expiries, NEW cb \in BOOLEAN,
         NEW clockOk \in BOOLEAN, NEW setOk \in BOOLEAN,
         SetAlarm(t, cb, clockOk, setOk)
  PROVE  TypeOK' /\ ForeignKept
<1> USE DEF Shapes
<1>1. CanOpen /\ IrqAfterOpen \in BOOLEAN
  BY OpenedFacts DEF SetAlarm
<1>2. /\ curr_expiry' \in Expiries \cup {0}
      /\ hwEnabled' \in BOOLEAN
      /\ hwTime' \in 0..MaxTime
  <2>1. CASE RepeatAlarm(t)
    BY <2>1 DEF TypeOK, RepeatAlarm
  <2>2. CASE ProgramAlarm(t, clockOk, setOk)
    <3>1. Floor2(t, IF clockOk THEN now ELSE 0) \in Nat
      BY TimeAssumption DEF TypeOK, Floor2
    <3> QED  BY <2>2, <3>1, TimeAssumption DEF TypeOK, ProgramAlarm
  <2> QED  BY <2>1, <2>2 DEF SetAlarm
<1>3. /\ rtc_fd' \in Fds \cup {NoFd} /\ rtc_channel' \in Fds \cup {NoFd}
      /\ left' \in Fds \cup {NoFd}
      /\ alarm_fired_callback' \in BOOLEAN
      /\ fdUse' \in [Fds -> {"free", "rtc", "foreign"}]
      /\ sources' \in [Fds -> Nat]
      /\ promise' \in Expiries \cup {0}
      /\ FdOwned' /\ ChannelOwned' /\ ForeignKept
  <2>1. CASE ~setOk
    <3>1. /\ rtc_fd' = OpenedFd /\ fdUse' = OpenedUse /\ left' = LeftAfterOpen
          /\ UNCHANGED <<rtc_channel, alarm_fired_callback, sources, promise>>
      BY <2>1 DEF SetAlarm
    <3> QED  BY <1>1, <3>1, OpenedFacts, OpenOnlyLinks DEF TypeOK
  <2>2. CASE setOk /\ cb
    <3>1. /\ AddWatch(OpenedFd)
          /\ promise' = Promised(t) /\ left' = LeftAfterOpen
      BY <2>2 DEF SetAlarm
    <3>2. /\ alarm_fired_callback' = TRUE
          /\ rtc_fd' = OpenedFd /\ fdUse' = OpenedUse
      BY <3>1 DEF AddWatch
    <3> QED  BY <1>1, <3>1, <3>2, OpenedFacts, AddWatchLinks DEF Promised
  <2>3. CASE setOk /\ ~cb
    <3>1. ClearWatch(OpenedFd) /\ promise' = 0 /\ left' = NoFd
      BY <2>3 DEF SetAlarm
    <3>2. alarm_fired_callback' = FALSE /\ sources' = sources
      BY <3>1 DEF ClearWatch
    <3> QED  BY <1>1, <3>1, <3>2, ClearWatchLinks DEF TypeOK
  <2> QED  BY <2>1, <2>2, <2>3
<1> QED  BY <1>1, <1>2, <1>3 DEF TypeOK, SetAlarm

(* What another part of the process opens or closes is not the RTC's.      *)
LEMMA ForeignLinks ==
  ASSUME TypeOK, Foreign
  PROVE  FdOwned' /\ fdUse' \in [Fds -> {"free", "rtc", "foreign"}]
<1> USE DEF TypeOK, Shapes
<1>1. rtc_fd' = rtc_fd
  BY DEF Foreign, module
<1>2. CASE /\ Free # {}
           /\ fdUse' = [fdUse EXCEPT ![LowestFree] = "foreign"]
  <2>1. LowestFree \in Fds /\ fdUse[LowestFree] = "free"
    BY <1>2, LowestFreeIsFree DEF Free
  <2> QED  BY <1>1, <1>2, <2>1 DEF FdOwned
<1>3. CASE \E fd \in ForeignFds : fdUse' = [fdUse EXCEPT ![fd] = "free"]
  BY <1>1, <1>3 DEF FdOwned, ForeignFds
<1> QED  BY <1>2, <1>3 DEF Foreign

LEMMA TypeStep ==
  ASSUME TypeOK, [Next]_vars
  PROVE  TypeOK' /\ (ForeignKept \/ UNCHANGED module)
<1> USE DEF Shapes
<1>1. CASE Open
  BY <1>1 DEF TypeOK, FdOwned, ChannelOwned, Open, glib, rtc, history,
              ForeignKept, ForeignFds
<1>2. CASE Close
  <2>1. /\ rtc_fd' = NoFd /\ rtc_fd \in Fds
        /\ fdUse' = [fdUse EXCEPT ![rtc_fd] = "free"]
        /\ left' = rtc_channel /\ UNCHANGED <<rtc_channel, sources>>
    BY <1>2 DEF TypeOK, Close, glib
  <2>2. FdOwned'
    BY <2>1, NoFdNotFd DEF TypeOK, FdOwned
  <2>3. ChannelOwned'
    BY <2>1 DEF TypeOK, ChannelOwned
  <2>4. ForeignKept
    BY <2>1 DEF TypeOK, FdOwned, ForeignKept, ForeignFds
  <2> QED  BY <1>2, <2>1, <2>2, <2>3, <2>4 DEF TypeOK, Close, glib, rtc
<1>3. CASE ClearAlarm
  BY <1>3, OpenedFacts, OpenOnlyLinks DEF TypeOK, ClearAlarm, glib
<1>4. CASE Query
  BY <1>4, OpenedFacts, OpenOnlyLinks DEF TypeOK, Query, glib
<1>5. ASSUME NEW t \in Expiries, NEW cb \in BOOLEAN,
             NEW clockOk \in BOOLEAN, NEW setOk \in BOOLEAN,
             SetAlarm(t, cb, clockOk, setOk)
      PROVE  TypeOK' /\ ForeignKept
  BY <1>5, SetAlarmType
<1>6. CASE Poll
  BY <1>6 DEF TypeOK, FdOwned, ChannelOwned, Poll, module, rtc, history
<1>7. CASE RtcEvent
  <2>1. ready' \in [Fds -> Nat]
    BY <1>7 DEF TypeOK, RtcEvent
  <2>2. irq' \in BOOLEAN /\ hwEnabled' \in BOOLEAN /\ inCallback' \in BOOLEAN
        /\ promise' \in Expiries \cup {0}
    BY <1>7 DEF TypeOK, RtcEvent
  <2> QED  BY <1>7, <2>1, <2>2
           DEF TypeOK, FdOwned, ChannelOwned, RtcEvent, module
<1>8. CASE CallbackReturns
  BY <1>8 DEF TypeOK, FdOwned, ChannelOwned, CallbackReturns, module, rtc, history
<1>9. CASE Tick
  BY <1>9, TimeAssumption
     DEF TypeOK, FdOwned, ChannelOwned, Tick, module, glib, history
<1>10. CASE Foreign
  BY <1>10, ForeignLinks
     DEF TypeOK, ChannelOwned, Foreign, module, glib, rtc, history
<1>11. CASE UNCHANGED vars
  BY <1>11 DEF TypeOK, FdOwned, ChannelOwned, vars, module, glib, rtc, history
<1> QED
  BY <1>1, <1>2, <1>3, <1>4, <1>5, <1>6, <1>7, <1>8, <1>9, <1>10, <1>11
     DEF Next

LEMMA TypeInit == Init => TypeOK
<1> SUFFICES ASSUME Init PROVE TypeOK
  OBVIOUS
<1>1. /\ fdUse \in [Fds -> {"free", "rtc", "foreign"}]
      /\ sources \in [Fds -> Nat] /\ ready \in [Fds -> Nat]
  BY DEF Init
<1>2. 0 \in 0..MaxTime
  BY TimeAssumption
<1>3. FdOwned /\ ChannelOwned
  BY NoFdNotFd DEF Init, FdOwned, ChannelOwned
<1> QED  BY <1>1, <1>2, <1>3 DEF Init, TypeOK, Shapes

(* The state of the module, the descriptor table and the clock keep their  *)
(* shapes; the driver's descriptor is the only one open on the RTC; and a  *)
(* channel has a source and names that descriptor, or the number the last  *)
(* nyx_module_close left it on.                                            *)
THEOREM TypeCorrect == Spec => []TypeOK
<1>1. TypeOK /\ [Next]_vars => TypeOK'
  BY TypeStep
<1> QED  BY TypeInit, <1>1, PTL DEF Spec

(* No call of the module closes a descriptor that belongs to the rest of   *)
(* the process, but for the number under a channel that a close has left.  *)
THEOREM ForeignUntouched == Spec => ForeignSafe
<1>1. TypeOK /\ [Next]_vars
        => [ForeignFds \ ForeignFds' \subseteq {left} \/ UNCHANGED module]_vars
  BY TypeStep DEF ForeignKept
<1> QED  BY TypeCorrect, <1>1, PTL DEF Spec, ForeignSafe

-----------------------------------------------------------------------------
(* What is promised has a callback to call, an open device and a channel.  *)
PromiseOpen ==
  promise # 0 => alarm_fired_callback /\ rtc_fd # NoFd /\ rtc_channel # NoFd

(* An interrupt is unread over a promise only when its time has come.      *)
InTime == irq /\ promise # 0 => promise <= now

Kept == PromiseOpen /\ PromiseArmed /\ InTime
IInv == TypeOK /\ Kept

(* What a successful system_set_alarm programs is ahead of the clock and   *)
(* no earlier than asked.                                                  *)
LEMMA ProgramArms ==
  ASSUME TypeOK, NEW t \in Expiries, NEW clockOk \in BOOLEAN,
         ProgramAlarm(t, clockOk, TRUE)
  PROVE  hwEnabled' /\ hwTime' >= t /\ hwTime' > now
<1> USE DEF TypeOK, Shapes
<1>1. Floor2(t, IF clockOk THEN now ELSE 0) \in Nat
  BY TimeAssumption DEF Floor2
<1>2. Floor2(t, IF clockOk THEN now ELSE 0) >= t
  BY TimeAssumption DEF Floor2
<1> QED  BY <1>1, <1>2 DEF ProgramAlarm

(* A step that opens the device and promises nothing new.                  *)
LEMMA OpenedKept ==
  ASSUME IInv, CanOpen, irq' = IrqAfterOpen, rtc_fd' = OpenedFd,
         UNCHANGED <<now, hwEnabled, hwTime>>,
         promise' \in {0, promise},
         promise' # 0 => alarm_fired_callback' = TRUE /\ rtc_channel' # NoFd
  PROVE  Kept' /\ (promise' # 0 => promise' = promise /\ irq' = irq)
<1>1. CASE promise' = 0
  BY <1>1 DEF Kept, PromiseOpen, PromiseArmed, InTime
<1>2. CASE promise' # 0
  <2>1. promise' = promise /\ promise # 0 /\ rtc_fd # NoFd
    BY <1>2 DEF IInv, Kept, PromiseOpen
  <2>2. OpenedFd # NoFd /\ irq' = irq
    BY <2>1, OpenedFacts DEF IInv
  <2> QED  BY <1>2, <2>1, <2>2 DEF IInv, Kept, PromiseOpen, PromiseArmed, InTime
<1> QED  BY <1>1, <1>2

LEMMA SetAlarmKept ==
  ASSUME IInv, NEW t \in Expiries, NEW cb \in BOOLEAN,
         NEW clockOk \in BOOLEAN, NEW setOk \in BOOLEAN,
         SetAlarm(t, cb, clockOk, setOk)
  PROVE  Kept'
<1>1. CanOpen /\ irq' = IrqAfterOpen /\ now' = now
  BY DEF SetAlarm
<1>2. CASE ~setOk
  <2>1. /\ rtc_fd' = OpenedFd /\ UNCHANGED <<alarm_fired_callback, promise, rtc_channel>>
        /\ hwEnabled' = hwEnabled /\ hwTime' = hwTime
    BY <1>2 DEF SetAlarm, ProgramAlarm, RepeatAlarm, IInv, TypeOK, Shapes
  <2>2. promise # 0 => alarm_fired_callback = TRUE /\ rtc_channel # NoFd
    BY DEF IInv, Kept, PromiseOpen, TypeOK, Shapes
  <2> QED  BY <1>1, <2>1, <2>2, OpenedKept
<1>3. CASE setOk /\ cb
  <2>1. /\ promise' = Promised(t) /\ alarm_fired_callback' = TRUE
        /\ rtc_fd' = OpenedFd /\ rtc_channel' # NoFd
    BY <1>1, <1>3, AddWatchLinks, NoFdNotFd DEF SetAlarm, AddWatch, IInv
  <2>2. CASE RepeatAlarm(t)
    <3>1. promise' \in {0, promise} /\ UNCHANGED <<hwEnabled, hwTime>>
      BY <2>1, <2>2 DEF RepeatAlarm, Promised
    <3> QED  BY <1>1, <2>1, <3>1, OpenedKept
  <2>3. CASE ProgramAlarm(t, clockOk, setOk)
    <3>1. hwEnabled' /\ hwTime' >= t /\ hwTime' > now
      BY <1>3, <2>3, ProgramArms DEF IInv
    <3>2. promise' = 0 \/ (promise' = t /\ ~irq')
      BY <1>1, <2>1, <2>3 DEF ProgramAlarm, Promised
    <3>3. OpenedFd # NoFd
      BY <1>1, OpenedFacts DEF IInv
    <3> QED  BY <1>1, <2>1, <3>1, <3>2, <3>3
             DEF Kept, PromiseOpen, PromiseArmed, InTime
  <2> QED  BY <2>2, <2>3 DEF SetAlarm
<1>4. CASE setOk /\ ~cb
  BY <1>4 DEF SetAlarm, Kept, PromiseOpen, PromiseArmed, InTime
<1> QED  BY <1>2, <1>3, <1>4

(* The clock reaching an armed alarm raises the interrupt.                 *)
LEMMA TickKept ==
  ASSUME IInv, Tick
  PROVE  Kept'
<1> USE DEF IInv, Kept, PromiseOpen, PromiseArmed, InTime, TypeOK, Shapes
<1>1. /\ now' = now + 1
      /\ UNCHANGED <<promise, hwTime, alarm_fired_callback, rtc_fd, rtc_channel>>
  BY DEF Tick, module, history
<1>2. CASE hwEnabled /\ hwTime = now + 1
  BY <1>1, <1>2, TimeAssumption DEF Tick
<1>3. CASE ~(hwEnabled /\ hwTime = now + 1)
  <2>1. irq' = irq /\ hwEnabled' = hwEnabled
    BY <1>3 DEF Tick
  <2> QED  BY <1>1, <1>3, <2>1, TimeAssumption
<1> QED  BY <1>2, <1>3

LEMMA KeptStep == IInv /\ [Next]_vars => Kept'
<1> SUFFICES ASSUME IInv, [Next]_vars PROVE Kept'
  OBVIOUS
<1> USE DEF IInv, Kept, PromiseOpen, PromiseArmed, InTime
<1>1. CASE Open
  BY <1>1 DEF Open, rtc, history
<1>2. CASE Close
  BY <1>2 DEF Close
<1>3. CASE ClearAlarm
  BY <1>3 DEF ClearAlarm
<1>4. CASE Query
  BY <1>4 DEF Query
<1>5. ASSUME NEW t \in Expiries, NEW cb \in BOOLEAN,
             NEW clockOk \in BOOLEAN, NEW setOk \in BOOLEAN,
             SetAlarm(t, cb, clockOk, setOk)
      PROVE  Kept'
  BY <1>5, SetAlarmKept
<1>6. CASE Poll
  BY <1>6 DEF Poll, module, rtc, history
<1>7. CASE RtcEvent
  BY <1>7 DEF RtcEvent, module
<1>8. CASE CallbackReturns
  BY <1>8 DEF CallbackReturns, module, rtc, history
<1>9. CASE Tick
  BY <1>9, TickKept
<1>10. CASE Foreign
  BY <1>10 DEF Foreign, module, rtc, history
<1>11. CASE UNCHANGED vars
  BY <1>11 DEF vars, module, rtc, history
<1> QED
  BY <1>1, <1>2, <1>3, <1>4, <1>5, <1>6, <1>7, <1>8, <1>9, <1>10, <1>11
     DEF Next

LEMMA Inductive == Spec => []IInv
<1>1. Init => IInv
  BY TypeInit DEF IInv, Kept, Init, PromiseOpen, PromiseArmed, InTime
<1>2. IInv /\ [Next]_vars => IInv'
  BY TypeStep, KeptStep DEF IInv
<1> QED  BY <1>1, <1>2, PTL DEF Spec

(* For every clock bound and every set of expiries and descriptors, and    *)
(* through failing ioctls, clears, closes and sets over an unread          *)
(* interrupt, an alarm a client can rely on is in the hardware.            *)
THEOREM AlarmArmed == Spec => []PromiseArmed
<1>1. IInv => PromiseArmed  BY DEF IInv, Kept
<1> QED  BY Inductive, <1>1, PTL

(* A promised alarm always has rtc_event attached to a channel, whatever   *)
(* descriptors the rest of the process takes: to the descriptor the RTC    *)
(* will make readable, unless a close has left the channel elsewhere.      *)
THEOREM AlarmWatched == Spec => []PromiseWatched
<1>1. IInv => PromiseWatched
  BY DEF IInv, Kept, TypeOK, Shapes, PromiseOpen, ChannelOwned, PromiseWatched
<1> QED  BY Inductive, <1>1, PTL

-----------------------------------------------------------------------------
(* What the abstract alarm sees of a step that neither sets nor calls: the *)
(* promise stays, or is withdrawn with or without its alarm.               *)
ClockVars == <<now, promise, Owed, inCallback>>

LEMMA OwedType == Owed \in 0..2 /\ (irq => Owed >= 1)
  BY DEF Owed

(* A device that is opened again drops an interrupt, but then nothing was  *)
(* promised: the alarm is as good as withdrawn.                            *)
LEMMA OpenedWithdraws ==
  ASSUME IInv, irq' = IrqAfterOpen, hwEnabled' \in {FALSE, hwEnabled},
         UNCHANGED <<hwTime, now, inCallback>>,
         \/ promise' = 0
         \/ promise' = promise /\ hwEnabled' = hwEnabled
  PROVE  Clock!Withdraw \/ UNCHANGED ClockVars
<1>1. (irq' => irq) /\ (Ahead' => Ahead)
  <2>1. hwEnabled' => hwEnabled
    BY DEF IInv, TypeOK, Shapes
  <2>2. now' = now /\ hwTime' = hwTime
    OBVIOUS
  <2> QED  BY <2>1, <2>2 DEF Ahead, IrqAfterOpen
<1>2. Owed' \in 0..Owed
  BY <1>1 DEF Owed
<1>3. CASE promise' = 0
  BY <1>2, <1>3 DEF Clock!Withdraw
<1>4. CASE promise' # 0
  <2>1. rtc_fd # NoFd
    BY <1>4 DEF IInv, Kept, PromiseOpen
  <2>2. irq' = irq /\ promise' = promise /\ hwEnabled' = hwEnabled
    BY <1>4, <2>1 DEF IrqAfterOpen, IInv, TypeOK, Shapes
  <2> QED  BY <2>2 DEF ClockVars, Owed, Ahead
<1> QED  BY <1>3, <1>4

LEMMA SetAlarmClock ==
  ASSUME IInv, NEW t \in Expiries, NEW cb \in BOOLEAN,
         NEW clockOk \in BOOLEAN, NEW setOk \in BOOLEAN,
         SetAlarm(t, cb, clockOk, setOk)
  PROVE  Clock!Set \/ Clock!Withdraw \/ UNCHANGED ClockVars
<1>1. irq' = IrqAfterOpen /\ UNCHANGED <<now, inCallback>>
  BY DEF SetAlarm
<1>2. CASE ~setOk
  <2>1. hwEnabled' = hwEnabled /\ hwTime' = hwTime /\ promise' = promise
    BY <1>2 DEF SetAlarm, ProgramAlarm, RepeatAlarm, IInv, TypeOK, Shapes
  <2> QED  BY <1>1, <2>1, OpenedWithdraws
<1>3. CASE setOk /\ RepeatAlarm(t)
  <2>1. /\ hwEnabled' = hwEnabled /\ hwTime' = hwTime
        /\ promise' \in {0, promise}
    BY <1>3 DEF SetAlarm, RepeatAlarm, Promised
  <2> QED  BY <1>1, <2>1, OpenedWithdraws
<1>4. CASE setOk /\ ProgramAlarm(t, clockOk, setOk)
  <2>1. promise' \in Expiries \cup {0}
    BY <1>4, SetAlarmType DEF IInv, TypeOK, Shapes
  <2>2. Ahead' = TRUE
    BY <1>1, <1>4, ProgramArms DEF IInv, Ahead
  <2>3. irq' => irq
    BY <1>1 DEF IrqAfterOpen
  <2>4. Owed' \in 1..(Owed + 1)
    BY <2>2, <2>3 DEF Owed
  <2> QED  BY <1>1, <2>1, <2>4 DEF Clock!Set
<1> QED  BY <1>2, <1>3, <1>4 DEF SetAlarm

(* rtc_event is the call, when there is somebody to call.                  *)
LEMMA RtcEventClock ==
  ASSUME IInv, RtcEvent
  PROVE  Clock!Call \/ Clock!Withdraw \/ UNCHANGED ClockVars
<1>1. ~inCallback /\ UNCHANGED <<now, hwTime, alarm_fired_callback>>
  BY DEF RtcEvent, module
<1>2. CASE rtc_fd = NoFd
  BY <1>1, <1>2 DEF RtcEvent, ClockVars, Owed, Ahead
<1>3. CASE rtc_fd # NoFd
  <2>1. irq /\ irq' = FALSE /\ (Ahead' => Ahead)
    BY <1>1, <1>3 DEF RtcEvent, Ahead
  <2>2. Owed > 0 /\ Owed' \in 0..(Owed - 1)
    BY <2>1 DEF Owed
  <2>3. promise <= now
    BY <2>1, TimeAssumption DEF IInv, Kept, InTime, TypeOK, Shapes
  <2>4. CASE alarm_fired_callback
    <3>1. inCallback' = TRUE /\ promise' = 0
      BY <1>3, <2>4 DEF RtcEvent, IInv, TypeOK, Shapes
    <3> QED  BY <1>1, <2>2, <2>3, <3>1 DEF Clock!Call
  <2>5. CASE ~alarm_fired_callback
    <3>1. promise = 0 /\ promise' = 0 /\ inCallback' = inCallback
      BY <1>1, <1>3, <2>5 DEF RtcEvent, IInv, TypeOK, Shapes, Kept, PromiseOpen
    <3>2. Owed' \in 0..Owed
      BY <2>2, OwedType
    <3> QED  BY <1>1, <3>1, <3>2 DEF Clock!Withdraw
  <2> QED  BY <2>4, <2>5
<1> QED  BY <1>2, <1>3

(* An alarm whose time comes stays owed: its interrupt is unread, for one  *)
(* call with an interrupt that was unread before.                          *)
LEMMA TickClock ==
  ASSUME IInv, Tick
  PROVE  Clock!Tick
<1>1. now' = now + 1 /\ UNCHANGED <<promise, inCallback, hwTime>>
  BY DEF Tick, glib, history
<1>2. CASE hwEnabled /\ hwTime = now + 1
  <2>1. irq' /\ ~Ahead' /\ Ahead
    <3>1. irq'
      BY <1>2 DEF Tick
    <3>2. hwTime > now /\ ~(hwTime' > now')
      BY <1>1, <1>2 DEF IInv, TypeOK, Shapes
    <3> QED  BY <1>2, <3>1, <3>2 DEF Ahead
  <2>2. Owed' = 1 /\ Owed \in 1..2
    BY <2>1 DEF Owed
  <2> QED  BY <1>1, <2>2 DEF Clock!Tick
<1>3. CASE ~(hwEnabled /\ hwTime = now + 1)
  <2>1. irq' = irq /\ hwEnabled' = hwEnabled
    BY <1>3 DEF Tick, IInv, TypeOK, Shapes
  <2>2. Ahead' <=> Ahead
    BY <1>1, <1>3, <2>1 DEF Ahead, IInv, TypeOK, Shapes
  <2>3. Owed' = Owed
    BY <2>1, <2>2 DEF Owed
  <2> QED  BY <1>1, <2>3, OwedType DEF Clock!Tick
<1> QED  BY <1>2, <1>3

LEMMA ClockStep == IInv /\ [Next]_vars => [Clock!Next]_ClockVars
<1> SUFFICES ASSUME IInv, [Next]_vars PROVE [Clock!Next]_ClockVars
  OBVIOUS
<1> USE DEF Clock!Next
<1>1. CASE Open
  BY <1>1 DEF Open, ClockVars, Owed, Ahead, glib, rtc, history
<1>2. CASE Close
  <2>1. promise' = 0 /\ UNCHANGED <<now, irq, hwEnabled, hwTime, inCallback>>
    BY <1>2 DEF Close, glib, rtc
  <2>2. Owed' = Owed
    BY <2>1 DEF Owed, Ahead
  <2> QED  BY <2>1, <2>2, OwedType DEF Clock!Withdraw
<1>3. CASE ClearAlarm
  BY <1>3, OpenedWithdraws DEF ClearAlarm, glib
<1>4. CASE Query
  BY <1>4, OpenedWithdraws DEF Query, glib
<1>5. ASSUME NEW t \in Expiries, NEW cb \in BOOLEAN,
             NEW clockOk \in BOOLEAN, NEW setOk \in BOOLEAN,
             SetAlarm(t, cb, clockOk, setOk)
      PROVE  [Clock!Next]_ClockVars
  BY <1>5, SetAlarmClock
<1>6. CASE Poll
  BY <1>6 DEF Poll, ClockVars, Owed, Ahead, rtc, history
<1>7. CASE RtcEvent
  BY <1>7, RtcEventClock
<1>8. CASE CallbackReturns
  <2>1. inCallback = TRUE
    BY <1>8 DEF CallbackReturns, IInv, TypeOK, Shapes
  <2> QED  BY <1>8, <2>1
           DEF CallbackReturns, Clock!Return, Owed, Ahead, rtc, history
<1>9. CASE Tick
  BY <1>9, TickClock
<1>10. CASE Foreign
  BY <1>10 DEF Foreign, ClockVars, Owed, Ahead, glib, rtc, history
<1>11. CASE UNCHANGED vars
  BY <1>11 DEF vars, ClockVars, Owed, Ahead, glib, rtc, history
<1> QED
  BY <1>1, <1>2, <1>3, <1>4, <1>5, <1>6, <1>7, <1>8, <1>9, <1>10, <1>11
     DEF Next

LEMMA ClockInit == Init => Clock!Init
  BY DEF Init, Clock!Init, Owed, Ahead

(* The module implements the alarm clock: nobody is called before the time *)
(* promised last, nor more often than alarms were set, through clears,     *)
(* failing ioctls, sets over an unread interrupt, closes and reopens.      *)
THEOREM AlarmImplementsClock == Spec => ImplementsAlarm
<1>1. IInv /\ [Next]_vars => [Clock!Next]_ClockVars
  BY ClockStep
<1> QED  BY <1>1, Inductive, ClockInit, PTL
            DEF Spec, ImplementsAlarm, Clock!Spec, ClockVars
=============================================================================
