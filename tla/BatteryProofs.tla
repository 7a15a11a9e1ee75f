--------------------------- MODULE BatteryProofs ---------------------------
(***************************************************************************)
(* Proofs about the Battery module, for every full charge and any number   *)
(* of uevents waiting.                                                     *)
(***************************************************************************)
EXTENDS Battery, TLAPS

(* A battery that is not overfull has a percentage.                        *)
LEMMA PercentBounds ==
  ASSUME now \in 0 .. Full, slot \in {"none", "empty", "filled"}, capacity \in BOOLEAN
  PROVE  BatteryPercent \in -1 .. 100
<1> USE FullAssumption
<1>1. Percent \in 0 .. 100
  BY Z3 DEF Percent
<1>2. now \div Full \in 0 .. 100
  BY Z3
<1> QED  BY <1>1, <1>2 DEF BatteryPercent

LEMMA StatusFacts ==
  /\ NoStatus \in Statuses /\ ~NoStatus.present /\ NoStatus.percentage = 0
  /\ \A b \in BOOLEAN, n \in -1 .. 100 : [present |-> b, percentage |-> n] \in Statuses
  BY DEF NoStatus, Statuses

LEMMA PresentRead ==
  ASSUME NEW b \in BOOLEAN
  PROVE  [NoStatus EXCEPT !.present = b] = [present |-> b, percentage |-> 0]
  BY DEF NoStatus

LEMMA PercentageRead ==
  ASSUME NEW s \in Statuses, NEW n \in -1 .. 100
  PROVE  [s EXCEPT !.percentage = n] = [present |-> s.present, percentage |-> n]
  BY DEF Statuses

(* The handler compares all there is to a status.                          *)
LEMMA NotChanged ==
  ASSUME NEW old \in Statuses, NEW new \in Statuses, ~Changed(old, new)
  PROVE  new = old
  BY DEF Statuses, Changed
-----------------------------------------------------------------------------
(* The uevents wait for a monitor only, the open is over when there is one,*)
(* and the percentage is read of a battery that was there.                 *)
TInv ==
  /\ TypeOK
  /\ ~monitor => pending = 0
  /\ monitor => task # "open" /\ pc # "closed"
  /\ task = "event" => monitor
  /\ pc = "percentage" => reading.present

LEMMA TInvInit == Init => TInv
<1> SUFFICES ASSUME Init PROVE TInv
  OBVIOUS
<1>1. pending \in 0 .. MaxPending /\ now \in 0 .. Full
  BY PendingAssumption, FullAssumption DEF Init
<1> QED  BY <1>1, StatusFacts DEF Init, TInv, TypeOK

(* The reading stays one of the shape of a status.                         *)
LEMMA ReadPresentTyped ==
  ASSUME TypeOK, ReadPresent
  PROVE  /\ reading' = [present |-> BatteryIsPresent, percentage |-> 0]
         /\ reading' \in Statuses /\ BatteryIsPresent \in BOOLEAN
<1>1. BatteryIsPresent \in BOOLEAN
  BY DEF BatteryIsPresent, TypeOK
<1>2. reading' = [NoStatus EXCEPT !.present = BatteryIsPresent]
  BY DEF ReadPresent
<1>3. reading' = [present |-> BatteryIsPresent, percentage |-> 0]
  BY <1>1, <1>2, PresentRead, Zenon
<1> QED  BY <1>1, <1>3 DEF Statuses

LEMMA ReadPercentageTyped ==
  ASSUME TypeOK, ReadPercentage
  PROVE  /\ reading' = [present |-> reading.present, percentage |-> BatteryPercent]
         /\ reading' \in Statuses /\ reading.present \in BOOLEAN
<1>1. BatteryPercent \in -1 .. 100 /\ reading.present \in BOOLEAN
  BY PercentBounds DEF TypeOK, Statuses
<1>2. reading' = [reading EXCEPT !.percentage = BatteryPercent] /\ reading \in Statuses
  BY DEF ReadPercentage, TypeOK
<1>3. reading' = [present |-> reading.present, percentage |-> BatteryPercent]
  BY <1>1, <1>2, PercentageRead, Zenon
<1> QED  BY <1>1, <1>3 DEF Statuses

LEMMA TInvStep == TInv /\ [Next]_vars => TInv'
<1> SUFFICES ASSUME TInv, [Next]_vars PROVE TInv'
  OBVIOUS
<1> USE DEF TInv, TypeOK, Read, device, control, history, sysfs
<1>1. CASE Change
  <2>1. pending' \in 0 .. MaxPending /\ (~monitor => pending' = pending)
    BY <1>1, PendingAssumption DEF Change
  <2>2. /\ slot' \in {"none", "empty", "filled"} /\ now' \in 0 .. Full /\ unnoticed' \in BOOLEAN
        /\ UNCHANGED <<capacity, device, control, client, ahead>>
    BY <1>1 DEF Change
  <2> QED  BY <2>1, <2>2
<1>2. CASE ReadPresent
  <2>1. UNCHANGED <<sysfs, pending, device, task, history>>
    BY <1>2 DEF ReadPresent
  <2>2. /\ pc = "present" /\ pc' \in {"percentage", "done"}
        /\ pc' = "percentage" => reading'.present
        /\ reading' \in Statuses /\ reading'.percentage = 0
    BY <1>2, ReadPresentTyped DEF ReadPresent
  <2> QED  BY <2>1, <2>2
<1>3. CASE ReadPercentage
  <2>1. UNCHANGED <<sysfs, pending, device, task, history>>
    BY <1>3 DEF ReadPercentage
  <2>2. pc = "percentage" /\ pc' = "done" /\ reading'.present /\ reading' \in Statuses
    BY <1>3, ReadPercentageTyped DEF ReadPercentage
  <2> QED  BY <2>1, <2>2
<1>4. CASE Open
  <2>1. ~monitor /\ UNCHANGED <<sysfs, pending, monitor, state, history, reading>>
    BY <1>4 DEF Open
  <2>2. found' \in BOOLEAN /\ pc' \in {"present", "idle"} /\ task' \in {"open", task}
    BY <1>4 DEF Open, FindPath
  <2> QED  BY <2>1, <2>2
<1>5. CASE Opened
  BY <1>5 DEF Opened
<1>6. CASE Receive
  <2>1. pending' \in 0 .. MaxPending
    BY <1>6, PendingAssumption DEF Receive
  <2> QED  BY <1>6, <2>1 DEF Receive
<1>7. CASE Handled
  BY <1>7 DEF Handled
<1>8. CASE Query
  BY <1>8 DEF Query
<1>9. CASE Answered
  <2>1. /\ UNCHANGED <<sysfs, pending, device, task, reading, unnoticed>>
        /\ pc' = "idle" /\ client' = reading
    BY <1>9 DEF Answered
  <2>2. ahead' \in BOOLEAN
    BY <1>9 DEF Answered
  <2> QED  BY <2>1, <2>2
<1>10. CASE UNCHANGED vars
  BY <1>10 DEF vars
<1> QED  BY <1>1, <1>2, <1>3, <1>4, <1>5, <1>6, <1>7, <1>8, <1>9, <1>10 DEF Next

(* The shapes of the state hold in every reachable state: also a reading   *)
(* put together from two files gives no absent battery a percentage.       *)
THEOREM BatteryTypeCorrect == Spec => []TypeOK
<1>1. TInv => TypeOK
  BY DEF TInv
<1> QED  BY <1>1, TInvInit, TInvStep, PTL DEF Spec

-----------------------------------------------------------------------------
(* While no change is waiting to be told, nor was missed, what the open or *)
(* the handler has read so far is what sysfs has.                          *)
NoneWaiting == found /\ ~unnoticed /\ pending = 0

ReadingRight ==
  NoneWaiting /\ task # "query" =>
    /\ pc = "percentage" => slot = "filled"
    /\ pc = "done" => reading = Truth

StateRight ==
  NoneWaiting /\ monitor /\ (pc = "idle" \/ task = "query") => state = Truth

CInv == TInv /\ ReadingRight /\ StateRight

LEMMA CInvInit == Init => CInv
  BY TInvInit DEF Init, CInv, ReadingRight, StateRight

(* What the two reads find when nothing changes between them.              *)
LEMMA AbsentIsTruth ==
  ASSUME TypeOK, found, ~BatteryIsPresent
  PROVE  Truth = [present |-> BatteryIsPresent, percentage |-> 0]
<1>1. slot # "filled" /\ BatteryIsPresent = FALSE
  BY DEF BatteryIsPresent, TypeOK
<1> QED  BY <1>1 DEF Truth, NoStatus

LEMMA CInvStep == CInv /\ [Next]_vars => CInv'
<1> SUFFICES ASSUME CInv, [Next]_vars PROVE CInv'
  OBVIOUS
<1>0. TypeOK /\ TInv /\ TInv'
  BY TInvStep DEF CInv, TInv
<1> USE DEF ReadingRight, StateRight, NoneWaiting, Read, device, control, history, sysfs
<1>1. CASE Change
  <2>1. CASE monitor
    <3>1. pending' > 0
      BY <1>0, <1>1, <2>1, PendingAssumption DEF Change, TypeOK
    <3> QED  BY <1>0, <3>1 DEF CInv
  <2>2. CASE ~monitor
    <3>1. ~monitor' /\ UNCHANGED <<task, pc, found, pending>>
      BY <1>1, <2>2 DEF Change
    <3>2. task = "open" /\ pc \in {"percentage", "done"} => unnoticed'
      BY <1>1 DEF Change
    <3>3. task \in {"query", "open"}
      BY <1>0, <2>2 DEF TInv, TypeOK
    <3> QED  BY <1>0, <3>1, <3>2, <3>3 DEF CInv
  <2> QED  BY <2>1, <2>2
<1>2. CASE ReadPresent
  <2>1. UNCHANGED <<sysfs, pending, device, task, history, Truth>>
    BY <1>2 DEF ReadPresent, Truth, BatteryPercent, Percent
  <2>2. pc = "present" /\ pc' = IF BatteryIsPresent THEN "percentage" ELSE "done"
    BY <1>2 DEF ReadPresent
  <2>3. ReadingRight'
    <3>1. CASE BatteryIsPresent
      BY <2>1, <2>2, <3>1 DEF BatteryIsPresent
    <3>2. CASE ~BatteryIsPresent
      BY <1>0, <1>2, <2>1, <2>2, <3>2, ReadPresentTyped, AbsentIsTruth
    <3> QED  BY <3>1, <3>2
  <2>4. StateRight'
    BY <2>1, <2>2 DEF CInv
  <2> QED  BY <1>0, <2>3, <2>4 DEF CInv
<1>3. CASE ReadPercentage
  <2>1. UNCHANGED <<sysfs, pending, device, task, history, Truth>>
    BY <1>3 DEF ReadPercentage, Truth, BatteryPercent, Percent
  <2>2. pc = "percentage" /\ pc' = "done" /\ reading.present
    BY <1>0, <1>3 DEF ReadPercentage, TInv
  <2>3. reading' = [present |-> TRUE, percentage |-> BatteryPercent]
    BY <1>0, <1>3, <2>2, ReadPercentageTyped
  <2>4. ReadingRight'
    BY <2>1, <2>2, <2>3 DEF CInv, Truth
  <2>5. StateRight'
    BY <2>1, <2>2 DEF CInv
  <2> QED  BY <1>0, <2>4, <2>5 DEF CInv
<1>4. CASE Open
  <2>1. ~monitor /\ ~monitor' /\ pc' \in {"present", "idle"}
    BY <1>0, <1>4 DEF Open, TInv
  <2> QED  BY <1>0, <2>1 DEF CInv
<1>5. CASE Opened
  <2>1. UNCHANGED <<sysfs, pending, found, history, Truth>> /\ state' = reading
    BY <1>5 DEF Opened, Truth, BatteryPercent, Percent
  <2>2. NoneWaiting => reading = Truth
    BY <1>5 DEF Opened, CInv
  <2>3. \/ monitor' /\ pc' = "present" /\ task' = "query"
        \/ ~monitor' /\ pc' = "idle"
    BY <1>5 DEF Opened
  <2> QED  BY <1>0, <2>1, <2>2, <2>3 DEF CInv
<1>6. CASE Receive
  BY <1>0, <1>6 DEF Receive, CInv
<1>7. CASE Handled
  <2>1. /\ UNCHANGED <<sysfs, pending, found, monitor, history, Truth>>
        /\ state' = reading
    BY <1>7 DEF Handled, Truth, BatteryPercent, Percent
  <2>2. NoneWaiting => reading = Truth
    BY <1>7 DEF Handled, CInv
  <2>3. pc' \in {"idle", "present"}
    BY <1>7 DEF Handled
  <2> QED  BY <1>0, <2>1, <2>2, <2>3 DEF CInv
<1>8. CASE Query
  <2>1. UNCHANGED <<sysfs, pending, device, history, Truth>>
    BY <1>8 DEF Query, Truth, BatteryPercent, Percent
  <2>2. pc = "idle" /\ pc' = "present" /\ task' = "query"
    BY <1>8 DEF Query
  <2> QED  BY <1>0, <2>1, <2>2 DEF CInv
<1>9. CASE Answered
  <2>1. UNCHANGED <<sysfs, pending, device, task, unnoticed, Truth>>
    BY <1>9 DEF Answered, Truth, BatteryPercent, Percent
  <2>2. pc = "done" /\ task = "query" /\ pc' = "idle"
    BY <1>9 DEF Answered
  <2> QED  BY <1>0, <2>1, <2>2 DEF CInv
<1>10. CASE UNCHANGED vars
  <2>1. UNCHANGED Truth
    BY <1>10 DEF vars, Truth, BatteryPercent, Percent
  <2> QED  BY <1>0, <1>10, <2>1 DEF vars, CInv
<1> QED  BY <1>1, <1>2, <1>3, <1>4, <1>5, <1>6, <1>7, <1>8, <1>9, <1>10 DEF Next

(* With every uevent handled the module's copy is what sysfs has, although *)
(* its files were read one after the other, for a battery that the open    *)
(* found, unless it changed between the open's reading and the monitor.    *)
THEOREM BatteryCacheCurrent == Spec => []CacheCurrent
<1>1. CInv => CacheCurrent
  BY DEF CInv, StateRight, NoneWaiting, CacheCurrent, AtRest
<1> QED  BY <1>1, CInvInit, CInvStep, PTL DEF Spec

-----------------------------------------------------------------------------
(* A client that is not ahead of the module has the module's copy, unless  *)
(* it is asking.                                                           *)
ClientHasCopy ==
  monitor /\ ~ahead /\ (pc = "idle" \/ task # "query") => client = state

LEMMA ClientInit == Init => ClientHasCopy
  BY DEF Init, ClientHasCopy

LEMMA ClientStep == TInv /\ ClientHasCopy /\ [Next]_vars => ClientHasCopy'
<1> SUFFICES ASSUME TInv, ClientHasCopy, [Next]_vars PROVE ClientHasCopy'
  OBVIOUS
<1> USE DEF ClientHasCopy, Read, device, control, history, sysfs
<1>1. CASE Change
  BY <1>1 DEF Change
<1>2. CASE ReadPresent
  BY <1>2 DEF ReadPresent
<1>3. CASE ReadPercentage
  BY <1>3 DEF ReadPercentage
<1>4. CASE Open
  BY <1>4 DEF Open, TInv
<1>5. CASE Opened
  BY <1>5 DEF Opened
<1>6. CASE Receive
  BY <1>6 DEF Receive
<1>7. CASE Handled
  <2>1. CASE Changed(state, reading)
    BY <1>7, <2>1 DEF Handled
  <2>2. CASE ~Changed(state, reading)
    <3>1. state' = state
      BY <1>7, <2>2, NotChanged DEF Handled, TInv, TypeOK
    <3> QED  BY <1>7, <2>2, <3>1 DEF Handled
  <2> QED  BY <2>1, <2>2
<1>8. CASE Query
  BY <1>8 DEF Query
<1>9. CASE Answered
  BY <1>9 DEF Answered
<1>10. CASE UNCHANGED vars
  BY <1>10 DEF vars
<1> QED  BY <1>1, <1>2, <1>3, <1>4, <1>5, <1>6, <1>7, <1>8, <1>9, <1>10 DEF Next

(* With every uevent handled the client's copy is right too: no change goes*)
(* without a callback, unless the client is ahead of the module.           *)
THEOREM BatteryClientKnows == Spec => []ClientKnows
<1>1. CInv /\ ClientHasCopy => ClientKnows
  BY DEF CInv, StateRight, NoneWaiting, ClientHasCopy, ClientKnows, AtRest
<1> QED  BY <1>1, CInvInit, CInvStep, ClientInit, ClientStep, PTL DEF Spec, CInv
=============================================================================
