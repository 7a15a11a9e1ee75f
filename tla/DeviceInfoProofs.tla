-------------------------- MODULE DeviceInfoProofs --------------------------
(***************************************************************************)
(* Proofs about the DeviceInfo and OSInfo modules: the device's unique id, *)
(* for every set of processes and any number of ids ever made, and the     *)
(* strings the modules keep, for every set of members and of texts.        *)
(***************************************************************************)
EXTENDS DeviceNduid, CachedInfo, TLAPS

(* The unique id.                                                          *)

LEMMA IdFacts == NoId \in Ids /\ Ids \subseteq Nat
  BY IdsAssumption DEF NoId, Ids

(* A process that has made an id and not given it out yet.                 *)
Writing == {"write", "chmod", "fclose"}

TInv ==
  /\ TypeOK
  /\ \A p \in Procs : pc[p] \in Writing => nduid[p] # NoId

LEMMA TInvInit == Init => TInv
<1> SUFFICES ASSUME Init PROVE TInv
  OBVIOUS
<1>1. file \in Ids /\ made \in Ids /\ told \in Ids /\ nduid \in [Procs -> Ids]
  BY IdFacts DEF Init, NoId
<1> QED  BY <1>1 DEF Init, TInv, TypeOK, Labels, Writing

LEMMA TInvStep == TInv /\ [Next]_vars => TInv'
<1> SUFFICES ASSUME TInv, [Next]_vars PROVE TInv'
  OBVIOUS
<1> USE IdFacts DEF TInv, TypeOK, Labels, Writing, Goto
<1>1. ASSUME NEW p \in Procs, Open(p) PROVE TInv'
  BY <1>1 DEF Open
<1>2. ASSUME NEW p \in Procs, Read(p) PROVE TInv'
  <2>1. doubtful' \subseteq Ids \ {NoId}
    BY <1>2 DEF Read, Doubt
  <2>2. CASE /\ file # NoId /\ Goto(p, "open")
             /\ nduid' = [nduid EXCEPT ![p] = file] /\ told' = file
    BY <1>2, <2>1, <2>2 DEF Read
  <2>3. CASE Goto(p, "generate") /\ UNCHANGED <<nduid, told>>
    BY <1>2, <2>1, <2>3 DEF Read
  <2> QED  BY <1>2, <2>2, <2>3 DEF Read
<1>3. ASSUME NEW p \in Procs, Leave(p) PROVE TInv'
  BY <1>3 DEF Leave
<1>4. ASSUME NEW p \in Procs, Generate(p) PROVE TInv'
  <2>1. made + 1 \in Ids /\ made + 1 # NoId
    BY <1>4, IdsAssumption DEF Generate, Ids, NoId
  <2> QED  BY <1>4, <2>1 DEF Generate
<1>5. ASSUME NEW p \in Procs, Truncate(p) PROVE TInv'
  BY <1>5 DEF Truncate
<1>6. ASSUME NEW p \in Procs, Chmod(p) PROVE TInv'
  BY <1>6 DEF Chmod
<1>7. ASSUME NEW p \in Procs, Fclose(p) PROVE TInv'
  <2>1. file' \in Ids /\ UNCHANGED made
    BY <1>7 DEF Fclose
  <2>2. CASE failed[p]
    BY <1>7, <2>1, <2>2 DEF Fclose
  <2>3. CASE ~failed[p]
    <3>1. nduid[p] \in Ids \ {NoId}
      BY <1>7 DEF Fclose
    <3>2. doubtful' \subseteq doubtful \cup {nduid[p]}
      BY <1>7, <2>3 DEF Fclose, Doubt
    <3> QED  BY <1>7, <2>1, <2>3, <3>1, <3>2 DEF Fclose
  <2> QED  BY <2>2, <2>3
<1>8. CASE UNCHANGED vars
  BY <1>8 DEF vars
<1> QED  BY <1>1, <1>2, <1>3, <1>4, <1>5, <1>6, <1>7, <1>8 DEF Next

(* The shapes of the state hold in every reachable state, also when opens  *)
(* overlap and reads fail: an open device always has an id.                *)
THEOREM NduidTypeCorrect == Spec => []TypeOK
<1>1. TInv => TypeOK
  BY DEF TInv
<1> QED  BY <1>1, TInvInit, TInvStep, PTL DEF Spec

-----------------------------------------------------------------------------
(* An id that is not in doubt is the one in the file, and nobody is about  *)
(* to write another.                                                       *)
Settled(id) ==
  id \notin doubtful => id = file /\ \A q \in Procs : pc[q] \notin Making

OpenSettled == \A p \in Procs : pc[p] = "open" => Settled(nduid[p])
ToldSettled == told # NoId => Settled(told)

NInv == TInv /\ OpenSettled /\ ToldSettled

LEMMA NInvInit == Init => NInv
  BY TInvInit DEF Init, NInv, OpenSettled, ToldSettled

(* What a step by p leaves: the labels of the others stay, no doubt is     *)
(* dispelled, and ids once settled stay so, or the step has come to make   *)
(* another and has put the id in the file in doubt.                        *)
LEMMA SettledKept ==
  ASSUME NInv, NEW p \in Procs, NEW label \in Labels, Goto(p, label),
         doubtful \subseteq doubtful', NEW id,
         \/ file' = file /\ (label \in Making => pc[p] \in Making \/ file \in doubtful')
         \/ pc[p] \in Making,
         Settled(id)
  PROVE  Settled(id)'
  BY DEF Settled, NInv, TInv, TypeOK, Goto

(* Only the last step of an open gives an id to a client.                  *)
LEMMA NInvStep ==
  NInv /\ [Next]_vars
    => NInv' /\ (told # NoId /\ told \notin doubtful => told' = told)
<1> SUFFICES ASSUME NInv, [Next]_vars
             PROVE  NInv' /\ (told # NoId /\ told \notin doubtful => told' = told)
  OBVIOUS
<1>0. TInv /\ TInv'
  BY TInvStep DEF NInv
<1> DEFINE Goal == NInv' /\ (told # NoId /\ told \notin doubtful => told' = told)
<1>a. ASSUME NEW p \in Procs, NEW label \in Labels \ {"open"}, Goto(p, label),
             doubtful \subseteq doubtful', told' = told,
             \A q \in Procs \ {p} : nduid'[q] = nduid[q],
             \/ file' = file /\ (label \in Making => pc[p] \in Making \/ file \in doubtful')
             \/ pc[p] \in Making
      PROVE  Goal
  <2>1. /\ pc'[p] # "open" /\ \A q \in Procs \ {p} : pc'[q] = pc[q]
    BY <1>0, <1>a DEF TInv, TypeOK, Goto
  <2>2. \A id \in Ids : Settled(id) => Settled(id)'
    BY <1>a, SettledKept
  <2>3. OpenSettled'
    <3> SUFFICES ASSUME NEW q \in Procs, pc'[q] = "open" PROVE Settled(nduid[q])'
      BY DEF OpenSettled
    <3>1. q # p /\ pc[q] = "open" /\ nduid'[q] = nduid[q] /\ nduid[q] \in Ids
      BY <1>0, <1>a, <2>1 DEF TInv, TypeOK
    <3>2. Settled(nduid[q])
      BY <3>1 DEF NInv, OpenSettled
    <3> QED  BY <2>2, <3>1, <3>2 DEF Settled
  <2>4. ToldSettled'
    BY <1>0, <1>a, <2>2 DEF NInv, ToldSettled, Settled, TInv, TypeOK
  <2> QED  BY <1>0, <1>a, <2>3, <2>4 DEF NInv
<1>b. ASSUME NEW p \in Procs, Goto(p, "open"), doubtful \subseteq doubtful',
             told' = nduid'[p], \A q \in Procs \ {p} : nduid'[q] = nduid[q],
             file' = file \/ pc[p] \in Making,
             told' \notin doubtful' => told' = file' /\ ~Racing(p),
             told # NoId /\ told \notin doubtful => told' = told
      PROVE  Goal
  <2>1. pc'[p] = "open" /\ \A q \in Procs \ {p} : pc'[q] = pc[q]
    BY <1>0, <1>b DEF TInv, TypeOK, Goto
  <2>2. Settled(told)'
    BY <1>b, <2>1 DEF Settled, Racing, Making
  <2>3. \A id \in Ids : Settled(id) => Settled(id)'
    BY <1>b, SettledKept DEF Labels, Making
  <2>4. OpenSettled'
    <3> SUFFICES ASSUME NEW q \in Procs, pc'[q] = "open" PROVE Settled(nduid[q])'
      BY DEF OpenSettled
    <3>1. CASE q = p
      BY <1>b, <2>2, <3>1 DEF Settled
    <3>2. CASE q # p
      <4>1. pc[q] = "open" /\ nduid'[q] = nduid[q] /\ nduid[q] \in Ids
        BY <1>0, <1>b, <2>1, <3>2 DEF TInv, TypeOK
      <4>2. Settled(nduid[q])
        BY <4>1 DEF NInv, OpenSettled
      <4> QED  BY <2>3, <4>1, <4>2 DEF Settled
    <3> QED  BY <3>1, <3>2
  <2> QED  BY <1>0, <1>b, <2>2, <2>4 DEF NInv, ToldSettled
<1>c. ASSUME NEW p \in Procs, pc[p] \in Making, told # NoId
      PROVE  told \in doubtful
  BY <1>c DEF NInv, ToldSettled, Settled
<1>1. ASSUME NEW p \in Procs, Open(p) PROVE Goal
  BY <1>1, <1>a DEF Open, Labels, Making
<1>2. ASSUME NEW p \in Procs, Read(p) PROVE Goal
  <2>1. CASE /\ file # NoId /\ Goto(p, "open") /\ told' = file
             /\ nduid' = [nduid EXCEPT ![p] = file]
             /\ Doubt(IF Racing(p) THEN {file} ELSE {})
    <3>1. /\ doubtful \subseteq doubtful' /\ told' = nduid'[p] /\ file' = file
          /\ \A q \in Procs \ {p} : nduid'[q] = nduid[q]
      BY <1>0, <1>2, <2>1 DEF Read, Doubt, TInv, TypeOK
    <3>2. told' \notin doubtful' => told' = file' /\ ~Racing(p)
      BY <2>1, <3>1 DEF Doubt
    <3>3. told # NoId /\ told \notin doubtful => told' = told
      BY <2>1 DEF NInv, ToldSettled, Settled
    <3> QED  BY <1>b, <2>1, <3>1, <3>2, <3>3
  <2>2. CASE Goto(p, "generate") /\ Doubt({file} \ {NoId}) /\ UNCHANGED <<nduid, told>>
    <3>1. CASE file # NoId
      BY <1>2, <1>a, <2>2, <3>1 DEF Read, Doubt, Labels
    <3>2. CASE file = NoId
      (* Nothing is settled then, for nobody has the id NoId. *)
      <4>1. /\ UNCHANGED <<file, doubtful, told, nduid>>
            /\ pc'[p] = "generate" /\ \A q \in Procs \ {p} : pc'[q] = pc[q]
        BY <1>0, <1>2, <2>2, <3>2 DEF Read, Doubt, Goto, TInv, TypeOK
      <4>2. \A id \in Ids \ {NoId} : Settled(id) => Settled(id)'
        BY <3>2, <4>1 DEF Settled
      <4>3. OpenSettled'
        <5> SUFFICES ASSUME NEW q \in Procs, pc'[q] = "open" PROVE Settled(nduid[q])'
          BY DEF OpenSettled
        <5>1. pc[q] = "open" /\ nduid'[q] = nduid[q] /\ nduid[q] \in Ids \ {NoId}
          BY <1>0, <4>1 DEF TInv, TypeOK
        <5>2. Settled(nduid[q])
          BY <5>1 DEF NInv, OpenSettled
        <5> QED  BY <4>2, <5>1, <5>2 DEF Settled
      <4>4. ToldSettled'
        BY <1>0, <4>1, <4>2 DEF NInv, ToldSettled, Settled, TInv, TypeOK
      <4> QED  BY <1>0, <4>1, <4>3, <4>4 DEF NInv
    <3> QED  BY <3>1, <3>2
  <2> QED  BY <1>2, <2>1, <2>2 DEF Read
<1>3. ASSUME NEW p \in Procs, Leave(p) PROVE Goal
  <2>1. \A q \in Procs \ {p} : nduid'[q] = nduid[q]
    BY <1>0, <1>3 DEF Leave, TInv, TypeOK
  <2> QED  BY <1>3, <1>a, <2>1 DEF Leave, Labels, Making
<1>4. ASSUME NEW p \in Procs, Generate(p) PROVE Goal
  <2>1. \A q \in Procs \ {p} : nduid'[q] = nduid[q]
    BY <1>0, <1>4 DEF Generate, TInv, TypeOK
  <2> QED  BY <1>4, <1>a, <2>1 DEF Generate, Labels, Making
<1>5. ASSUME NEW p \in Procs, Truncate(p) PROVE Goal
  BY <1>5, <1>a DEF Truncate, Labels, Making
<1>6. ASSUME NEW p \in Procs, Chmod(p) PROVE Goal
  BY <1>6, <1>a DEF Chmod, Labels, Making
<1>7. ASSUME NEW p \in Procs, Fclose(p) PROVE Goal
  <2>1. pc[p] \in Making
    BY <1>7 DEF Fclose, Making
  <2>2. CASE failed[p]
    <3>1. \A q \in Procs \ {p} : nduid'[q] = nduid[q]
      BY <1>0, <1>7, <2>2 DEF Fclose, TInv, TypeOK
    <3> QED  BY <1>7, <1>a, <2>1, <2>2, <3>1 DEF Fclose, Labels
  <2>3. CASE ~failed[p]
    <3>1. /\ Goto(p, "open") /\ told' = nduid[p] /\ nduid' = nduid
          /\ Doubt(IF file' # nduid[p] \/ Racing(p) THEN {nduid[p]} ELSE {})
      BY <1>7, <2>3 DEF Fclose
    <3>2. /\ doubtful \subseteq doubtful'
          /\ told' \notin doubtful' => told' = file' /\ ~Racing(p)
      BY <3>1 DEF Doubt
    <3>3. told # NoId /\ told \notin doubtful => told' = told
      BY <1>c, <2>1
    <3> QED  BY <1>b, <2>1, <3>1, <3>2, <3>3
  <2> QED  BY <2>2, <2>3
<1>8. CASE UNCHANGED vars
  BY <1>0, <1>8 DEF vars, NInv, OpenSettled, ToldSettled, Settled
<1> QED  BY <1>1, <1>2, <1>3, <1>4, <1>5, <1>6, <1>7, <1>8 DEF Next

(* For any number of processes, opens that overlap, failing reads, failing *)
(* writes and deaths at any step: every open device has the id in the file,*)
(* or one that an error or a race is recorded to have lost.                *)
THEOREM OneIdForAll == Spec => []OneId
<1>1. NInv => OneId
  BY DEF NInv, OpenSettled, Settled, OneId
<1> QED  BY <1>1, NInvInit, NInvStep, PTL DEF Spec

(* No client is ever given another id than the last one given out, unless  *)
(* that one is recorded as lost.                                           *)
THEOREM OneIdForEver == Spec => IdForEver
<1>1. NInv /\ [Next]_vars
        => [told # NoId /\ told \notin doubtful => told' = told]_vars
  BY NInvStep
<1> QED  BY <1>1, NInvInit, NInvStep, PTL DEF Spec, IdForEver

-----------------------------------------------------------------------------
(* The strings that are kept.                                              *)

(* The cases of a query of one member.                                     *)
LEMMA QueryCases ==
  ASSUME InfoTypeOK, NEW f \in Fields, Query(f)
  PROVE  /\ \A g \in Fields \ {f} : member'[g] = member[g] /\ answer'[g] = answer[g]
         /\ \/ member[f] # NULL /\ member'[f] = member[f] /\ answer'[f] = member[f]
            \/ /\ member[f] = NULL /\ source[f] \in Texts
               /\ member'[f] = source[f] /\ answer'[f] = source[f]
            \/ /\ member[f] = NULL
               /\ member'[f] \in {NULL, Garbage} /\ answer'[f] = Nothing
         /\ member' \in [Fields -> Texts \cup {NULL, Garbage}]
         /\ answer' \in [Fields -> Texts \cup {NULL, Garbage, Nothing}]
         /\ opened /\ UNCHANGED <<opened, source>>
<1> USE TextsAssumption, OutputsAssumption DEF InfoTypeOK
<1>1. opened /\ UNCHANGED <<opened, source>>
  BY DEF Query
<1>2. answer' = [answer EXCEPT ![f] = IF Answered(f) THEN member'[f] ELSE Nothing]
  BY DEF Query
<1>3. CASE CacheHit(f)
  <2>1. member[f] # NULL /\ member' = member /\ Answered(f)
    BY <1>3 DEF Query, CacheHit, Answered
  <2>2. answer' = [answer EXCEPT ![f] = member[f]]
    BY <1>2, <2>1
  <2> QED  BY <1>1, <2>1, <2>2
<1>4. CASE ~CacheHit(f) /\ source[f] \in Texts
  <2>1. source[f] # NoCommand /\ source[f] # Nothing /\ Answered(f) /\ member[f] = NULL
    BY <1>4 DEF Answered, CacheHit
  <2>2. member' = [member EXCEPT ![f] = source[f]]
    BY <1>4, <2>1 DEF Query
  <2>3. answer' = [answer EXCEPT ![f] = source[f]]
    BY <1>2, <2>1, <2>2
  <2> QED  BY <1>1, <1>4, <2>1, <2>2, <2>3
<1>5. CASE ~CacheHit(f) /\ source[f] \notin Texts
  <2>1. source[f] \in {NoCommand, Nothing} /\ ~Answered(f) /\ member[f] = NULL
    BY <1>5 DEF Outputs, Answered, CacheHit
  <2>2. member' = member \/ member' = [member EXCEPT ![f] = Garbage]
    BY <1>5, <2>1 DEF Query
  <2>3. answer' = [answer EXCEPT ![f] = Nothing]
    BY <1>2, <2>1
  <2> QED  BY <1>1, <2>1, <2>2, <2>3
<1> QED  BY <1>3, <1>4, <1>5

(* A text that a client has is the one in the member.                      *)
TextsInMembers == \A f \in Fields : answer[f] \in Texts => member[f] = answer[f]

MInv == InfoTypeOK /\ TextsInMembers

LEMMA MInvInit == InfoInit => MInv
  BY TextsAssumption DEF InfoInit, MInv, InfoTypeOK, TextsInMembers

LEMMA MInvStep == MInv /\ [InfoNext]_infoVars => MInv'
<1> SUFFICES ASSUME MInv, [InfoNext]_infoVars PROVE MInv'
  OBVIOUS
<1> USE DEF MInv, TextsInMembers
<1>1. CASE InfoOpen \/ InfoClose
  BY <1>1, TextsAssumption DEF InfoOpen, InfoClose, Start, InfoTypeOK
<1>2. ASSUME NEW f \in Fields, Query(f) PROVE MInv'
  <2>1. InfoTypeOK'
    BY <1>2, QueryCases DEF InfoTypeOK
  <2>2. TextsInMembers'
    BY <1>2, QueryCases, TextsAssumption
  <2> QED  BY <2>1, <2>2
<1>3. ASSUME NEW f \in Fields, Change(f) PROVE MInv'
  BY <1>3 DEF Change, InfoTypeOK
<1>4. CASE UNCHANGED infoVars
  BY <1>4 DEF infoVars, InfoTypeOK
<1> QED  BY <1>1, <1>2, <1>3, <1>4 DEF InfoNext

(* The shapes of the state hold in every reachable state; in particular a  *)
(* device that is closed keeps no string.                                  *)
THEOREM InfoTypeCorrect == InfoSpec => []InfoTypeOK
<1>1. MInv => InfoTypeOK
  BY DEF MInv
<1> QED  BY <1>1, MInvInit, MInvStep, PTL DEF InfoSpec

(* A text once given out is the answer until the close, whatever the       *)
(* commands print later and whatever else is queried.                      *)
THEOREM AnswersStay == InfoSpec => AnswersStand
<1> DEFINE Stand == opened /\ opened' =>
                      \A f \in Fields : answer[f] \in Texts => answer'[f] = answer[f]
<1>1. ASSUME MInv, [InfoNext]_infoVars PROVE [Stand]_infoVars
  <2> USE <1>1 DEF MInv, TextsInMembers
  <2>1. CASE InfoOpen \/ InfoClose
    BY <2>1 DEF InfoOpen, InfoClose, Start
  <2>2. ASSUME NEW f \in Fields, Query(f) PROVE Stand
    BY <2>2, QueryCases, TextsAssumption
  <2>3. ASSUME NEW f \in Fields, Change(f) PROVE Stand
    BY <2>3 DEF Change
  <2>4. CASE UNCHANGED infoVars
    BY <2>4
  <2> QED  BY <2>1, <2>2, <2>3, <2>4 DEF InfoNext
<1> QED  BY <1>1, MInvInit, MInvStep, PTL DEF InfoSpec, AnswersStand
=============================================================================
