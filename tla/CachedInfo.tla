----------------------------- MODULE CachedInfo -----------------------------
(***************************************************************************)
(* The strings the OSInfo and DeviceInfo modules get from commands and     *)
(* files: read_info (os_info.c.in) and execute_read_info                   *)
(* (device_info_generic.c.in) read one at the first query and keep it in   *)
(* the device for the queries after it.                                    *)
(***************************************************************************)
CONSTANTS
  Fields,       (* the members of the device: kernel_version, bdaddr, ...  *)
  Texts         (* what a command may print                                *)

(* Where there is no text: a member is NULL, or a buffer that getdelim     *)
(* allocated and did not fill; a command prints nothing, or cannot be      *)
(* started; a query gives nothing.                                         *)
CONSTANTS NULL, Garbage, Nothing, NoCommand

ASSUME TextsAssumption == Texts \cap {NULL, Garbage, Nothing, NoCommand} = {}
ASSUME OutputsAssumption == NoCommand # Nothing

VARIABLES
  opened,       (* the device is open                                      *)
  member,       (* the members of the device                               *)
  source,       (* what the command of each member would print now, or     *)
                (* NoCommand when it cannot be started                     *)
  answer        (* history: what the last query of each field gave         *)

infoVars == <<opened, member, source, answer>>

Outputs == Texts \cup {NoCommand, Nothing}

InfoInit ==
  /\ opened = FALSE /\ member = [f \in Fields |-> NULL]
  /\ source \in [Fields -> Outputs]
  /\ answer = [f \in Fields |-> Nothing]

(* Mutant: the members are not set to NULL.                                *)
MStart(open) ==
  /\ opened' = open
  /\ answer' = [f \in Fields |-> Nothing]
  /\ UNCHANGED <<source, member>>

Start(open) ==
  /\ opened' = open /\ member' = [f \in Fields |-> NULL]
  /\ answer' = [f \in Fields |-> Nothing]
  /\ UNCHANGED source

InfoOpen == ~opened /\ Start(TRUE)

(* nyx_module_close frees the members that are not NULL.                   *)
InfoClose == opened /\ Start(FALSE)

(* Mutant: the command is run at every query.                              *)
MCacheHit(f) == FALSE

CacheHit(f) == member[f] # NULL

(* The error of read_info is NYX_ERROR_NONE.                               *)
Answered(f) == CacheHit(f) \/ source[f] \in Texts

(* os_info_query and device_info_query: read_info, then *dest.  At the end *)
(* of the file before any character getdelim returns -1, and the query     *)
(* fails, but the buffer it allocated stays in the member.                 *)
Query(f) ==
  /\ opened
  /\ \/ CacheHit(f) /\ UNCHANGED member
     \/ ~CacheHit(f) /\ source[f] = NoCommand /\ UNCHANGED member
     \/ ~CacheHit(f) /\ source[f] = Nothing /\ member' = [member EXCEPT ![f] = Garbage]
     \/ ~CacheHit(f) /\ source[f] \in Texts /\ member' = [member EXCEPT ![f] = source[f]]
  /\ answer' = [answer EXCEPT ![f] = IF Answered(f) THEN member'[f] ELSE Nothing]
  /\ UNCHANGED <<opened, source>>

(* The world changes: hci0 appears, a package is installed.                *)
Change(f) ==
  \E output \in Outputs :
    /\ source' = [source EXCEPT ![f] = output]
    /\ UNCHANGED <<opened, member, answer>>

InfoNext == InfoOpen \/ InfoClose \/ \E f \in Fields : Query(f) \/ Change(f)

InfoSpec == InfoInit /\ [][InfoNext]_infoVars

-----------------------------------------------------------------------------
(* The shapes of the state; a device that is closed keeps nothing.         *)
InfoTypeOK ==
  /\ opened \in BOOLEAN
  /\ member \in [Fields -> Texts \cup {NULL, Garbage}]
  /\ source \in [Fields -> Outputs]
  /\ answer \in [Fields -> Texts \cup {NULL, Garbage, Nothing}]
  /\ ~opened => \A f \in Fields : member[f] = NULL

(* A string a client was given stays the answer until the device is closed,*)
(* whatever the command would print later: clients keep the pointer.       *)
AnswersStand ==
  [][opened /\ opened' =>
       \A f \in Fields : answer[f] \in Texts => answer'[f] = answer[f]]_infoVars

(* What a successful query gives is information that was read: a member    *)
(* that is not NULL is taken for valid.                                    *)
AnswersValid == \A f \in Fields : answer[f] \in Texts \cup {Nothing}
=============================================================================
