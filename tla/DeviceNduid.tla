---------------------------- MODULE DeviceNduid ----------------------------
(***************************************************************************)
(* The device's unique id (device_info_generic.c.in): nyx_module_open reads*)
(* it from the file nduid, or else generates one and writes the file, step *)
(* by step as the file system sees it: fopen(.., "w") truncates, fwrite    *)
(* only fills stdio's buffer, fclose writes it.  Several processes open the*)
(* module, at any time; a process may die at any step, and any call to the *)
(* file system may fail, the reading of a good file too.  An id is a       *)
(* number; generating gives one never seen before (random bytes, hashed).  *)
(***************************************************************************)
EXTENDS Integers

CONSTANTS
  Procs,        (* the processes that open the module                      *)
  MaxIds        (* bound on the ids ever generated                         *)

ASSUME IdsAssumption == MaxIds \in Nat

NoId == 0                 \* no id; in the file: missing or shorter than an id

VARIABLES
  file,       (* what read_device_nduid would find in NDUID_PATH           *)
  made,       (* the number of ids generated                               *)
  pc,         (* of each process: "closed", "read", "generate", "write",   *)
              (* "chmod", "fclose" or "open"                               *)
  nduid,      (* of each process: nduid_str                                *)
  failed,     (* of each process: write_device_nduid has met an error      *)
  told,       (* history: the last id a client was given, or NoId          *)
  doubtful    (* history: ids that a file system error or a race may have  *)
              (* lost: passed over by a read that failed, given out by an  *)
              (* open whose fclose wrote nothing, or given out while       *)
              (* another process was making one                            *)

vars == <<file, made, pc, nduid, failed, told, doubtful>>

Init ==
  /\ file = NoId /\ made = 0
  /\ pc = [p \in Procs |-> "closed"]
  /\ nduid = [p \in Procs |-> NoId]
  /\ failed = [p \in Procs |-> FALSE]
  /\ told = NoId /\ doubtful = {}

(* Another process is between a read that found nothing and its fclose.    *)
Making == {"generate", "write", "chmod", "fclose"}
Racing(p) == \E q \in Procs \ {p} : pc[q] \in Making

Doubt(ids) == doubtful' = doubtful \cup ids

Goto(p, label) == pc' = [pc EXCEPT ![p] = label]

(* nyx_module_open up to read_device_nduid.                                *)
Open(p) ==
  /\ pc[p] = "closed"
  /\ Goto(p, "read")
  /\ UNCHANGED <<file, made, nduid, failed, told, doubtful>>

(* Mutant: fread's result, 1, is compared with the length of an id.        *)
MReadLength(p) ==
  /\ pc[p] = "read" /\ Goto(p, "generate")
  /\ UNCHANGED <<file, made, nduid, failed, told, doubtful>>

(* Mutant: a file too short is accepted.                                   *)
MReadShort(p) ==
  /\ pc[p] = "read" /\ Goto(p, "open")
  /\ nduid' = [nduid EXCEPT ![p] = file]
  /\ told' = file
  /\ UNCHANGED <<file, made, failed, doubtful>>

(* read_device_nduid: there is no file, it is too short, or fopen or fread *)
(* fails; all the same to get_device_nduid, which makes a new id.          *)
Read(p) ==
  /\ pc[p] = "read"
  /\ \/ /\ file # NoId /\ Goto(p, "open")
        /\ nduid' = [nduid EXCEPT ![p] = file]
        /\ told' = file
        /\ Doubt(IF Racing(p) THEN {file} ELSE {})
     \/ /\ Goto(p, "generate")
        /\ Doubt({file} \ {NoId})
        /\ UNCHANGED <<nduid, told>>
  /\ UNCHANGED <<file, made, failed>>

(* nyx_module_open fails, or the client closes, or the process dies: an id *)
(* in a buffer only is gone.                                               *)
Leave(p) ==
  /\ pc[p] # "closed" /\ Goto(p, "closed")
  /\ nduid' = [nduid EXCEPT ![p] = NoId]
  /\ failed' = [failed EXCEPT ![p] = FALSE]
  /\ UNCHANGED <<file, made, told, doubtful>>

(* generate_device_nduid up to write_device_nduid; without random bytes it *)
(* fails (Leave).                                                          *)
Generate(p) ==
  /\ pc[p] = "generate" /\ Goto(p, "write")
  /\ made < MaxIds /\ made' = made + 1
  /\ nduid' = [nduid EXCEPT ![p] = made + 1]
  /\ UNCHANGED <<file, failed, told, doubtful>>

(* write_device_nduid: fopen truncates the file; if it fails, so does the  *)
(* open (Leave).                                                           *)
Truncate(p) ==
  /\ pc[p] = "write" /\ Goto(p, "chmod")
  /\ file' = NoId
  /\ UNCHANGED <<made, nduid, failed, told, doubtful>>

(* chmod may fail; the file is closed all the same.                        *)
Chmod(p) ==
  /\ pc[p] = "chmod" /\ Goto(p, "fclose")
  /\ failed' = [failed EXCEPT ![p] = TRUE] \/ UNCHANGED failed
  /\ UNCHANGED <<file, made, nduid, told, doubtful>>

(* Mutant: an error in writing is forgotten, and the id not written.       *)
MFclose(p) ==
  /\ pc[p] = "fclose"
  /\ file' = IF failed[p] THEN file ELSE nduid[p]
  /\ Goto(p, "open") /\ told' = nduid[p]
  /\ Doubt(IF Racing(p) THEN {nduid[p]} ELSE {})
  /\ UNCHANGED <<made, nduid, failed>>

(* fclose, whose result is not looked at, and the return to the client: an *)
(* id, or, after an error, no device.                                      *)
Fclose(p) ==
  /\ pc[p] = "fclose"
  /\ file' = nduid[p] \/ UNCHANGED file
  /\ IF failed[p]
     THEN /\ Goto(p, "closed") /\ UNCHANGED <<told, doubtful>>
          /\ nduid' = [nduid EXCEPT ![p] = NoId]
          /\ failed' = [failed EXCEPT ![p] = FALSE]
     ELSE /\ Goto(p, "open") /\ told' = nduid[p]
          /\ Doubt(IF file' # nduid[p] \/ Racing(p) THEN {nduid[p]} ELSE {})
          /\ UNCHANGED <<nduid, failed>>
  /\ UNCHANGED made

Next ==
  \E p \in Procs : \/ Open(p) \/ Read(p) \/ Leave(p) \/ Generate(p)
                   \/ Truncate(p) \/ Chmod(p) \/ Fclose(p)

Spec == Init /\ [][Next]_vars

-----------------------------------------------------------------------------
Ids    == 0 .. MaxIds
Labels == {"closed", "read", "generate", "write", "chmod", "fclose", "open"}

(* The shapes of the state; an open device has an id.                      *)
TypeOK ==
  /\ file \in Ids /\ made \in Ids /\ told \in Ids
  /\ pc \in [Procs -> Labels] /\ nduid \in [Procs -> Ids]
  /\ failed \in [Procs -> BOOLEAN] /\ doubtful \subseteq Ids \ {NoId}
  /\ \A p \in Procs : pc[p] = "open" => nduid[p] # NoId

(* The device has one id: every open device, in whatever process, has the  *)
(* id in the file, and so has every device opened later, unless its id is  *)
(* one that a file system error or a race of two first opens has lost.     *)
OneId == \A p \in Procs : pc[p] = "open" => nduid[p] \in {file} \cup doubtful

(* An id a client was given is the device's id for ever: no client is given*)
(* another one, through closes, failed opens and deaths at any step, unless*)
(* it is one that a file system error or a race has lost.                  *)
IdForEver == [][told # NoId /\ told \notin doubtful => told' = told]_vars
=============================================================================
