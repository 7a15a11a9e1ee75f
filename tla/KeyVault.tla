------------------------------ MODULE KeyVault ------------------------------
(***************************************************************************)
(* What the key store promises to clients that use it one at a time: a     *)
(* table of keys that outlives the processes.  A key put in is there at    *)
(* once; all changes since the last commit are kept together or undone     *)
(* together, and nothing else ever changes the table.                      *)
(***************************************************************************)
CONSTANTS Cells,        (* where a key can be                              *)
          Values,       (* what can be there                               *)
          Void,         (* no key there                                    *)
          Spoilt        (* a key that came out broken                      *)

VARIABLES current, saved

vault == <<current, saved>>

Init == current = [c \in Cells |-> Void] /\ saved = current

Put ==
  /\ \E c \in Cells, v \in Values : current' = [current EXCEPT ![c] = v]
  /\ UNCHANGED saved

(* A broken key may be gone after it.                                      *)
Commit ==
  /\ \E gone \in SUBSET {c \in Cells : current[c] = Spoilt} :
       current' = [c \in Cells |-> IF c \in gone THEN Void ELSE current[c]]
  /\ saved' = current'

Rollback == current' = saved /\ UNCHANGED saved

Next == Put \/ Commit \/ Rollback

Spec == Init /\ [][Next]_vault
=============================================================================
