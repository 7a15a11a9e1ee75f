------------------------------ MODULE KeyStore ------------------------------
(***************************************************************************)
(* The key store of the Security module: keystore.c, with the key          *)
(* generation of aes.c and rsa.c and the open and close of security.c.     *)
(*                                                                         *)
(* Each process that opens the module has a key store of its own, loaded   *)
(* from keystore.conf when it opens and saved when it closes; the file is  *)
(* replaced as a whole (g_file_set_contents).  A process may die at any    *)
(* time.  A key is a number never used for another key.                    *)
(***************************************************************************)
EXTENDS Integers, FiniteSets

CONSTANTS
  Procs,         (* the processes that use the module                      *)
  MaxIndex,      (* bound on the indices in use                            *)
  MaxKeys,       (* bound on the keys ever generated                       *)
  Alone          (* TRUE: one process at a time has the module open        *)

ASSUME BoundsAssumption == MaxIndex \in Nat /\ MaxKeys \in Nat
ASSUME UseAssumption == Alone \in BOOLEAN

Kinds   == {"aes", "rsa"}
Indices == 0 .. MaxIndex
AnyIndex == -1         \* "client don't care where to put key"
NoKey   == 0
Broken  == -1          \* an RSA structure without a key in it

VARIABLES
  opened,    (* who has the module open                                    *)
  store,     (* keystore of each process: kind -> index -> key             *)
  file,      (* keystore.conf; all NoKey when it does not exist            *)
  made,      (* the number of keys generated                               *)
  handles    (* history: the [kind, index, key] clients may count on       *)

vars == <<opened, store, file, made, handles>>

Empty == [kind \in Kinds |-> [i \in Indices |-> NoKey]]

Init ==
  /\ opened = {} /\ store = [p \in Procs |-> Empty] /\ file = Empty
  /\ made = 0 /\ handles = {}

(* Mutant: only the AES keys are loaded.                                   *)
MOpen(p) ==
  /\ p \notin opened
  /\ Alone => opened = {}
  /\ opened' = opened \cup {p}
  /\ store' = [store EXCEPT ![p]["aes"] = file["aes"]]
  /\ UNCHANGED <<file, made, handles>>

(* nyx_module_open: keystore_init and keystore_load.  (When the file cannot*)
(* be read the store is destroyed and nothing has changed.)                *)
Open(p) ==
  /\ p \notin opened
  /\ Alone => opened = {}
  /\ opened' = opened \cup {p}
  /\ store' = [store EXCEPT ![p] = file]
  /\ UNCHANGED <<file, made, handles>>

(* Mutant: the number of keys is taken for a free index.                   *)
MFreeIndices(table) ==
  {i \in Indices : i = Cardinality({j \in Indices : table[j] # NoKey})}

(* keystore_key_replace looks for the first free index.                    *)
FreeIndices(table) ==
  {i \in Indices : /\ table[i] = NoKey
                   /\ \A j \in 0 .. i - 1 : table[j] # NoKey}

(* keystore_key_replace: where a key for index goes.                       *)
Places(p, kind, index) ==
  IF index = AnyIndex THEN FreeIndices(store[p][kind]) ELSE {index}

Replace(p, kind, i, key) == store' = [store EXCEPT ![p][kind][i] = key]

(* What clients still count on once a client has asked for index.          *)
Others(kind, index) ==
  {h \in handles : index = AnyIndex \/ h.kind # kind \/ h.index # index}

Handed(kind, index, i, key) ==
  handles' = Others(kind, index) \cup {[kind |-> kind, index |-> i, key |-> key]}

(* aes_generate_key, when it returns NONE.                                 *)
CreateAes(p, index) ==
  /\ p \in opened /\ made < MaxKeys /\ made' = made + 1
  /\ \E i \in Places(p, "aes", index) :
       Replace(p, "aes", i, made + 1) /\ Handed("aes", index, i, made + 1)
  /\ UNCHANGED <<opened, file>>

(* rsa_generate_key, when it returns NONE.  The test of                    *)
(* RSA_generate_key_ex for -1 misses its failure, which is 0.  The client  *)
(* of a key that came out broken has nothing to count on.                  *)
CreateRsa(p, index) ==
  /\ p \in opened /\ made < MaxKeys /\ made' = made + 1
  /\ \E i \in Places(p, "rsa", index) :
       \/ Replace(p, "rsa", i, made + 1) /\ Handed("rsa", index, i, made + 1)
       \/ Replace(p, "rsa", i, Broken) /\ handles' = Others("rsa", index)
  /\ UNCHANGED <<opened, file>>

(* keystore_key_lookup: the key aes_crypt and rsa_crypt use.               *)
KeyLookup(s, kind, index) == s[kind][index]

(* The handles that are in a store.                                        *)
In(s) == {h \in handles : KeyLookup(s, h.kind, h.index) = h.key}

(* Mutant: keystore_destroy is forgotten.                                  *)
MLeave(p) ==
  /\ opened' = opened \ {p}
  /\ UNCHANGED <<store, made>>

(* keystore_destroy, or the end of the process.                            *)
Leave(p) ==
  /\ opened' = opened \ {p}
  /\ store' = [store EXCEPT ![p] = Empty]
  /\ UNCHANGED made

(* nyx_module_close, when keystore_save writes the file.  What is written  *)
(* for a broken key may be refused by d2i_RSAPrivateKey at the next load,  *)
(* which leaves the key out: then it is as good as not in the file.        *)
Close(p) ==
  /\ p \in opened
  /\ \E unreadable \in SUBSET {i \in Indices : store[p]["rsa"][i] = Broken} :
       file' = [store[p] EXCEPT !["rsa"] =
                  [i \in Indices |-> IF i \in unreadable THEN NoKey ELSE @[i]]]
  /\ Leave(p)
  /\ UNCHANGED handles

(* The process dies, or keystore_save fails, which nyx_module_close does   *)
(* not report: what is in the file stays.                                  *)
Lose(p) ==
  /\ p \in opened
  /\ handles' = In(file)
  /\ Leave(p)
  /\ UNCHANGED file

Next ==
  \E p \in Procs :
    \/ Open(p) \/ Close(p) \/ Lose(p)
    \/ \E index \in Indices \cup {AnyIndex} : CreateAes(p, index) \/ CreateRsa(p, index)

Spec == Init /\ [][Next]_vars

-----------------------------------------------------------------------------
Keys   == 0 .. MaxKeys
Store  == [Kinds -> [Indices -> Keys \cup {Broken}]]
Handle == [kind : Kinds, index : Indices, key : 1 .. MaxKeys]

(* The shapes of the state; a process without the module has no store.     *)
TypeOK ==
  /\ opened \subseteq Procs
  /\ store \in [Procs -> Store] /\ file \in Store
  /\ made \in 0 .. MaxKeys
  /\ handles \subseteq Handle
  /\ \A p \in Procs \ opened : store[p] = Empty

(* An index a client was given goes on naming the key it was given for,    *)
(* across closes, deaths and opens, whatever keys are created at indices   *)
(* of the store's choosing, until a client overwrites that very index.  (A *)
(* key not saved yet is lost with its process.)                            *)
HandlesKept ==
  /\ opened = {} => In(file) = handles
  /\ \A p \in opened : In(store[p]) = handles

(* The file and the stores of the processes are one table, with commits    *)
(* and rollbacks, for clients that come one at a time: an open shows what  *)
(* the last close saved, a close saves all of it, a death or a failed save *)
(* undoes all that was not saved.                                          *)
Cells == Kinds \X Indices
Flat(s) == [c \in Cells |-> s[c[1]][c[2]]]
Current == IF opened = {} THEN file ELSE store[CHOOSE p \in Procs : p \in opened]

Vault == INSTANCE KeyVault
           WITH Values <- 1 .. MaxKeys \cup {Broken}, Void <- NoKey, Spoilt <- Broken,
                current <- Flat(Current), saved <- Flat(file)
ImplementsVault == Vault!Spec
=============================================================================
