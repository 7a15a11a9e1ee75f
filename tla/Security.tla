------------------------------ MODULE Security ------------------------------
(***************************************************************************)
(* The Security module as its clients have it: the key store together with *)
(* the hashing of sha.c, which keeps one running context in each process.  *)
(* The context is neither made by an open nor ended by a close.            *)
(*                                                                         *)
(* "Only single concurrent hash operation supported": the client that      *)
(* began a hash last is the one whose hash is under way.  Others may go on *)
(* updating or finalizing when none is, except after a failed              *)
(* EVP_DigestInit_ex.  Of the data hashed only the number of its pieces is *)
(* kept: one more piece, one more in the context.                          *)
(***************************************************************************)
EXTENDS KeyStore

CONSTANTS
  Algorithms,    (* the entries of sha_algo_data                           *)
  MaxPieces      (* bound on the pieces put into one context               *)

ASSUME PiecesAssumption == MaxPieces \in Nat

Algorithm(name) == name \in Algorithms           \* sha_algo_data_lookup
Unknown == "unknown"
ASSUME UnknownAssumption == ~Algorithm(Unknown)

VARIABLES
  running_mdctx, (* of each process: NULL, or the algorithm and the pieces *)
  hash           (* history: of each process, the hash under way: the      *)
                 (* algorithm asked for and the pieces of its client       *)

hashing == <<running_mdctx, hash>>
securityVars == <<vars, hashing>>

NULL == [algo |-> "none", pieces |-> 0]

SecurityInit ==
  /\ Init
  /\ running_mdctx = [p \in Procs |-> NULL] /\ hash = [p \in Procs |-> NULL]

-----------------------------------------------------------------------------
Put(p, ctx)  == running_mdctx' = [running_mdctx EXCEPT ![p] = ctx]
Mine(p, own) == hash' = [hash EXCEPT ![p] = own]

(* Mutant: a context that is there is used again.                          *)
MInitHash(p, name) ==
  /\ p \in opened
  /\ \/ /\ Algorithm(name)
        /\ Put(p, IF running_mdctx[p] = NULL THEN [algo |-> name, pieces |-> 0]
                  ELSE running_mdctx[p])
        /\ Mine(p, [algo |-> name, pieces |-> 0])
     \/ /\ ~Algorithm(name)
        /\ Mine(p, NULL) /\ UNCHANGED running_mdctx
  /\ UNCHANGED vars

(* sha_init: an unknown algorithm is refused before the context is         *)
(* touched; a context that is there is destroyed, whoever it was for.      *)
(* When EVP_DigestInit_ex fails a context without an algorithm stays.      *)
(* The client of a failed call gives up.                                   *)
InitHash(p, name) ==
  /\ p \in opened
  /\ \/ /\ Algorithm(name)
        /\ Put(p, [algo |-> name, pieces |-> 0])
        /\ Mine(p, [algo |-> name, pieces |-> 0])
     \/ /\ Algorithm(name)
        /\ Put(p, [algo |-> "unset", pieces |-> 0])
        /\ Mine(p, NULL)
     \/ /\ ~Algorithm(name)
        /\ Mine(p, NULL) /\ UNCHANGED running_mdctx
  /\ UNCHANGED vars

(* sha_update adds the piece, or EVP_DigestUpdate fails and adds nothing.  *)
UpdateHash(p) ==
  /\ p \in opened
  /\ running_mdctx[p].algo \in Algorithms /\ running_mdctx[p].pieces < MaxPieces
  /\ \/ /\ Put(p, [running_mdctx[p] EXCEPT !.pieces = @ + 1])
        /\ IF hash[p] = NULL THEN UNCHANGED hash
           ELSE Mine(p, [hash[p] EXCEPT !.pieces = @ + 1])
     \/ Mine(p, NULL) /\ UNCHANGED running_mdctx
  /\ UNCHANGED vars

(* sha_finalize ends the context; when EVP_DigestFinal_ex fails it stays.  *)
FinalizeHash(p) ==
  /\ p \in opened /\ running_mdctx[p].algo \in Algorithms
  /\ Put(p, NULL) \/ UNCHANGED running_mdctx
  /\ Mine(p, NULL)
  /\ UNCHANGED vars

(* The client stops where it is.                                           *)
GiveUp(p) == hash[p] # NULL /\ Mine(p, NULL) /\ UNCHANGED <<vars, running_mdctx>>

(* The steps of the key store.  A close leaves the context alone; when the *)
(* process dies it is gone.                                                *)
KeyStep(p) ==
  \/ Open(p) /\ UNCHANGED hashing
  \/ Close(p) /\ Mine(p, NULL) /\ UNCHANGED running_mdctx
  \/ Lose(p) /\ Mine(p, NULL) /\ (UNCHANGED running_mdctx \/ Put(p, NULL))
  \/ /\ \E index \in Indices \cup {AnyIndex} : CreateAes(p, index) \/ CreateRsa(p, index)
     /\ UNCHANGED hashing

SecurityNext ==
  \E p \in Procs :
    \/ KeyStep(p) \/ UpdateHash(p) \/ FinalizeHash(p) \/ GiveUp(p)
    \/ \E name \in Algorithms \cup {Unknown} : InitHash(p, name)

SecuritySpec == SecurityInit /\ [][SecurityNext]_securityVars

-----------------------------------------------------------------------------
Contexts == [algo : Algorithms \cup {"none", "unset"}, pieces : 0 .. MaxPieces]

(* The shapes of the state; only a context with an algorithm has data.     *)
SecurityTypeOK ==
  /\ TypeOK
  /\ running_mdctx \in [Procs -> Contexts]
  /\ hash \in [Procs -> Contexts]
  /\ \A p \in Procs : /\ hash[p] = NULL \/ (p \in opened /\ hash[p].algo \in Algorithms)
                      /\ running_mdctx[p].algo \notin Algorithms => running_mdctx[p].pieces = 0

(* The context has what the client of the hash under way has put in, under *)
(* the algorithm it asked for, and nothing else: no piece of a hash that   *)
(* was given up, failed, or was left in the process before a close, so     *)
(* that its digest is that of its own data.                                *)
HashRight ==
  \A p \in Procs : hash[p] # NULL => running_mdctx[p] = hash[p]
=============================================================================
