--------------------------- MODULE SecurityProofs ---------------------------
(***************************************************************************)
(* Proofs about the key store and the hashing, for every set of processes, *)
(* every set of algorithms and every number of indices, keys and pieces.   *)
(***************************************************************************)
EXTENDS Security, TLAPS

(* The keys of the store's own choosing and of the client's are indices.   *)
LEMMA PlacesAreIndices ==
  ASSUME NEW p, NEW kind, NEW index \in Indices \cup {AnyIndex}
  PROVE  Places(p, kind, index) \subseteq Indices
  BY DEF Places, FreeIndices

(* A store stays a store when one key is put into it.                      *)
LEMMA ReplaceTyped ==
  ASSUME TypeOK, NEW p \in opened, NEW kind \in Kinds, NEW i \in Indices,
         NEW key \in Keys \cup {Broken}, Replace(p, kind, i, key)
  PROVE  /\ store' \in [Procs -> Store]
         /\ \A q \in Procs \ {p} : store'[q] = store[q]
         /\ \A k \in Kinds, j \in Indices :
              store'[p][k][j] = IF k = kind /\ j = i THEN key ELSE store[p][k][j]
<1>1. p \in Procs /\ store[p] \in Store /\ store[p][kind] \in [Indices -> Keys \cup {Broken}]
  BY DEF TypeOK, Store
<1>2. [store[p][kind] EXCEPT ![i] = key] \in [Indices -> Keys \cup {Broken}]
  BY <1>1
<1>3. [store[p] EXCEPT ![kind][i] = key] \in Store
  BY <1>1, <1>2 DEF Store
<1>4. store' = [store EXCEPT ![p] = [store[p] EXCEPT ![kind][i] = key]]
  BY <1>1 DEF Replace, TypeOK
<1>5. store' \in [Procs -> Store] /\ \A q \in Procs \ {p} : store'[q] = store[q]
  BY <1>1, <1>3, <1>4 DEF TypeOK
<1>6. store'[p] = [store[p] EXCEPT ![kind][i] = key]
  BY <1>1, <1>4 DEF TypeOK
<1>7. \A k \in Kinds, j \in Indices :
        store'[p][k][j] = IF k = kind /\ j = i THEN key ELSE store[p][k][j]
  BY <1>1, <1>6 DEF Store
<1> QED  BY <1>5, <1>7

(* A file that is written is a store.                                      *)
LEMMA WrittenTyped ==
  ASSUME TypeOK, NEW p \in opened, NEW unreadable \in SUBSET Indices,
         file' = [store[p] EXCEPT !["rsa"] =
                   [i \in Indices |-> IF i \in unreadable THEN NoKey ELSE @[i]]]
  PROVE  /\ file' \in Store
         /\ \A k \in Kinds, i \in Indices :
              file'[k][i] = IF k = "rsa" /\ i \in unreadable THEN NoKey ELSE store[p][k][i]
<1>1. store[p] \in Store /\ "rsa" \in Kinds
  BY DEF TypeOK, Kinds
<1> DEFINE written == [i \in Indices |-> IF i \in unreadable THEN NoKey ELSE store[p]["rsa"][i]]
<1>2. NoKey \in Keys
  BY BoundsAssumption DEF NoKey, Keys
<1>3. written \in [Indices -> Keys \cup {Broken}]
  BY <1>1, <1>2 DEF Store
<1>4. file' = [store[p] EXCEPT !["rsa"] = written]
  BY <1>1 DEF Store
<1> HIDE DEF written
<1>5. file' \in Store
  BY <1>1, <1>3, <1>4 DEF Store
<1>6. \A k \in Kinds : file'[k] = IF k = "rsa" THEN written ELSE store[p][k]
  BY <1>1, <1>4 DEF Store
<1>7. \A i \in Indices : written[i] = IF i \in unreadable THEN NoKey ELSE store[p]["rsa"][i]
  BY DEF written
<1>8. ASSUME NEW k \in Kinds, NEW i \in Indices
      PROVE  file'[k][i] = IF k = "rsa" /\ i \in unreadable THEN NoKey ELSE store[p][k][i]
  <2>1. CASE k = "rsa"  BY <2>1, <1>6, <1>7
  <2>2. CASE k # "rsa"  BY <2>2, <1>6
  <2> QED  BY <2>1, <2>2
<1> QED  BY <1>5, <1>8

LEMMA EmptyTyped == Empty \in Store
  BY BoundsAssumption DEF Empty, Store, Keys, NoKey

LEMMA LeaveTyped ==
  ASSUME TypeOK, NEW p \in opened, Leave(p)
  PROVE  /\ opened' = opened \ {p} /\ made' = made
         /\ store' \in [Procs -> Store]
         /\ store'[p] = Empty /\ \A q \in Procs \ {p} : store'[q] = store[q]
  BY EmptyTyped DEF TypeOK, Leave

-----------------------------------------------------------------------------
LEMMA StoreTypeInit == Init => TypeOK
<1> SUFFICES ASSUME Init PROVE TypeOK
  OBVIOUS
<1>1. store \in [Procs -> Store] /\ file \in Store /\ \A p \in Procs \ opened : store[p] = Empty
  BY EmptyTyped DEF Init
<1> QED  BY <1>1, BoundsAssumption DEF Init, TypeOK

(* What creating a key does, of either kind.                               *)
Creates(p, kind, index, i, key) ==
  /\ i \in Places(p, kind, index) /\ Replace(p, kind, i, key)
  /\ \/ key = made + 1 /\ Handed(kind, index, i, key)
     \/ key = Broken /\ handles' = Others(kind, index)
  /\ made < MaxKeys /\ made' = made + 1
  /\ UNCHANGED <<opened, file>>

LEMMA CreateCases ==
  ASSUME NEW p \in opened, NEW index \in Indices \cup {AnyIndex},
         CreateAes(p, index) \/ CreateRsa(p, index)
  PROVE  \E kind \in Kinds, key \in {made + 1, Broken} :
           \E i \in Places(p, kind, index) : Creates(p, kind, index, i, key)
<1>1. CASE CreateAes(p, index)
  BY <1>1 DEF CreateAes, Creates, Kinds
<1>2. CASE CreateRsa(p, index)
  BY <1>2 DEF CreateRsa, Creates, Kinds
<1> QED  BY <1>1, <1>2

(* The steps of the key store, each with what it needs to be looked at.    *)
LEMMA StoreCases ==
  ASSUME NEW P, Next,
         \A p \in Procs : Open(p) \/ Close(p) \/ Lose(p) => P,
         \A p \in opened, kind \in Kinds, index \in Indices \cup {AnyIndex},
            key \in {made + 1, Broken} :
           \A i \in Places(p, kind, index) : Creates(p, kind, index, i, key) => P
  PROVE  P
<1>1. PICK p \in Procs :
        \/ Open(p) \/ Close(p) \/ Lose(p)
        \/ \E index \in Indices \cup {AnyIndex} : CreateAes(p, index) \/ CreateRsa(p, index)
  BY DEF Next
<1>2. CASE \E index \in Indices \cup {AnyIndex} : CreateAes(p, index) \/ CreateRsa(p, index)
  <2>1. PICK index \in Indices \cup {AnyIndex} : CreateAes(p, index) \/ CreateRsa(p, index)
    BY <1>2
  <2>2. p \in opened
    BY <2>1 DEF CreateAes, CreateRsa
  <2> QED  BY <2>1, <2>2, CreateCases
<1> QED  BY <1>1, <1>2

LEMMA StoreTypeStep == TypeOK /\ [Next]_vars => TypeOK'
<1> SUFFICES ASSUME TypeOK, [Next]_vars PROVE TypeOK'
  OBVIOUS
<1>1. ASSUME NEW p \in Procs, Open(p) PROVE TypeOK'
  BY <1>1 DEF Open, TypeOK
<1>2. ASSUME NEW p \in Procs, Close(p) PROVE TypeOK'
  <2>1. PICK unreadable \in SUBSET {i \in Indices : store[p]["rsa"][i] = Broken} :
          file' = [store[p] EXCEPT !["rsa"] =
                     [i \in Indices |-> IF i \in unreadable THEN NoKey ELSE @[i]]]
    BY <1>2 DEF Close
  <2>2. p \in opened /\ Leave(p) /\ UNCHANGED handles
    BY <1>2 DEF Close
  <2>3. file' \in Store
    BY <2>1, <2>2, WrittenTyped
  <2> QED  BY <2>2, <2>3, LeaveTyped DEF TypeOK
<1>3. ASSUME NEW p \in Procs, Lose(p) PROVE TypeOK'
  <2>1. p \in opened /\ Leave(p) /\ handles' \subseteq handles /\ UNCHANGED file
    BY <1>3 DEF Lose, In
  <2> QED  BY <2>1, LeaveTyped DEF TypeOK
<1>4. ASSUME NEW p \in opened, NEW kind \in Kinds, NEW index \in Indices \cup {AnyIndex},
             NEW key \in {made + 1, Broken}, NEW i \in Places(p, kind, index),
             Creates(p, kind, index, i, key)
      PROVE  TypeOK'
  <2>1. made' \in 0 .. MaxKeys /\ made + 1 \in 1 .. MaxKeys
    BY <1>4, BoundsAssumption DEF Creates, TypeOK
  <2>2. i \in Indices /\ key \in Keys \cup {Broken}
    BY <2>1, PlacesAreIndices DEF Keys
  <2>3. Replace(p, kind, i, key) /\ UNCHANGED <<opened, file>>
    BY <1>4 DEF Creates
  <2>4. handles' \subseteq Handle
    <3>1. Others(kind, index) \subseteq Handle
      BY DEF Others, TypeOK
    <3>2. CASE key = made + 1 /\ Handed(kind, index, i, key)
      <4>1. [kind |-> kind, index |-> i, key |-> key] \in Handle
        BY <3>2, <2>1, <2>2 DEF Handle
      <4> QED  BY <3>1, <3>2, <4>1 DEF Handed
    <3>3. CASE handles' = Others(kind, index)
      BY <3>1, <3>3
    <3> QED  BY <1>4, <3>2, <3>3 DEF Creates
  <2>5. store' \in [Procs -> Store] /\ \A q \in Procs \ {p} : store'[q] = store[q]
    BY <2>2, <2>3, ReplaceTyped
  <2> QED  BY <2>1, <2>3, <2>4, <2>5 DEF TypeOK
<1>5. CASE UNCHANGED vars
  BY <1>5 DEF TypeOK, vars
<1>6. CASE Next
  BY <1>6, <1>1, <1>2, <1>3, <1>4, StoreCases
<1> QED  BY <1>5, <1>6

-----------------------------------------------------------------------------
(* With one process at a time, a table has every handle.                   *)
Keeps(s) == \A h \in handles : s[h.kind][h.index] = h.key

KInv ==
  /\ TypeOK
  /\ \A p, q \in opened : p = q
  /\ opened = {} => Keeps(file)
  /\ \A p \in opened : Keeps(store[p])

LEMMA KInvInit == Init => KInv
  BY StoreTypeInit DEF KInv, Init, Keeps

LEMMA KInvStep ==
  ASSUME Alone = TRUE
  PROVE  KInv /\ [Next]_vars => KInv'
<1> SUFFICES ASSUME KInv, [Next]_vars PROVE KInv'
  OBVIOUS
<1> USE DEF Keeps
<1>0. TypeOK /\ TypeOK'
  BY StoreTypeStep DEF KInv
<1>1. ASSUME NEW p \in Procs, Open(p) PROVE KInv'
  <2>1. opened = {} /\ opened' = {p} /\ store'[p] = file /\ UNCHANGED <<file, handles>>
    BY <1>0, <1>1 DEF Open, TypeOK
  <2> QED  BY <1>0, <2>1 DEF KInv
<1>2. ASSUME NEW p \in Procs, Close(p) PROVE KInv'
  <2>1. PICK unreadable \in SUBSET {i \in Indices : store[p]["rsa"][i] = Broken} :
          file' = [store[p] EXCEPT !["rsa"] =
                     [i \in Indices |-> IF i \in unreadable THEN NoKey ELSE @[i]]]
    BY <1>2 DEF Close
  <2>2. p \in opened /\ opened' = {} /\ UNCHANGED handles
    BY <1>2 DEF Close, Leave, KInv
  <2>3. ASSUME NEW h \in handles PROVE file'[h.kind][h.index] = h.key
    <3>1. h.kind \in Kinds /\ h.index \in Indices /\ h.key # Broken
      BY <1>0 DEF TypeOK, Handle, Broken
    <3>2. store[p][h.kind][h.index] = h.key
      BY <2>2 DEF KInv
    <3>3. ~(h.kind = "rsa" /\ h.index \in unreadable)
      BY <3>1, <3>2
    <3> QED  BY <1>0, <2>1, <2>2, <3>1, <3>2, <3>3, WrittenTyped
  <2> QED  BY <1>0, <2>2, <2>3 DEF KInv
<1>3. ASSUME NEW p \in Procs, Lose(p) PROVE KInv'
  <2>1. p \in opened /\ opened' = {} /\ UNCHANGED file
    BY <1>3 DEF Lose, Leave, KInv
  <2>2. handles' = {h \in handles : file[h.kind][h.index] = h.key}
    BY <1>3 DEF Lose, In, KeyLookup
  <2> QED  BY <1>0, <2>1, <2>2 DEF KInv
<1>4. ASSUME NEW p \in opened, NEW kind \in Kinds, NEW index \in Indices \cup {AnyIndex},
             NEW key \in {made + 1, Broken}, NEW i \in Places(p, kind, index),
             Creates(p, kind, index, i, key)
      PROVE  KInv'
  <2>1. made + 1 \in Keys
    BY <1>0, <1>4, BoundsAssumption DEF Creates, TypeOK, Keys
  <2>2. i \in Indices /\ key \in Keys \cup {Broken}
    BY <2>1, PlacesAreIndices
  <2>3. Replace(p, kind, i, key) /\ UNCHANGED <<opened, file>>
    BY <1>4 DEF Creates
  <2>4. \A k \in Kinds, j \in Indices :
          store'[p][k][j] = IF k = kind /\ j = i THEN key ELSE store[p][k][j]
    BY <1>0, <2>2, <2>3, ReplaceTyped
  <2>5. ASSUME NEW h \in Others(kind, index)
        PROVE  store'[p][h.kind][h.index] = h.key
    <3>1. h \in handles /\ h.kind \in Kinds /\ h.index \in Indices /\ h.key # NoKey
      BY <1>0 DEF Others, TypeOK, Handle, NoKey
    <3>2. store[p][h.kind][h.index] = h.key
      BY <3>1 DEF KInv
    <3>3. ~(h.kind = kind /\ h.index = i)
      <4>1. CASE index = AnyIndex
        <5>1. store[p][kind][i] = NoKey
          BY <1>4, <4>1 DEF Creates, Places, FreeIndices
        <5> QED  BY <5>1, <3>1, <3>2
      <4>2. CASE index # AnyIndex
        <5>1. i = index
          BY <1>4, <4>2 DEF Creates, Places
        <5> QED  BY <5>1, <4>2 DEF Others
      <4> QED  BY <4>1, <4>2
    <3> QED  BY <2>4, <3>1, <3>2, <3>3
  <2>6. ASSUME NEW h \in handles' PROVE store'[p][h.kind][h.index] = h.key
    <3>1. CASE h \in Others(kind, index)
      BY <2>5, <3>1
    <3>2. CASE h = [kind |-> kind, index |-> i, key |-> key]
      BY <2>2, <2>4, <3>2
    <3> QED  BY <1>4, <3>1, <3>2 DEF Creates, Handed
  <2>7. opened' = {p}
    BY <2>3 DEF KInv
  <2> QED  BY <1>0, <2>6, <2>7 DEF KInv
<1>5. CASE UNCHANGED vars
  BY <1>0, <1>5 DEF KInv, vars
<1>6. CASE Next
  BY <1>6, <1>1, <1>2, <1>3, <1>4, StoreCases
<1> QED  BY <1>5, <1>6

-----------------------------------------------------------------------------
(* Hashing touches nothing of the key store, whose own steps are all the   *)
(* others: what is proved of the store holds of the Security module.       *)
LEMMA StepOfStore == [SecurityNext]_securityVars => [Next]_vars
<1> SUFFICES ASSUME [SecurityNext]_securityVars PROVE [Next]_vars
  OBVIOUS
<1>1. ASSUME NEW p \in Procs, KeyStep(p) PROVE Next
  BY <1>1 DEF KeyStep, Next
<1>2. ASSUME NEW p \in Procs,
             \/ UpdateHash(p) \/ FinalizeHash(p) \/ GiveUp(p)
             \/ \E name \in Algorithms \cup {Unknown} : InitHash(p, name)
      PROVE  UNCHANGED vars
  BY <1>2 DEF UpdateHash, FinalizeHash, GiveUp, InitHash
<1>3. CASE UNCHANGED securityVars
  BY <1>3 DEF securityVars
<1> QED  BY <1>1, <1>2, <1>3 DEF SecurityNext

LEMMA SecurityImplementsStore == SecuritySpec => Spec
<1>1. SecurityInit => Init
  BY DEF SecurityInit
<1> QED  BY <1>1, StepOfStore, PTL DEF SecuritySpec, Spec

LEMMA StoreInductive ==
  ASSUME Alone = TRUE
  PROVE  SecuritySpec => []KInv
  BY KInvInit, KInvStep, SecurityImplementsStore, PTL DEF Spec

(* With clients that open the module one at a time, every index a client   *)
(* was given names its key in the store in use, and in the file when there *)
(* is none, whatever is created, saved and lost.                           *)
THEOREM HandlesStay ==
  ASSUME Alone = TRUE
  PROVE  SecuritySpec => []HandlesKept
<1>1. KInv => HandlesKept
  BY DEF KInv, Keeps, HandlesKept, In, KeyLookup
<1> QED  BY <1>1, StoreInductive, PTL

-----------------------------------------------------------------------------
(* The shapes of the hashing; a hash is under way only where the module is *)
(* open, and then the context is that hash's.                              *)
HInv ==
  /\ TypeOK
  /\ running_mdctx \in [Procs -> Contexts] /\ hash \in [Procs -> Contexts]
  /\ \A p \in Procs :
       /\ hash[p] = NULL \/ (p \in opened /\ hash[p].algo \in Algorithms)
       /\ hash[p] = NULL \/ running_mdctx[p] = hash[p]
       /\ running_mdctx[p].algo \notin Algorithms => running_mdctx[p].pieces = 0

LEMMA NullIsContext == NULL \in Contexts /\ NULL.pieces = 0
  BY PiecesAssumption DEF NULL, Contexts

(* A step that writes the context and the hash of one process.             *)
LEMMA HashStep ==
  ASSUME HInv, NEW p \in Procs, NEW ctx \in Contexts, NEW own \in Contexts,
         running_mdctx' = [running_mdctx EXCEPT ![p] = ctx],
         hash' = [hash EXCEPT ![p] = own],
         opened' = opened, TypeOK',
         own = NULL \/ (p \in opened /\ own.algo \in Algorithms /\ ctx = own),
         ctx.algo \notin Algorithms => ctx.pieces = 0
  PROVE  HInv'
<1>1. running_mdctx'[p] = ctx /\ hash'[p] = own
  BY DEF HInv
<1>2. \A q \in Procs \ {p} : running_mdctx'[q] = running_mdctx[q] /\ hash'[q] = hash[q]
  BY DEF HInv
<1>3. running_mdctx' \in [Procs -> Contexts] /\ hash' \in [Procs -> Contexts]
  BY DEF HInv
<1>4. ASSUME NEW q \in Procs
      PROVE  /\ hash'[q] = NULL \/ (q \in opened' /\ hash'[q].algo \in Algorithms)
             /\ hash'[q] = NULL \/ running_mdctx'[q] = hash'[q]
             /\ running_mdctx'[q].algo \notin Algorithms => running_mdctx'[q].pieces = 0
  <2>1. CASE q = p  BY <2>1, <1>1
  <2>2. CASE q # p  BY <2>2, <1>2 DEF HInv
  <2> QED  BY <2>1, <2>2
<1> QED  BY <1>3, <1>4 DEF HInv

LEMMA HInvInit == SecurityInit => HInv
  BY StoreTypeInit, NullIsContext DEF HInv, SecurityInit

LEMMA HInvStep == HInv /\ [SecurityNext]_securityVars => HInv'
<1> SUFFICES ASSUME HInv, [SecurityNext]_securityVars PROVE HInv'
  OBVIOUS
<1>0. TypeOK /\ TypeOK'
  BY StoreTypeStep, StepOfStore DEF HInv
<1>1. ASSUME NEW p \in Procs, NEW name \in Algorithms \cup {Unknown}, InitHash(p, name)
      PROVE  HInv'
  <2>1. p \in opened /\ opened' = opened
    BY <1>1 DEF InitHash, vars
  <2> DEFINE fresh == [algo |-> name, pieces |-> 0]
             unset == [algo |-> "unset", pieces |-> 0]
  <2>2. CASE name \in Algorithms /\ Put(p, fresh) /\ Mine(p, fresh)
    <3>1. fresh \in Contexts /\ fresh.algo \in Algorithms
      BY <2>2, PiecesAssumption DEF Contexts
    <3> QED  BY <1>0, <2>1, <2>2, <3>1, HashStep DEF Put, Mine
  <2>3. CASE Put(p, unset) /\ Mine(p, NULL)
    <3>1. unset \in Contexts /\ unset.pieces = 0
      BY PiecesAssumption DEF Contexts
    <3> QED  BY <1>0, <2>1, <2>3, <3>1, NullIsContext, HashStep DEF Put, Mine
  <2>4. CASE UNCHANGED running_mdctx /\ Mine(p, NULL)
    <3>1. running_mdctx' = [running_mdctx EXCEPT ![p] = running_mdctx[p]]
      BY <2>4 DEF HInv
    <3> QED  BY <1>0, <2>1, <2>4, <3>1, NullIsContext, HashStep DEF Mine, HInv
  <2> QED  BY <1>1, <2>2, <2>3, <2>4 DEF InitHash, Algorithm
<1>2. ASSUME NEW p \in Procs, UpdateHash(p) PROVE HInv'
  <2>1. p \in opened /\ opened' = opened
    BY <1>2 DEF UpdateHash, vars
  <2>2. running_mdctx' = [running_mdctx EXCEPT ![p] = running_mdctx[p]] \/ ~UNCHANGED running_mdctx
    BY DEF HInv
  <2>3. CASE UNCHANGED running_mdctx /\ Mine(p, NULL)
    BY <1>0, <2>1, <2>2, <2>3, NullIsContext, HashStep DEF Mine, HInv
  <2> DEFINE ctx == [running_mdctx[p] EXCEPT !.pieces = @ + 1]
             own == [hash[p] EXCEPT !.pieces = @ + 1]
  <2>4. CASE Put(p, ctx) /\ IF hash[p] = NULL THEN UNCHANGED hash ELSE Mine(p, own)
    <3>1. ctx \in Contexts /\ ctx.algo \in Algorithms
      BY <1>2, PiecesAssumption DEF UpdateHash, HInv, Contexts
    <3>2. CASE hash[p] = NULL
      <4>1. hash' = [hash EXCEPT ![p] = NULL]
        BY <2>4, <3>2 DEF HInv
      <4> QED  BY <1>0, <2>1, <2>4, <3>1, <4>1, NullIsContext, HashStep DEF Put
    <3>3. CASE hash[p] # NULL
      <4>1. running_mdctx[p] = hash[p]
        BY <3>3 DEF HInv
      <4>2. ctx = own
        BY <4>1
      <4>3. hash' = [hash EXCEPT ![p] = own]
        BY <2>4, <3>3 DEF Mine
      <4> HIDE DEF ctx, own
      <4> QED  BY <1>0, <2>1, <2>4, <3>1, <4>2, <4>3, HashStep DEF Put
    <3> QED  BY <3>2, <3>3
  <2> QED  BY <1>2, <2>3, <2>4 DEF UpdateHash
<1>3. ASSUME NEW p \in Procs, FinalizeHash(p) PROVE HInv'
  <2>1. opened' = opened /\ Mine(p, NULL)
    BY <1>3 DEF FinalizeHash, vars
  <2>2. \/ running_mdctx' = [running_mdctx EXCEPT ![p] = NULL]
        \/ running_mdctx' = [running_mdctx EXCEPT ![p] = running_mdctx[p]]
    BY <1>3 DEF FinalizeHash, Put, HInv
  <2> QED  BY <1>0, <2>1, <2>2, NullIsContext, HashStep DEF Mine, HInv
<1>4. ASSUME NEW p \in Procs, GiveUp(p) PROVE HInv'
  <2>1. opened' = opened /\ Mine(p, NULL)
    BY <1>4 DEF GiveUp, vars
  <2>2. running_mdctx' = [running_mdctx EXCEPT ![p] = running_mdctx[p]]
    BY <1>4 DEF GiveUp, HInv
  <2> QED  BY <1>0, <2>1, <2>2, NullIsContext, HashStep DEF Mine, HInv
<1>5. ASSUME NEW p \in Procs, KeyStep(p) PROVE HInv'
  <2>1. CASE Open(p) /\ UNCHANGED hashing
    <3>1. opened \subseteq opened'
      BY <2>1 DEF Open
    <3> QED  BY <1>0, <2>1, <3>1 DEF HInv, hashing
  <2>2. CASE (Close(p) \/ Lose(p)) /\ Mine(p, NULL) /\ (UNCHANGED running_mdctx \/ Put(p, NULL))
    <3>1. opened' = opened \ {p}
      BY <2>2 DEF Close, Lose, Leave
    <3>2. hash' \in [Procs -> Contexts] /\ hash'[p] = NULL
          /\ \A q \in Procs \ {p} : hash'[q] = hash[q]
      BY <2>2, NullIsContext DEF Mine, HInv
    <3>3. /\ running_mdctx' \in [Procs -> Contexts]
          /\ running_mdctx'[p] \in {running_mdctx[p], NULL}
          /\ \A q \in Procs \ {p} : running_mdctx'[q] = running_mdctx[q]
      BY <2>2, NullIsContext DEF Put, HInv
    <3>4. ASSUME NEW q \in Procs
          PROVE  /\ hash'[q] = NULL \/ (q \in opened' /\ hash'[q].algo \in Algorithms)
                 /\ hash'[q] = NULL \/ running_mdctx'[q] = hash'[q]
                 /\ running_mdctx'[q].algo \notin Algorithms => running_mdctx'[q].pieces = 0
      <4>1. CASE q = p  BY <4>1, <3>2, <3>3, NullIsContext DEF HInv
      <4>2. CASE q # p  BY <4>2, <3>1, <3>2, <3>3 DEF HInv
      <4> QED  BY <4>1, <4>2
    <3> QED  BY <1>0, <3>2, <3>3, <3>4 DEF HInv
  <2>3. CASE /\ \E index \in Indices \cup {AnyIndex} : CreateAes(p, index) \/ CreateRsa(p, index)
             /\ UNCHANGED hashing
    <3>1. opened' = opened
      BY <2>3 DEF CreateAes, CreateRsa
    <3> QED  BY <1>0, <2>3, <3>1 DEF HInv, hashing
  <2> QED  BY <1>5, <2>1, <2>2, <2>3 DEF KeyStep
<1>6. CASE UNCHANGED securityVars
  BY <1>0, <1>6 DEF HInv, securityVars, vars, hashing
<1> QED  BY <1>1, <1>2, <1>3, <1>4, <1>5, <1>6 DEF SecurityNext

LEMMA HashInductive == SecuritySpec => []HInv
  BY HInvInit, HInvStep, PTL DEF SecuritySpec

(* The shapes of the state of the key store and of the hashing, with one   *)
(* process or with many.                                                   *)
THEOREM SecurityTypeCorrect == SecuritySpec => []SecurityTypeOK
<1>1. HInv => SecurityTypeOK
  BY DEF HInv, SecurityTypeOK
<1> QED  BY <1>1, HashInductive, PTL

(* The digest of a hash is that of the data its client put in, whatever    *)
(* other hashes left in the context of the process.                        *)
THEOREM HashesRight == SecuritySpec => []HashRight
<1>1. HInv => HashRight
  BY DEF HInv, HashRight
<1> QED  BY <1>1, HashInductive, PTL

-----------------------------------------------------------------------------
(* The table in use is the store of the one process, or the file.          *)
LEMMA CurrentOpen ==
  ASSUME KInv, NEW p \in opened
  PROVE  Current = store[p] /\ opened = {p}
<1>1. opened = {p} /\ p \in Procs
  BY DEF KInv, TypeOK
<1>2. (CHOOSE q \in Procs : q \in opened) = p
  BY <1>1
<1> QED  BY <1>1, <1>2 DEF Current

LEMMA CurrentClosed == opened = {} => Current = file
  BY DEF Current

LEMMA VaultInit == Init => Vault!Init
<1> SUFFICES ASSUME Init PROVE Vault!Init
  OBVIOUS
<1>1. Current = Empty /\ file = Empty
  BY DEF Init, Current
<1>2. Flat(Empty) = [c \in Cells |-> NoKey]
  BY DEF Flat, Cells, Empty
<1> QED  BY <1>1, <1>2 DEF Vault!Init

LEMMA VaultStep ==
  ASSUME Alone = TRUE
  PROVE  KInv /\ KInv' /\ [Next]_vars => [Vault!Next]_(Vault!vault)
<1> SUFFICES ASSUME KInv, KInv', [Next]_vars PROVE [Vault!Next]_(Vault!vault)
  OBVIOUS
<1>0. TypeOK
  BY DEF KInv
<1>1. ASSUME NEW p \in Procs, Open(p) PROVE UNCHANGED Vault!vault
  <2>1. opened = {} /\ p \in opened' /\ store'[p] = file /\ file' = file
    BY <1>0, <1>1 DEF Open, TypeOK
  <2>2. Current = file
    BY <2>1, CurrentClosed
  <2>3. Current' = store'[p]
    <3>1. (CHOOSE q \in Procs : q \in opened') = p /\ opened' # {}
      BY <2>1 DEF KInv
    <3> QED  BY <3>1 DEF Current
  <2>4. Current' = Current
    BY <2>1, <2>2, <2>3
  <2> QED  BY <2>1, <2>4 DEF Vault!vault, Flat
<1>2. ASSUME NEW p \in Procs, Close(p) PROVE Vault!Commit
  <2>1. PICK unreadable \in SUBSET {i \in Indices : store[p]["rsa"][i] = Broken} :
          file' = [store[p] EXCEPT !["rsa"] =
                     [i \in Indices |-> IF i \in unreadable THEN NoKey ELSE @[i]]]
    BY <1>2 DEF Close
  <2>2. p \in opened /\ Current = store[p]
    BY <1>2, CurrentOpen DEF Close
  <2>3. opened' = {}
    BY <1>2, <2>2, CurrentOpen DEF Close, Leave
  <2>4. Current' = file'
    BY <2>3 DEF Current
  <2> DEFINE gone == {c \in Cells : c[1] = "rsa" /\ c[2] \in unreadable}
  <2>5. \A k \in Kinds, i \in Indices :
          file'[k][i] = IF k = "rsa" /\ i \in unreadable THEN NoKey ELSE store[p][k][i]
    BY <1>0, <2>1, <2>2, WrittenTyped
  <2>6. gone \in SUBSET {c \in Cells : Flat(Current)[c] = Broken}
    BY <2>2 DEF Flat, Cells
  <2>7. Flat(file)' = [c \in Cells |-> IF c \in gone THEN NoKey ELSE Flat(Current)[c]]
    <3>1. ASSUME NEW c \in Cells
          PROVE  file'[c[1]][c[2]] = IF c \in gone THEN NoKey ELSE Flat(Current)[c]
      BY <2>2, <2>5 DEF Flat, Cells
    <3> HIDE DEF gone
    <3> QED  BY <3>1 DEF Flat
  <2>8. Flat(Current)' = Flat(file)'
    BY <2>4 DEF Flat
  <2> HIDE DEF gone
  <2> QED  BY <2>6, <2>7, <2>8 DEF Vault!Commit
<1>3. ASSUME NEW p \in Procs, Lose(p) PROVE Vault!Rollback
  <2>1. p \in opened /\ file' = file
    BY <1>3 DEF Lose
  <2>2. opened' = {}
    BY <1>3, <2>1, CurrentOpen DEF Lose, Leave
  <2>3. Current' = file
    BY <2>1, <2>2 DEF Current
  <2> QED  BY <2>1, <2>3 DEF Vault!Rollback, Flat
<1>4. ASSUME NEW p \in opened, NEW kind \in Kinds, NEW index \in Indices \cup {AnyIndex},
             NEW key \in {made + 1, Broken}, NEW i \in Places(p, kind, index),
             Creates(p, kind, index, i, key)
      PROVE  Vault!Put
  <2>1. made + 1 \in 1 .. MaxKeys
    BY <1>0, <1>4, BoundsAssumption DEF Creates, TypeOK
  <2>2. i \in Indices /\ key \in 1 .. MaxKeys \cup {Broken} /\ key \in Keys \cup {Broken}
    BY <2>1, PlacesAreIndices DEF Keys
  <2>3. Replace(p, kind, i, key) /\ opened' = opened /\ file' = file
    BY <1>4 DEF Creates
  <2>4. \A k \in Kinds, j \in Indices :
          store'[p][k][j] = IF k = kind /\ j = i THEN key ELSE store[p][k][j]
    BY <1>0, <2>2, <2>3, ReplaceTyped
  <2>5. Current = store[p] /\ opened = {p}
    BY CurrentOpen
  <2>6. Current' = store'[p]
    <3>1. (CHOOSE q \in Procs : q \in opened') = p /\ opened' # {}
      BY <1>0, <2>3, <2>5 DEF TypeOK
    <3> QED  BY <3>1 DEF Current
  <2>7. <<kind, i>> \in Cells
    BY <2>2 DEF Cells
  <2>8. Flat(Current)' = [Flat(Current) EXCEPT ![<<kind, i>>] = key]
    <3>1. ASSUME NEW c \in Cells
          PROVE  store'[p][c[1]][c[2]] = IF c = <<kind, i>> THEN key ELSE store[p][c[1]][c[2]]
      BY <2>4 DEF Cells
    <3> QED  BY <2>5, <2>6, <3>1 DEF Flat
  <2>9. UNCHANGED Flat(file)
    BY <2>3 DEF Flat
  <2> QED  BY <2>2, <2>7, <2>8, <2>9 DEF Vault!Put
<1>5. CASE UNCHANGED vars
  BY <1>5 DEF vars, Vault!vault, Current, Flat
<1>6. CASE Next
  BY <1>6, <1>1, <1>2, <1>3, <1>4, StoreCases DEF Vault!Next
<1> QED  BY <1>5, <1>6

(* With clients that open the module one at a time, the file and the       *)
(* stores of the processes implement one table that an open shows as the   *)
(* last close saved it, and that a death takes back to there.              *)
THEOREM StoreImplementsVault ==
  ASSUME Alone = TRUE
  PROVE  SecuritySpec => ImplementsVault
<1>1. KInv /\ KInv' /\ [Next]_vars => [Vault!Next]_(Vault!vault)
  BY VaultStep
<1>2. Spec => []KInv
  BY KInvInit, KInvStep, PTL DEF Spec
<1>3. Spec => Vault!Spec
  BY <1>1, <1>2, VaultInit, PTL DEF Spec, Vault!Spec
<1> QED  BY <1>3, SecurityImplementsStore, PTL DEF ImplementsVault
=============================================================================
