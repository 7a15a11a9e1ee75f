-------------------------- MODULE CoordBufferProofs --------------------------
(***************************************************************************)
(* Proofs about CoordBuffer for every buffer size and every coordinate.    *)
(***************************************************************************)
EXTENDS CoordBuffer, SequenceTheorems, TLAPS

(* Stepping round the ring, and looking at an offset less than once round. *)
LEMMA ModStep ==
  ASSUME NEW i \in Index
  PROVE  (i + 1) % size = IF i + 1 = size THEN 0 ELSE i + 1
<1>1. CASE i + 1 = size
  BY <1>1, SizeAssumption DEF Index
<1>2. CASE i + 1 # size
  BY <1>2, SizeAssumption DEF Index
<1> QED  BY <1>1, <1>2

LEMMA ModOffset ==
  ASSUME NEW i \in Index, NEW k \in 0..size
  PROVE  (i + k) % size = IF i + k < size THEN i + k
                          ELSE IF i + k < 2 * size THEN i + k - size ELSE 0
<1>1. CASE i + k < size
  BY <1>1, SizeAssumption DEF Index
<1>2. CASE i + k >= size
  BY <1>2, SizeAssumption DEF Index
<1> QED  BY <1>1, <1>2, SizeAssumption DEF Index

LEMMA RingInit == Init => RingOK
<1> SUFFICES ASSUME Init PROVE RingOK
  OBVIOUS
<1>1. pCoords \in [Index -> Int] /\ last \in Int
  BY CoordsAssumption DEF Init
<1>2. 0 \in Index /\ 0 \in 0..size
  BY SizeAssumption DEF Index
<1> QED  BY <1>1, <1>2, SizeAssumption DEF Init, RingOK

LEMMA UpdateRing ==
  ASSUME RingOK, NEW c \in Coords, Update(c)
  PROVE  RingOK'
<1>1. Prev \in Index
  BY SizeAssumption DEF RingOK, Index, Prev
<1>2. Steadied(c) \in Int
  BY <1>1, CoordsAssumption DEF RingOK, Steadied
<1>3. pCoords' \in [Index -> Int] /\ last' \in Int
  BY <1>2 DEF RingOK, Update
<1>4. tail' = (IF tail + 1 = size THEN 0 ELSE tail + 1)
  BY ModStep DEF RingOK, Update
<1>5. CASE numItems < size
  BY <1>3, <1>4, <1>5, SizeAssumption DEF RingOK, Update, NextHead, Index
<1>6. CASE numItems = size
  <2>1. head' = tail'
    BY <1>6 DEF RingOK, Update, NextHead
  <2> QED  BY <1>3, <1>4, <1>6, <2>1, SizeAssumption DEF RingOK, Update, Index
<1> QED  BY <1>5, <1>6, SizeAssumption DEF RingOK

LEMMA RingStep == RingOK /\ [Next]_vars => RingOK'
<1> SUFFICES ASSUME RingOK, [Next]_vars PROVE RingOK'
  OBVIOUS
<1>1. CASE Reset
  BY <1>1, SizeAssumption DEF Reset, RingOK, Index
<1>2. ASSUME NEW c \in Coords, Update(c) PROVE RingOK'
  BY <1>2, UpdateRing
<1>3. CASE UNCHANGED vars
  BY <1>3 DEF vars, ring, RingOK
<1> QED  BY <1>1, <1>2, <1>3 DEF Next

(* The ring keeps its shape: no index leaves the array.                    *)
THEOREM RingCorrect == Spec => []RingOK
  BY RingInit, RingStep, PTL DEF Spec

-----------------------------------------------------------------------------
(* The newest entry is the one before the tail.                            *)
Newest == numItems # 0 => pCoords[Prev] = last

LEMMA LastIsPrev == RingOK /\ numItems # 0 => LastIndex = Prev
<1> SUFFICES ASSUME RingOK, numItems # 0 PROVE LastIndex = Prev
  OBVIOUS
<1>1. numItems - 1 \in 0..size /\ head \in Index
  BY SizeAssumption DEF RingOK
<1>2. LastIndex = (head + (numItems - 1)) % size
  BY <1>1, SizeAssumption DEF LastIndex, Index, RingOK
<1> DEFINE offset == numItems - 1
<1> HIDE DEF offset
<1>3. offset \in 0..size
  BY <1>1 DEF offset
<1>4. (head + offset) % size = IF head + offset < size THEN head + offset
        ELSE IF head + offset < 2 * size THEN head + offset - size ELSE 0
  BY <1>1, <1>3, ModOffset
<1>5. LastIndex = IF head + offset < size THEN head + offset
        ELSE IF head + offset < 2 * size THEN head + offset - size ELSE 0
  BY <1>2, <1>4 DEF offset
<1>6. CASE numItems < size
  BY <1>5, <1>6, SizeAssumption DEF RingOK, Prev, Index, offset
<1>7. CASE numItems = size
  BY <1>5, <1>7, SizeAssumption DEF RingOK, Prev, Index, offset
<1> QED  BY <1>6, <1>7, SizeAssumption DEF RingOK

LEMMA NewestStep == RingOK /\ Newest /\ [Next]_vars => Newest'
<1> SUFFICES ASSUME RingOK, Newest, [Next]_vars PROVE Newest'
  OBVIOUS
<1>1. CASE Reset
  BY <1>1 DEF Reset, Newest
<1>2. ASSUME NEW c \in Coords, Update(c) PROVE Newest'
  <2>1. tail' = (IF tail + 1 = size THEN 0 ELSE tail + 1)
    BY <1>2, ModStep DEF RingOK, Update
  <2>2. Prev' = tail
    BY <2>1, SizeAssumption DEF RingOK, Prev, Index
  <2>3. pCoords'[tail] = last'
    BY <1>2 DEF Update, RingOK
  <2> QED  BY <2>2, <2>3 DEF Newest
<1>3. CASE UNCHANGED vars
  BY <1>3 DEF vars, ring, Newest, Prev
<1> QED  BY <1>1, <1>2, <1>3 DEF Next

(* For every size: get_last_coords returns the coordinate recorded last,   *)
(* which is also the one the position filter nudges towards.               *)
THEOREM LastCoords == Spec => []LastIsNewest
<1>1. Init => RingOK /\ Newest
  BY RingInit DEF Init, Newest
<1>2. RingOK /\ Newest /\ [Next]_vars => RingOK' /\ Newest'
  BY RingStep, NewestStep
<1>3. RingOK /\ Newest => LastIsNewest
  BY LastIsPrev DEF Newest, LastIsNewest
<1> QED  BY <1>1, <1>2, <1>3, PTL DEF Spec

-----------------------------------------------------------------------------
(* The k-th place from h on, without the remainder.                        *)
LEMMA WrapAt ==
  ASSUME NEW h \in Index, NEW k \in 1..size
  PROVE  (h + k - 1) % size = IF h + k - 1 < size THEN h + k - 1
                              ELSE h + k - 1 - size
<1> DEFINE offset == k - 1
<1>1. (h + k - 1) % size = (h + offset) % size
  BY SizeAssumption DEF Index
<1> HIDE DEF offset
<1>2. offset \in 0..size
  BY SizeAssumption DEF offset
<1>3. (h + offset) % size = IF h + offset < size THEN h + offset
        ELSE IF h + offset < 2 * size THEN h + offset - size ELSE 0
  BY <1>2, ModOffset
<1>4. (h + k - 1) % size = IF h + offset < size THEN h + offset
        ELSE IF h + offset < 2 * size THEN h + offset - size ELSE 0
  BY <1>1, <1>3
<1> QED  BY <1>4, SizeAssumption DEF Index, offset

(* Appending, and dropping the first, entry by entry.                      *)
LEMMA SeqIs ==
  ASSUME NEW S, NEW t \in Seq(S), NEW n \in Nat, NEW s, NEW e,
         Len(t) = n + 1,
         \A k \in 1..n : t[k] = s[k],
         t[n + 1] = e
  PROVE  t = [k \in 1..(n + 1) |-> IF k = n + 1 THEN e ELSE s[k]]
<1> DEFINE m == n + 1
<1>0. m \in Nat /\ Len(t) = m /\ t[m] = e
  OBVIOUS
<1>1. \A k \in 1..m : k = m \/ k \in 1..n
  OBVIOUS
<1> HIDE DEF m
<1>2. t = [k \in 1..m |-> t[k]]
  BY <1>0
<1>3. ASSUME NEW k \in 1..m
      PROVE  t[k] = IF k = m THEN e ELSE s[k]
  BY <1>0, <1>1, Zenon
<1>4. t = [k \in 1..m |-> IF k = m THEN e ELSE s[k]]
  BY <1>2, <1>3, Zenon
<1> QED  BY <1>4 DEF m

LEMMA AppendIs ==
  ASSUME NEW S, NEW s \in Seq(S), NEW e \in S
  PROVE  Append(s, e) =
           [k \in 1..(Len(s) + 1) |-> IF k = Len(s) + 1 THEN e ELSE s[k]]
<1>1. /\ Append(s, e) \in Seq(S) /\ Len(Append(s, e)) = Len(s) + 1
      /\ \A k \in 1..Len(s) : Append(s, e)[k] = s[k]
      /\ Append(s, e)[Len(s) + 1] = e
  BY AppendProperties
<1>2. Len(s) \in Nat
  OBVIOUS
<1>3. ASSUME NEW t \in Seq(S), NEW n \in Nat, Len(t) = n + 1,
             \A k \in 1..n : t[k] = s[k], t[n + 1] = e
      PROVE  t = [k \in 1..(n + 1) |-> IF k = n + 1 THEN e ELSE s[k]]
  BY <1>3, SeqIs
<1> DEFINE t == Append(s, e)
           n == Len(s)
<1>4. t \in Seq(S) /\ n \in Nat /\ Len(t) = n + 1
      /\ (\A k \in 1..n : t[k] = s[k]) /\ t[n + 1] = e
  BY <1>1, <1>2
<1> HIDE DEF t, n
<1>5. t = [k \in 1..(n + 1) |-> IF k = n + 1 THEN e ELSE s[k]]
  BY <1>3, <1>4
<1> QED  BY <1>5 DEF t, n

LEMMA TailIs ==
  ASSUME NEW S, NEW s \in Seq(S), s # <<>>
  PROVE  /\ Tail(s) \in Seq(S) /\ Len(Tail(s)) = Len(s) - 1
         /\ \A k \in 1..(Len(s) - 1) : Tail(s)[k] = s[k + 1]
  OBVIOUS

LEMMA ContentsSeq == RingOK => Contents \in Seq(Int) /\ Len(Contents) = numItems
<1> SUFFICES ASSUME RingOK PROVE Contents \in Seq(Int) /\ Len(Contents) = numItems
  OBVIOUS
<1>1. \A k \in 1..numItems : (head + k - 1) % size \in Index
  <2> SUFFICES ASSUME NEW k \in 1..numItems
               PROVE  (head + k - 1) % size \in Index
    OBVIOUS
  <2>1. k \in 1..size /\ head \in Index
    BY SizeAssumption DEF RingOK
  <2> QED  BY <2>1, WrapAt, SizeAssumption DEF Index
<1>2. \A k \in 1..numItems : pCoords[(head + k - 1) % size] \in Int
  BY <1>1 DEF RingOK
<1>3. numItems \in Nat
  BY SizeAssumption DEF RingOK
<1> QED  BY <1>2, <1>3 DEF Contents

(* A ring with room: the new coordinate goes behind the others.            *)
LEMMA UpdateRoom ==
  ASSUME RingOK, NEW c \in Coords, Update(c), numItems < size
  PROVE  Contents' = Append(Contents, last')
<1>1. RingOK'  BY UpdateRing
<1>2. numItems' = numItems + 1 /\ numItems \in Nat
  BY SizeAssumption DEF Update, RingOK
<1>3. head' = 0 /\ head = 0 /\ tail = numItems
  BY SizeAssumption DEF Update, RingOK, NextHead
<1>4. \A k \in 1..(numItems + 1) : (head' + k - 1) % size = k - 1
  <2> SUFFICES ASSUME NEW k \in 1..(numItems + 1)
               PROVE  (head' + k - 1) % size = k - 1
    OBVIOUS
  <2>1. k \in 1..size /\ 0 \in Index
    BY <1>2, SizeAssumption DEF Index
  <2> QED  BY <1>3, <2>1, WrapAt, SizeAssumption DEF Index
<1>5. \A k \in 1..numItems : Contents[k] = pCoords[k - 1]
  BY <1>2, <1>3, <1>4 DEF Contents
<1>6. \A k \in 1..(numItems + 1) :
         pCoords'[(head' + k - 1) % size] = IF k = numItems + 1 THEN last' ELSE pCoords[k - 1]
  BY <1>2, <1>3, <1>4 DEF Update, RingOK, Index
<1>7. Contents' = [k \in 1..(numItems + 1) |->
                     IF k = numItems + 1 THEN last' ELSE pCoords[k - 1]]
  BY <1>2, <1>6 DEF Contents
<1>9. last' \in Int  BY <1>1 DEF RingOK
<1>8. Append(Contents, last') =
        [k \in 1..(numItems + 1) |-> IF k = numItems + 1 THEN last' ELSE Contents[k]]
  BY <1>2, <1>9, ContentsSeq, AppendIs
<1>10. \A k \in 1..(numItems + 1) :
          (IF k = numItems + 1 THEN last' ELSE pCoords[k - 1])
          = (IF k = numItems + 1 THEN last' ELSE Contents[k])
  <2>1. \A k \in 1..(numItems + 1) : k = numItems + 1 \/ k \in 1..numItems
    BY <1>2
  <2> QED  BY <1>5, <2>1, Zenon
<1> QED  BY <1>7, <1>8, <1>10, Zenon

(* A full ring: the oldest is driven out.                                  *)
LEMMA UpdateFull ==
  ASSUME RingOK, NEW c \in Coords, Update(c), numItems = size
  PROVE  Contents' = Append(Tail(Contents), last')
<1>1. RingOK'  BY UpdateRing
<1>2. numItems' = size /\ head = tail /\ head \in Index
  BY DEF Update, RingOK
<1>3. head' = (IF head + 1 = size THEN 0 ELSE head + 1)
  BY <1>2, ModStep DEF Update, NextHead
<1>7. head' \in Index  BY <1>1 DEF RingOK
<1>4. ASSUME NEW k \in 1..size
      PROVE  pCoords'[(head' + k - 1) % size] = IF k = size THEN last' ELSE Contents[k + 1]
  <2>1. (head' + k - 1) % size =
          IF head' + k - 1 < size THEN head' + k - 1 ELSE head' + k - 1 - size
    BY <1>7, WrapAt
  <2>2. CASE k = size
    <3>1. (head' + k - 1) % size = tail
      BY <1>2, <1>3, <2>1, <2>2, SizeAssumption DEF Index
    <3> QED  BY <2>2, <3>1 DEF Update, RingOK
  <2>3. CASE k # size
    <3>1. (head + (k + 1) - 1) % size =
            IF head + k < size THEN head + k ELSE head + k - size
      <4>1. k + 1 \in 1..size
        BY <2>3, SizeAssumption
      <4> QED  BY <1>2, <4>1, WrapAt, SizeAssumption DEF Index
    <3>2. (head' + k - 1) % size = (head + (k + 1) - 1) % size
      BY <1>2, <1>3, <2>1, <2>3, <3>1, SizeAssumption DEF Index
    <3>3. (head + (k + 1) - 1) % size # tail /\ (head + (k + 1) - 1) % size \in Index
      BY <1>2, <2>3, <3>1, SizeAssumption DEF Index
    <3>4. Contents[k + 1] = pCoords[(head + (k + 1) - 1) % size]
      BY <2>3, SizeAssumption DEF Contents
    <3> QED  BY <2>3, <3>2, <3>3, <3>4 DEF Update, RingOK
  <2> QED  BY <2>2, <2>3
<1>5. Contents' = [k \in 1..size |-> IF k = size THEN last' ELSE Contents[k + 1]]
  BY <1>2, <1>4 DEF Contents
<1>6. Append(Tail(Contents), last') =
        [k \in 1..size |-> IF k = size THEN last' ELSE Contents[k + 1]]
  <2>1. Contents \in Seq(Int) /\ Len(Contents) = size /\ Contents # <<>>
    BY ContentsSeq, SizeAssumption
  <2>2. last' \in Int  BY <1>1 DEF RingOK
  <2> DEFINE rest == Tail(Contents)
  <2>3. /\ rest \in Seq(Int) /\ Len(rest) = size - 1
        /\ \A k \in 1..(size - 1) : rest[k] = Contents[k + 1]
    BY <2>1, TailIs
  <2> HIDE DEF rest
  <2>4. Append(rest, last') =
          [k \in 1..(Len(rest) + 1) |-> IF k = Len(rest) + 1 THEN last' ELSE rest[k]]
    BY <2>2, <2>3, AppendIs
  <2>5. Append(rest, last') =
          [k \in 1..size |-> IF k = size THEN last' ELSE Contents[k + 1]]
    BY <2>3, <2>4, SizeAssumption
  <2> QED  BY <2>5 DEF rest
<1> QED  BY <1>5, <1>6

(* For every size: the ring implements the bounded history, whatever the   *)
(* interleaving of wrap-around, overwriting and resets.                    *)
THEOREM RingImplementsHistory == Spec => ImplementsHistory
<1>1. Init => History!Init
  <2> SUFFICES ASSUME Init PROVE Contents = <<>>
    BY DEF History!Init
  <2> QED  BY DEF Init, Contents
<1>2. RingOK /\ [Next]_vars => [History!Reset \/ History!Record(last')]_Contents
  <2> SUFFICES ASSUME RingOK, [Next]_vars
               PROVE  [History!Reset \/ History!Record(last')]_Contents
    OBVIOUS
  <2>1. CASE Reset
    BY <2>1 DEF Reset, Contents, History!Reset
  <2>2. ASSUME NEW c \in Coords, Update(c) PROVE History!Record(last')
    <3>1. CASE numItems < size
      BY <2>2, <3>1, UpdateRoom, ContentsSeq, SizeAssumption DEF History!Record, RingOK
    <3>2. CASE numItems = size
      BY <2>2, <3>2, UpdateFull, ContentsSeq DEF History!Record
    <3> QED  BY <3>1, <3>2, SizeAssumption DEF RingOK
  <2>3. CASE UNCHANGED vars
    BY <2>3 DEF vars, ring, Contents
  <2> QED  BY <2>1, <2>2, <2>3 DEF Next
<1> QED  BY <1>1, <1>2, RingCorrect, PTL DEF Spec, ImplementsHistory
=============================================================================
