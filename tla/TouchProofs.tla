--------------------------- MODULE TouchProofs ---------------------------
(***************************************************************************)
(* Proofs about the finger tracking and the touch panel, for every number  *)
(* of contacts, every display and every length of buffer: first lemmas on  *)
(* sets and sequences of numbers, then on the operators of FingerTracking, *)
(* then the invariants of GestureTracker and those of Touchpanel.          *)
(***************************************************************************)
EXTENDS GestureTracker, Touchpanel, FiniteSetTheorems, SequenceTheorems,
        WellFoundedInduction, TLAPS

(* A set of naturals that is not empty has a least element.                *)
LEMMA LeastExists ==
  ASSUME NEW S, S \subseteq Nat, S # {}
  PROVE  \E m \in S : \A n \in S : m <= n
<1>1. \A m, n \in Nat : n < m => <<n, m>> \in OpToRel(<, Nat)
  BY SMT DEF OpToRel
<1>2. \E m \in S : \A n \in S : ~(<<n, m>> \in OpToRel(<, Nat))
  BY WFMin, NatLessThanWellFounded, Zenon
<1>3. PICK m \in S : \A n \in S : ~(<<n, m>> \in OpToRel(<, Nat))
  BY <1>2, Zenon
<1>4. \A n \in S : ~(n < m)
  BY <1>1, <1>3, Zenon
<1> QED  BY <1>4

LEMMA MaxIs ==
  ASSUME NEW n \in Nat, NEW S, S \subseteq 0 .. n, S # {}
  PROVE  Max(S) \in S /\ \A x \in S : x <= Max(S)
<1> DEFINE T == {n - x : x \in S}
<1>1. T \subseteq Nat /\ T # {}
  <2>1. \A x \in S : x \in 0 .. n
    OBVIOUS
  <2>2. \A x \in 0 .. n : n - x \in Nat
    OBVIOUS
  <2> QED  BY <2>1, <2>2, Zenon
<1>2. PICK m \in T : \A k \in T : m <= k
  BY <1>1, LeastExists
<1>3. PICK y \in S : m = n - y
  BY <1>2
<1>4. \A x \in S : y >= x
  <2> SUFFICES ASSUME NEW x \in S PROVE y >= x
    OBVIOUS
  <2>1. m <= n - x
    BY <1>2
  <2> QED  BY <1>3, <2>1
<1>5. Max(S) \in S /\ \A x \in S : Max(S) >= x
  BY <1>4, Zenon DEF Max
<1> QED  BY <1>5

(* Induction, with a set for the property.                                 *)
LEMMA Induction ==
  ASSUME NEW S, 0 \in S, \A n \in Nat : n \in S => n + 1 \in S
  PROVE  Nat \subseteq S
<1> SUFFICES ASSUME Nat \ S # {} PROVE FALSE
  OBVIOUS
<1>1. PICK m \in Nat \ S : \A n \in Nat \ S : m <= n
  BY LeastExists
<1>2. m - 1 \in Nat /\ m - 1 \in S
  BY <1>1
<1> QED  BY <1>1, <1>2

-----------------------------------------------------------------------------
(* A function that is defined by recursion over 0 .. n exists.             *)
IsRun(f, n, base, step) ==
  f[0] = base /\ \A i \in 1 .. n : f[i] = step[i][f[i - 1]]

LEMMA RunExists ==
  ASSUME NEW n \in Nat, NEW D, NEW base \in D, NEW step \in [1 .. n -> [D -> D]]
  PROVE  \E f \in [0 .. n -> D] : IsRun(f, n, base, step)
<1> DEFINE T == {k \in Nat : k <= n => \E f \in [0 .. k -> D] : IsRun(f, k, base, step)}
<1>1. 0 \in T
  <2>1. [i \in 0 .. 0 |-> base] \in [0 .. 0 -> D] /\ IsRun([i \in 0 .. 0 |-> base], 0, base, step)
    BY DEF IsRun
  <2> QED  BY <2>1
<1>2. ASSUME NEW k \in Nat, k \in T PROVE k + 1 \in T
  <2> SUFFICES ASSUME k + 1 <= n
               PROVE  \E f \in [0 .. k + 1 -> D] : IsRun(f, k + 1, base, step)
    OBVIOUS
  <2>1. PICK f \in [0 .. k -> D] : IsRun(f, k, base, step)
    BY <1>2
  <2>2. step[k + 1] \in [D -> D] /\ f[k] \in D
    BY <2>1
  <2> DEFINE g == [i \in 0 .. k + 1 |-> IF i = k + 1 THEN step[k + 1][f[k]] ELSE f[i]]
  <2>3. g \in [0 .. k + 1 -> D] /\ g[0] = base
    BY <2>1, <2>2 DEF IsRun
  <2>4. ASSUME NEW i \in 1 .. k + 1 PROVE g[i] = step[i][g[i - 1]]
    BY <2>1 DEF IsRun
  <2> HIDE DEF g
  <2>5. IsRun(g, k + 1, base, step)
    BY <2>3, <2>4 DEF IsRun
  <2> QED  BY <2>3, <2>5
<1> HIDE DEF T
<1>3. Nat \subseteq T
  BY <1>1, <1>2, Induction
<1> QED  BY <1>3 DEF T

-----------------------------------------------------------------------------
(* Ascending and its steps.                                                *)
AscStep(S, before, i) == IF i \in S THEN Append(before, i) ELSE before

LEMMA AscendingRun ==
  ASSUME NEW S, NEW n \in Nat
  PROVE  \E f : /\ f[0] = <<>> /\ \A i \in 1 .. n : f[i] = AscStep(S, f[i - 1], i)
                /\ Ascending(S, n) = f[n]
<1> DEFINE D    == Seq(Nat)
           step == [i \in 1 .. n |-> [q \in D |-> AscStep(S, q, i)]]
<1>1. step \in [1 .. n -> [D -> D]] /\ <<>> \in D
  BY DEF AscStep
<1> HIDE DEF step
<1>2. PICK f \in [0 .. n -> D] : IsRun(f, n, <<>>, step)
  BY <1>1, RunExists
<1>3. ASSUME NEW i \in 1 .. n PROVE f[i] = AscStep(S, f[i - 1], i)
  <2>1. i - 1 \in 0 .. n
    OBVIOUS
  <2>2. f[i - 1] \in D
    BY <1>2, <2>1, Zenon
  <2>3. step[i][f[i - 1]] = AscStep(S, f[i - 1], i)
    BY <2>2, Zenon DEF step
  <2> QED  BY <1>2, <2>3, Zenon DEF IsRun
<1>4. f = [i \in 0 .. n |-> IF i = 0 THEN <<>>
                            ELSE IF i \in S THEN Append(f[i - 1], i) ELSE f[i - 1]]
  <2>1. ASSUME NEW i \in 0 .. n
        PROVE  f[i] = IF i = 0 THEN <<>>
                      ELSE IF i \in S THEN Append(f[i - 1], i) ELSE f[i - 1]
    <3>1. i # 0 => i \in 1 .. n
      OBVIOUS
    <3> QED  BY <1>2, <1>3, <3>1, Zenon DEF IsRun, AscStep
  <2> QED  BY <1>2, <2>1, Zenon
<1> DEFINE g == CHOOSE g : g = [i \in 0 .. n |->
                   IF i = 0 THEN <<>>
                   ELSE IF i \in S THEN Append(g[i - 1], i) ELSE g[i - 1]]
<1>5. g = [i \in 0 .. n |-> IF i = 0 THEN <<>>
                            ELSE IF i \in S THEN Append(g[i - 1], i) ELSE g[i - 1]]
  BY <1>4, Zenon
<1>6. Ascending(S, n) = g[n]
  BY DEF Ascending
<1> HIDE DEF g
<1>7. g[0] = <<>>
  BY <1>5
<1>8. ASSUME NEW i \in 1 .. n PROVE g[i] = AscStep(S, g[i - 1], i)
  <2>1. i \in 0 .. n /\ i # 0
    OBVIOUS
  <2> QED  BY <1>5, <2>1, Zenon DEF AscStep
<1> QED  BY <1>6, <1>7, <1>8, Zenon

(* Ascending lists the elements of S up to n, each once.                   *)
Lists(q, S, k) ==
  /\ q \in Seq(Nat) /\ \A i \in 1 .. Len(q) : q[i] \in S /\ q[i] \in 1 .. k
  /\ \A x \in S : x \in 1 .. k => \E i \in 1 .. Len(q) : q[i] = x
  /\ \A i, j \in 1 .. Len(q) : q[i] = q[j] => i = j

LEMMA AppendLists ==
  ASSUME NEW S, NEW k \in Nat, NEW q, Lists(q, S, k), k + 1 \in S
  PROVE  Lists(Append(q, k + 1), S, k + 1)
<1> DEFINE p == Append(q, k + 1)
<1>1. q \in Seq(Nat) /\ Len(q) \in Nat
  BY DEF Lists
<1>2. /\ p \in Seq(Nat) /\ Len(p) = Len(q) + 1 /\ p[Len(q) + 1] = k + 1
      /\ \A i \in 1 .. Len(q) : p[i] = q[i]
  BY <1>1
<1> HIDE DEF p
<1>3. ASSUME NEW i \in 1 .. Len(p) PROVE p[i] \in S /\ p[i] \in 1 .. k + 1
  <2>1. CASE i = Len(q) + 1
    BY <1>2, <2>1
  <2>2. CASE i # Len(q) + 1
    <3>1. i \in 1 .. Len(q)
      BY <1>1, <1>2, <2>2
    <3>2. p[i] = q[i] /\ q[i] \in S /\ q[i] \in 1 .. k
      BY <1>2, <3>1 DEF Lists
    <3> QED  BY <3>2
  <2> QED  BY <2>1, <2>2
<1>4. ASSUME NEW x \in S, x \in 1 .. k + 1 PROVE \E i \in 1 .. Len(p) : p[i] = x
  <2>1. CASE x = k + 1
    BY <1>1, <1>2, <2>1
  <2>2. CASE x # k + 1
    <3>1. PICK i \in 1 .. Len(q) : q[i] = x
      BY <1>4, <2>2 DEF Lists
    <3> QED  BY <1>1, <1>2, <3>1
  <2> QED  BY <2>1, <2>2
<1>5. ASSUME NEW i \in 1 .. Len(p), NEW j \in 1 .. Len(p), p[i] = p[j] PROVE i = j
  <2>1. \A l \in 1 .. Len(q) : p[l] = q[l] /\ p[l] # k + 1
    BY <1>2 DEF Lists
  <2>2. CASE i \in 1 .. Len(q) /\ j \in 1 .. Len(q)
    BY <1>5, <2>1, <2>2 DEF Lists
  <2>3. CASE ~(i \in 1 .. Len(q) /\ j \in 1 .. Len(q))
    BY <1>1, <1>2, <1>5, <2>1, <2>3
  <2> QED  BY <2>2, <2>3
<1>6. Lists(p, S, k + 1)
  BY <1>2, <1>3, <1>4, <1>5 DEF Lists
<1> QED  BY <1>6 DEF p

LEMMA AscendingLists ==
  ASSUME NEW n \in Nat, NEW S
  PROVE  Lists(Ascending(S, n), S, n)
<1>1. PICK f : /\ f[0] = <<>> /\ \A i \in 1 .. n : f[i] = AscStep(S, f[i - 1], i)
               /\ Ascending(S, n) = f[n]
  BY AscendingRun
<1> DEFINE T == {k \in Nat : k <= n => Lists(f[k], S, k)}
<1>2. 0 \in T
  <2>1. f[0] = <<>>
    BY <1>1
  <2>2. Lists(<<>>, S, 0)
    <3>1. <<>> \in Seq(Nat) /\ Len(<<>>) = 0
      OBVIOUS
    <3>2. 1 .. 0 = {}
      OBVIOUS
    <3> QED  BY <3>1, <3>2, Zenon DEF Lists
  <2> QED  BY <2>1, <2>2
<1>3. ASSUME NEW k \in Nat, k \in T PROVE k + 1 \in T
  <2>1. SUFFICES ASSUME k + 1 <= n PROVE Lists(f[k + 1], S, k + 1)
    OBVIOUS
  <2>2. Lists(f[k], S, k) /\ k + 1 \in 1 .. n /\ (k + 1) - 1 = k
    BY <1>3, <2>1
  <2>3. f[k + 1] = AscStep(S, f[k], k + 1)
    BY <1>1, <2>2, Zenon
  <2>4. CASE k + 1 \in S
    BY <2>2, <2>3, <2>4, AppendLists DEF AscStep
  <2>5. CASE k + 1 \notin S
    <3>1. f[k + 1] = f[k]
      BY <2>3, <2>5 DEF AscStep
    <3> DEFINE q == f[k]
    <3>2. Lists(q, S, k) /\ f[k + 1] = q
      BY <2>2, <3>1
    <3> HIDE DEF q
    <3>3. \A x \in 1 .. k : x \in 1 .. k + 1
      OBVIOUS
    <3>4. \A x \in S : x \in 1 .. k + 1 => x \in 1 .. k
      BY <2>5
    <3> QED  BY <3>2, <3>3, <3>4, Zenon DEF Lists
  <2> QED  BY <2>4, <2>5
<1> HIDE DEF T
<1>4. Nat \subseteq T
  BY <1>2, <1>3, Induction
<1> QED  BY <1>1, <1>4 DEF T

-----------------------------------------------------------------------------
(* Fingers and contacts with their positions in P and their weights in W.  *)
Point           == Int \X Int
FingerIn(P, W)  == [id : Nat, last : P, weight : W, down : BOOLEAN]
ContactIn(P, W) == [at : P, weight : W]

LEMMA FingerFields ==
  ASSUME NEW P, NEW W, NEW live \in Seq(FingerIn(P, W)), NEW f \in DOMAIN live
  PROVE  /\ live[f] \in FingerIn(P, W)
         /\ live[f].id \in Nat /\ live[f].last \in P /\ live[f].weight \in W
         /\ live[f].down \in BOOLEAN
<1>1. live[f] \in FingerIn(P, W)
  OBVIOUS
<1> QED  BY <1>1, Zenon DEF FingerIn

LEMMA ContactFields ==
  ASSUME NEW P, NEW W, NEW contacts \in Seq(ContactIn(P, W)), NEW j \in DOMAIN contacts
  PROVE  /\ contacts[j] \in ContactIn(P, W)
         /\ contacts[j].at \in P /\ contacts[j].weight \in W
<1>1. contacts[j] \in ContactIn(P, W)
  OBVIOUS
<1> QED  BY <1>1, Zenon DEF ContactIn

LEMMA DistNat ==
  ASSUME NEW p \in Point, NEW q \in Point
  PROVE  /\ Dist(p, q) \in Nat
         /\ Dist(p, q) = 0 <=> p = q
<1>1. \A x \in Int : x * x \in Nat /\ (x * x = 0 => x = 0)
  BY Z3
<1>2. /\ p[1] - q[1] \in Int /\ p[2] - q[2] \in Int
      /\ p = <<p[1], p[2]>> /\ q = <<q[1], q[2]>>
  BY DEF Point
<1> DEFINE x == p[1] - q[1]  y == p[2] - q[2]
<1>3. x * x \in Nat /\ y * y \in Nat /\ (x * x = 0 => x = 0) /\ (y * y = 0 => y = 0)
  BY <1>1, <1>2
<1>4. Dist(p, q) = x * x + y * y
  BY DEF Dist
<1>5. p = q => Dist(p, q) = 0
  <2> SUFFICES ASSUME p = q PROVE Dist(p, q) = 0
    OBVIOUS
  <2>1. x = 0 /\ y = 0
    <3>1. \A v \in Int : v - v = 0
      OBVIOUS
    <3> QED  BY <1>2, <3>1, Zenon DEF Point
  <2> HIDE DEF x, y
  <2> QED  BY <1>4, <2>1
<1>6. Dist(p, q) \in Nat /\ (Dist(p, q) = 0 => x = 0 /\ y = 0)
  <2> HIDE DEF x, y
  <2> QED  BY <1>3, <1>4
<1>7. x = 0 /\ y = 0 => p[1] = q[1] /\ p[2] = q[2]
  BY <1>2 DEF Point
<1> QED  BY <1>2, <1>5, <1>6, <1>7

(* Matching and its steps.                                                 *)
MatchStart(live) == [f \in DOMAIN live |-> [dist |-> INT_MAX, contact |-> NoContact]]

MatchStep(live, contacts, before, j) ==
  [f \in DOMAIN live |->
     IF f \in BestFinger(before, live, contacts[j].at)
     THEN [dist |-> Dist(contacts[j].at, live[f].last), contact |-> j]
     ELSE before[f]]

Matchings(live) == [DOMAIN live -> [dist : Nat, contact : Nat]]

MatchRun(live, contacts, m) ==
  /\ m \in [0 .. Len(contacts) -> Matchings(live)] /\ m[0] = MatchStart(live)
  /\ \A j \in 1 .. Len(contacts) : m[j] = MatchStep(live, contacts, m[j - 1], j)
  /\ Matching(live, contacts) = m[Len(contacts)]

LEMMA MatchStepType ==
  ASSUME NEW P, P \subseteq Point, NEW W,
         NEW live \in Seq(FingerIn(P, W)), NEW contacts \in Seq(ContactIn(P, W)),
         NEW before \in Matchings(live), NEW j \in 1 .. Len(contacts)
  PROVE  MatchStep(live, contacts, before, j) \in Matchings(live)
<1>1. ASSUME NEW f \in DOMAIN live PROVE Dist(contacts[j].at, live[f].last) \in Nat
  <2>1. contacts[j].at \in Point /\ live[f].last \in Point
    <3>1. j \in DOMAIN contacts
      OBVIOUS
    <3>2. contacts[j].at \in P /\ live[f].last \in P
      BY <3>1, FingerFields, ContactFields
    <3> QED  BY <3>2
  <2> QED  BY <2>1, DistNat
<1>2. j \in Nat
  OBVIOUS
<1>3. \A f \in DOMAIN live : before[f] \in [dist : Nat, contact : Nat]
  BY DEF Matchings
<1> QED  BY <1>1, <1>2, <1>3, Zenon DEF MatchStep, Matchings

LEMMA MatchingRun ==
  ASSUME NEW P, P \subseteq Point, NEW W,
         NEW live \in Seq(FingerIn(P, W)), NEW contacts \in Seq(ContactIn(P, W))
  PROVE  \E m : MatchRun(live, contacts, m)
<1> DEFINE n    == Len(contacts)
           D    == Matchings(live)
           step == [j \in 1 .. n |-> [b \in D |-> MatchStep(live, contacts, b, j)]]
<1>0. n \in Nat
  OBVIOUS
<1>1. step \in [1 .. n -> [D -> D]] /\ MatchStart(live) \in D
  <2>1. MatchStart(live) \in D
    BY IntMaxAssumption DEF MatchStart, Matchings, NoContact
  <2>2. ASSUME NEW j \in 1 .. n, NEW b \in D PROVE MatchStep(live, contacts, b, j) \in D
    BY MatchStepType
  <2> HIDE DEF D
  <2> QED  BY <2>1, <2>2, Zenon
<1> HIDE DEF step, n, D
<1>2. PICK f \in [0 .. n -> D] : IsRun(f, n, MatchStart(live), step)
  BY <1>0, <1>1, RunExists
<1>3. ASSUME NEW j \in 1 .. n PROVE f[j] = MatchStep(live, contacts, f[j - 1], j)
  <2>1. j - 1 \in 0 .. n
    BY <1>0
  <2>2. f[j - 1] \in D
    BY <1>2, <2>1, Zenon
  <2>3. step[j][f[j - 1]] = MatchStep(live, contacts, f[j - 1], j)
    BY <2>2, Zenon DEF step
  <2> QED  BY <1>2, <2>3, Zenon DEF IsRun
<1>4. f = [j \in 0 .. n |-> IF j = 0 THEN MatchStart(live)
                            ELSE MatchStep(live, contacts, f[j - 1], j)]
  <2>1. ASSUME NEW j \in 0 .. n
        PROVE  f[j] = IF j = 0 THEN MatchStart(live)
                      ELSE MatchStep(live, contacts, f[j - 1], j)
    <3>1. j # 0 => j \in 1 .. n
      BY <1>0
    <3> QED  BY <1>2, <1>3, <3>1, Zenon DEF IsRun
  <2> QED  BY <1>2, <2>1, Zenon
<1> DEFINE g == CHOOSE g : g = [j \in 0 .. n |->
                   IF j = 0 THEN MatchStart(live)
                   ELSE MatchStep(live, contacts, g[j - 1], j)]
<1>5. g = [j \in 0 .. n |-> IF j = 0 THEN MatchStart(live)
                            ELSE MatchStep(live, contacts, g[j - 1], j)]
  BY <1>4, Zenon
<1>6. Matching(live, contacts) = g[n]
  BY Zenon DEF Matching, MatchStart, MatchStep, n
<1> HIDE DEF g
<1>7. g[0] = MatchStart(live)
  <2>1. 0 \in 0 .. n
    BY <1>0
  <2> QED  BY <1>5, <2>1, Zenon
<1>8. ASSUME NEW j \in 1 .. n PROVE g[j] = MatchStep(live, contacts, g[j - 1], j)
  <2>1. j \in 0 .. n /\ j # 0
    BY <1>0
  <2> QED  BY <1>5, <2>1, Zenon
<1> DEFINE T == {j \in Nat : j <= n => g[j] \in D}
<1>9. 0 \in T
  BY <1>1, <1>7
<1>10. ASSUME NEW j \in Nat, j \in T PROVE j + 1 \in T
  <2> SUFFICES ASSUME j + 1 <= n PROVE g[j + 1] \in D
    OBVIOUS
  <2>1. g[j] \in D /\ j + 1 \in 1 .. n /\ (j + 1) - 1 = j
    BY <1>10, <1>0
  <2>2. g[j + 1] = MatchStep(live, contacts, g[j], j + 1)
    BY <1>8, <2>1, Zenon
  <2> QED  BY <2>1, <2>2, MatchStepType DEF D, n
<1> HIDE DEF T
<1>11. Nat \subseteq T
  BY <1>9, <1>10, Induction
<1>12. \A j \in 0 .. n : g[j] \in D
  BY <1>11 DEF T
<1>13. g \in [0 .. n -> D]
  BY <1>5, <1>12, Zenon
<1> QED  BY <1>6, <1>7, <1>8, <1>13, Zenon DEF n, D, MatchRun

(* At most one finger is the best for a contact.                           *)
LEMMA OneBest ==
  ASSUME NEW P, P \subseteq Point, NEW W, NEW live \in Seq(FingerIn(P, W)),
         NEW at \in P, NEW m,
         NEW f \in BestFinger(m, live, at), NEW g \in BestFinger(m, live, at)
  PROVE  f = g
<1>1. f \in DOMAIN live /\ g \in DOMAIN live /\ f \in Int /\ g \in Int
  BY DEF BestFinger
<1>2. Dist(at, live[f].last) \in Nat /\ Dist(at, live[g].last) \in Nat
  <2>1. live[f].last \in Point /\ live[g].last \in Point /\ at \in Point
    <3>1. live[f].last \in P /\ live[g].last \in P
      BY <1>1, FingerFields
    <3> QED  BY <3>1
  <2> QED  BY <2>1, DistNat
<1>3. /\ Dist(at, live[f].last) < Dist(at, live[g].last)
         \/ (Dist(at, live[f].last) = Dist(at, live[g].last) /\ f <= g)
      /\ Dist(at, live[g].last) < Dist(at, live[f].last)
         \/ (Dist(at, live[g].last) = Dist(at, live[f].last) /\ g <= f)
  BY Zenon DEF BestFinger
<1> QED  BY <1>1, <1>2, <1>3

(* No two fingers share a contact.                                         *)
IsMatching(m, live, n) ==
  /\ m \in [DOMAIN live -> [dist : Nat, contact : 0 .. n]]
  /\ \A f, g \in DOMAIN live :
       m[f].contact = m[g].contact /\ m[f].contact # NoContact => f = g

LEMMA MatchingMatches ==
  ASSUME NEW P, P \subseteq Point, NEW W,
         NEW live \in Seq(FingerIn(P, W)), NEW contacts \in Seq(ContactIn(P, W))
  PROVE  IsMatching(Matching(live, contacts), live, Len(contacts))
<1>0. PICK m : MatchRun(live, contacts, m)
  BY MatchingRun
<1>1. /\ m \in [0 .. Len(contacts) -> Matchings(live)] /\ m[0] = MatchStart(live)
      /\ \A j \in 1 .. Len(contacts) : m[j] = MatchStep(live, contacts, m[j - 1], j)
      /\ Matching(live, contacts) = m[Len(contacts)]
  BY <1>0, Zenon DEF MatchRun
<1> DEFINE T == {j \in Nat : j <= Len(contacts) => IsMatching(m[j], live, j)}
<1>2. 0 \in T
  <2>1. IsMatching(m[0], live, 0)
    BY <1>1, IntMaxAssumption DEF MatchStart, IsMatching, NoContact
  <2> QED  BY <2>1
<1>3. ASSUME NEW j \in Nat, j \in T PROVE j + 1 \in T
  <2> SUFFICES ASSUME j + 1 <= Len(contacts) PROVE IsMatching(m[j + 1], live, j + 1)
    OBVIOUS
  <2> DEFINE a == m[j]  b == m[j + 1]  best == BestFinger(a, live, contacts[j + 1].at)
  <2>1. /\ IsMatching(a, live, j) /\ j + 1 \in 1 .. Len(contacts) /\ (j + 1) - 1 = j
        /\ b \in Matchings(live)
    BY <1>1, <1>3
  <2>2. b = MatchStep(live, contacts, a, j + 1)
    BY <1>1, <2>1, Zenon
  <2>3. \A f \in DOMAIN live :
          b[f].contact = IF f \in best THEN j + 1 ELSE a[f].contact
    BY <2>2 DEF MatchStep
  <2>4. contacts[j + 1].at \in P
    <3>1. j + 1 \in DOMAIN contacts
      BY <2>1
    <3> QED  BY <3>1, ContactFields, Zenon
  <2>5. \A f, g \in best : f = g
    BY <2>4, OneBest
  <2>6. \A f \in DOMAIN live : a[f].contact \in 0 .. j
    BY <2>1 DEF IsMatching
  <2> HIDE DEF a, b, best
  <2>7. \A f \in DOMAIN live : b[f].contact \in 0 .. j + 1
    BY <2>3, <2>6
  <2>8. b \in [DOMAIN live -> [dist : Nat, contact : 0 .. j + 1]]
    BY <2>1, <2>7 DEF Matchings
  <2>9. ASSUME NEW f \in DOMAIN live, NEW g \in DOMAIN live,
               b[f].contact = b[g].contact, b[f].contact # NoContact
        PROVE  f = g
    <3>1. CASE f \in best /\ g \in best
      BY <2>5, <3>1
    <3>2. CASE f \notin best /\ g \notin best
      BY <2>1, <2>3, <2>9, <3>2 DEF IsMatching
    <3>3. CASE ~(f \in best <=> g \in best)
      BY <2>3, <2>6, <2>9, <3>3
    <3> QED  BY <3>1, <3>2, <3>3
  <2> QED  BY <2>8, <2>9 DEF IsMatching, b
<1> HIDE DEF T
<1>4. Nat \subseteq T
  BY <1>2, <1>3, Induction
<1> QED  BY <1>1, <1>4 DEF T

-----------------------------------------------------------------------------
(* The contacts that become new fingers, and the fingers they become.      *)
Unmatched(live, contacts, m) ==
  {j \in DOMAIN contacts : /\ \A f \in DOMAIN live : m[f].contact # j
                           /\ contacts[j].at # Nowhere
                           /\ contacts[j].weight >= FingerDownThreshold}

NewOrder(order, live, contacts, m) ==
  /\ Lists(order, Unmatched(live, contacts, m), Len(contacts))
  /\ NewContacts(live, contacts, m) = [k \in 1 .. Len(order) |-> contacts[order[k]]]

LEMMA NewContactsAre ==
  ASSUME NEW P, NEW W, NEW live, NEW contacts \in Seq(ContactIn(P, W)), NEW m
  PROVE  \E order : NewOrder(order, live, contacts, m)
<1> DEFINE order == Ascending(Unmatched(live, contacts, m), Len(contacts))
<1>1. Len(contacts) \in Nat
  OBVIOUS
<1>2. Lists(order, Unmatched(live, contacts, m), Len(contacts))
  BY <1>1, AscendingLists, Zenon
<1>3. NewContacts(live, contacts, m) = [k \in DOMAIN order |-> contacts[order[k]]]
  BY Zenon DEF NewContacts, Unmatched
<1>4. DOMAIN order = 1 .. Len(order)
  BY <1>2 DEF Lists
<1> QED  BY <1>2, <1>3, <1>4, Zenon DEF NewOrder

LEMMA NewContactsType ==
  ASSUME NEW P, NEW W, NEW live, NEW contacts \in Seq(ContactIn(P, W)), NEW m
  PROVE  NewContacts(live, contacts, m) \in Seq(ContactIn(P, W))
<1>0. PICK order : NewOrder(order, live, contacts, m)
  BY NewContactsAre
<1>1. /\ Lists(order, Unmatched(live, contacts, m), Len(contacts))
      /\ NewContacts(live, contacts, m) = [k \in 1 .. Len(order) |-> contacts[order[k]]]
  BY <1>0, Zenon DEF NewOrder
<1>2. Len(order) \in Nat /\ \A k \in 1 .. Len(order) : order[k] \in 1 .. Len(contacts)
  BY <1>1 DEF Lists
<1>3. \A k \in 1 .. Len(order) : contacts[order[k]] \in ContactIn(P, W)
  BY <1>2, ContactFields
<1> QED  BY <1>1, <1>2, <1>3

NewFinger(t, new, k) ==
  [id |-> t.nextId + k - 1, last |-> new[k].at, weight |-> new[k].weight, down |-> FALSE]

AreNew(nf, t, new, P, W) ==
  /\ Len(nf) \in Nat /\ Len(nf) <= t.pool /\ Len(nf) <= Len(new)
  /\ nf \in Seq(FingerIn(P, W))
  /\ \A i \in 1 .. Len(nf) : /\ Len(nf) - i + 1 \in 1 .. Len(nf)
                             /\ nf[i] = NewFinger(t, new, Len(nf) - i + 1)

LEMMA NewFingersAre ==
  ASSUME NEW P, NEW W, NEW t, t.pool \in Nat, t.nextId \in Nat,
         NEW new \in Seq(ContactIn(P, W))
  PROVE  AreNew(NewFingers(t, new), t, new, P, W)
<1> DEFINE n == IF Len(new) < t.pool THEN Len(new) ELSE t.pool
           q == [i \in 1 .. n |-> NewFinger(t, new, i)]
<1>1. n \in Nat /\ n <= Len(new) /\ n <= t.pool
  OBVIOUS
<1> HIDE DEF n
<1>2. Len(q) = n
  BY <1>1
<1>3. NewFingers(t, new) = [i \in 1 .. n |-> q[n - i + 1]]
  <2>1. NewFingers(t, new) = Reverse(q)
    BY Zenon DEF NewFingers, n, NewFinger
  <2>2. Reverse(q) = [i \in 1 .. Len(q) |-> q[Len(q) - i + 1]]
    BY DEF Reverse
  <2> QED  BY <2>1, <2>2, <1>2, Zenon
<1>4. \A i \in 1 .. n : n - i + 1 \in 1 .. n
  BY <1>1
<1>5. ASSUME NEW i \in 1 .. n PROVE NewFinger(t, new, i) \in FingerIn(P, W)
  <2>1. i \in DOMAIN new
    BY <1>1
  <2>2. new[i].at \in P /\ new[i].weight \in W
    BY <2>1, ContactFields
  <2>3. t.nextId + i - 1 \in Nat
    BY <1>1
  <2> QED  BY <2>2, <2>3 DEF NewFinger, FingerIn
<1>6. \A i \in 1 .. n : q[n - i + 1] = NewFinger(t, new, n - i + 1)
  BY <1>4, Zenon
<1> HIDE DEF q
<1>7. NewFingers(t, new) \in Seq(FingerIn(P, W)) /\ Len(NewFingers(t, new)) = n
  BY <1>1, <1>3, <1>4, <1>5, <1>6
<1>8. \A i \in 1 .. n : NewFingers(t, new)[i] = NewFinger(t, new, n - i + 1)
  BY <1>3, <1>6, Zenon
<1> QED  BY <1>1, <1>4, <1>7, <1>8, Zenon DEF AreNew

(* The fingers after they took their contacts.                             *)
AreOld(rf, live, P, W) ==
  /\ rf \in Seq(FingerIn(P, W)) /\ Len(rf) = Len(live)
  /\ \A f \in 1 .. Len(live) : rf[f].id = live[f].id /\ rf[f].down = live[f].down

LEMMA RefreshedAre ==
  ASSUME NEW P, NEW W, W \subseteq Nat,
         NEW live \in Seq(FingerIn(P, W)), NEW contacts \in Seq(ContactIn(P, W)),
         NEW m, IsMatching(m, live, Len(contacts))
  PROVE  AreOld(Refreshed(live, contacts, m), live, P, W)
<1> DEFINE R(f) == IF m[f].contact = NoContact THEN live[f]
                   ELSE Moved(live[f], contacts[m[f].contact])
<1>1. Len(live) \in Nat /\ DOMAIN live = 1 .. Len(live) /\ Len(contacts) \in Nat
  OBVIOUS
<1>2. Refreshed(live, contacts, m) = [f \in 1 .. Len(live) |-> R(f)]
  BY <1>1, Zenon DEF Refreshed
<1>3. ASSUME NEW f \in 1 .. Len(live)
      PROVE  R(f) \in FingerIn(P, W) /\ R(f).id = live[f].id /\ R(f).down = live[f].down
  <2>1. live[f] \in FingerIn(P, W)
    OBVIOUS
  <2>2. CASE m[f].contact = NoContact
    BY <2>1, <2>2
  <2>3. CASE m[f].contact # NoContact
    <3>1. m[f].contact \in DOMAIN contacts
      BY <1>1, <2>3 DEF IsMatching, NoContact
    <3>2. PICK c : c = contacts[m[f].contact] /\ c.at \in P /\ c.weight \in W
      BY <3>1, ContactFields, Zenon
    <3>3. R(f) = Moved(live[f], c)
      BY <2>3, <3>2
    <3>4. /\ Moved(live[f], c) \in FingerIn(P, W)
          /\ Moved(live[f], c).id = live[f].id /\ Moved(live[f], c).down = live[f].down
      BY <2>1, <3>2 DEF Moved, FingerIn
    <3> QED  BY <3>3, <3>4
  <2> QED  BY <2>2, <2>3
<1> HIDE DEF R
<1> QED  BY <1>1, <1>2, <1>3 DEF AreOld

-----------------------------------------------------------------------------
(* The sequences that FlattenSeq joins are stretches of its result, and    *)
(* there is nothing else in it.                                            *)
Stretch(s, off, e) ==
  off \in Nat /\ off + Len(e) <= Len(s) /\ \A x \in 1 .. Len(e) : s[off + x] = e[x]

Joins(s, E, n) ==
  /\ \A k \in 1 .. n : \E off : Stretch(s, off, E[k])
  /\ \A i \in 1 .. Len(s) :
       \E k \in 1 .. n : \E off : Stretch(s, off, E[k]) /\ i - off \in 1 .. Len(E[k])

LEMMA JoinOne ==
  ASSUME NEW A, NEW E \in Seq(Seq(A)), NEW n \in Nat, n + 1 <= Len(E),
         NEW s \in Seq(A), Joins(s, E, n)
  PROVE  s \o E[n + 1] \in Seq(A) /\ Joins(s \o E[n + 1], E, n + 1)
<1> DEFINE e == E[n + 1]  t == s \o e
<1>1. e \in Seq(A) /\ Len(e) \in Nat /\ Len(s) \in Nat
  OBVIOUS
<1>2. \A k \in 1 .. n : E[k] \in Seq(A) /\ Len(E[k]) \in Nat
  OBVIOUS
<1> HIDE DEF e
<1>3. /\ t \in Seq(A) /\ Len(t) = Len(s) + Len(e)
      /\ \A i \in 1 .. Len(s) : t[i] = s[i]
      /\ \A i \in 1 .. Len(e) : t[Len(s) + i] = e[i]
  BY <1>1
<1> HIDE DEF t
<1>4. ASSUME NEW k \in 1 .. n, NEW off, Stretch(s, off, E[k]) PROVE Stretch(t, off, E[k])
  <2>1. Len(E[k]) \in Nat
    BY <1>2
  <2>2. ASSUME NEW x \in 1 .. Len(E[k]) PROVE t[off + x] = E[k][x]
    <3>1. off + x \in 1 .. Len(s) /\ s[off + x] = E[k][x]
      BY <1>1, <1>4, <2>1 DEF Stretch
    <3> QED  BY <1>3, <3>1
  <2> QED  BY <1>1, <1>3, <1>4, <2>1, <2>2 DEF Stretch
<1>5. Stretch(t, Len(s), e)
  BY <1>1, <1>3 DEF Stretch
<1>6. ASSUME NEW k \in 1 .. n + 1 PROVE \E off : Stretch(t, off, E[k])
  <2>1. CASE k = n + 1
    BY <1>5, <2>1 DEF e
  <2>2. CASE k # n + 1
    <3>1. k \in 1 .. n
      BY <2>2
    <3>2. PICK off : Stretch(s, off, E[k])
      BY <3>1, Zenon DEF Joins
    <3> QED  BY <1>4, <3>1, <3>2
  <2> QED  BY <2>1, <2>2
<1>7. ASSUME NEW i \in 1 .. Len(t)
      PROVE  \E k \in 1 .. n + 1 : \E off : Stretch(t, off, E[k]) /\ i - off \in 1 .. Len(E[k])
  <2>1. CASE i \in 1 .. Len(s)
    <3>1a. PICK k \in 1 .. n : \E off : Stretch(s, off, E[k]) /\ i - off \in 1 .. Len(E[k])
      BY <2>1, Zenon DEF Joins
    <3>1. PICK off : Stretch(s, off, E[k]) /\ i - off \in 1 .. Len(E[k])
      BY <3>1a
    <3>2. Stretch(t, off, E[k])
      BY <1>4, <3>1, Zenon
    <3>3. k \in 1 .. n + 1
      OBVIOUS
    <3> QED  BY <3>1, <3>2, <3>3, Zenon
  <2>2. CASE i \notin 1 .. Len(s)
    <3>1. i - Len(s) \in 1 .. Len(e) /\ n + 1 \in 1 .. n + 1
      BY <1>1, <1>3, <2>2
    <3> QED  BY <1>5, <3>1, Zenon DEF e
  <2> QED  BY <2>1, <2>2
<1>8. t \in Seq(A) /\ Joins(t, E, n + 1)
  BY <1>3, <1>6, <1>7, Zenon DEF Joins
<1> QED  BY <1>8 DEF t, e

LEMMA FlattenRun ==
  ASSUME NEW A, NEW E \in Seq(Seq(A)), Len(E) # 0
  PROVE  \E f : /\ f[1] = E[1] /\ \A i \in 2 .. Len(E) : f[i] = f[i - 1] \o E[i]
                /\ FlattenSeq(E) = f[Len(E)]
<1> DEFINE n    == Len(E)
           D    == Seq(A)
           step == [i \in 1 .. n |-> [q \in D |-> q \o E[i]]]
<1>0. n \in Nat /\ n # 0
  OBVIOUS
<1>1. step \in [1 .. n -> [D -> D]] /\ <<>> \in D
  <2>1. ASSUME NEW i \in 1 .. n, NEW q \in D PROVE q \o E[i] \in D
    <3>1. E[i] \in Seq(A)
      OBVIOUS
    <3> QED  BY <3>1
  <2>2. <<>> \in D
    OBVIOUS
  <2> HIDE DEF D
  <2> QED  BY <2>1, <2>2, Zenon
<1> HIDE DEF step, n
<1>2. PICK f \in [0 .. n -> D] : IsRun(f, n, <<>>, step)
  BY <1>0, <1>1, RunExists
<1>3. ASSUME NEW i \in 1 .. n PROVE f[i] = f[i - 1] \o E[i]
  <2>1. i - 1 \in 0 .. n
    BY <1>0
  <2>2. f[i - 1] \in D
    BY <1>2, <2>1, Zenon
  <2>3. step[i][f[i - 1]] = f[i - 1] \o E[i]
    BY <2>2, Zenon DEF step
  <2> QED  BY <1>2, <2>3, Zenon DEF IsRun
<1> DEFINE h == [i \in 1 .. n |-> f[i]]
<1>4. h = [i \in 1 .. n |-> IF i = 1 THEN E[i] ELSE h[i - 1] \o E[i]]
  <2>1. ASSUME NEW i \in 1 .. n
        PROVE  f[i] = IF i = 1 THEN E[i] ELSE h[i - 1] \o E[i]
    <3>1. CASE i = 1
      <4>1. f[i] = <<>> \o E[i]
        <5>1. i - 1 = 0
          BY <3>1
        <5>2. f[i] = f[i - 1] \o E[i] /\ f[0] = <<>>
          BY <1>2, <1>3, Zenon DEF IsRun
        <5> QED  BY <5>1, <5>2, Zenon
      <4>2. E[i] \in Seq(A)
        BY DEF n
      <4> QED  BY <3>1, <4>1, <4>2
    <3>2. CASE i # 1
      <4>1. i - 1 \in 1 .. n
        BY <1>0, <3>2
      <4> QED  BY <1>3, <3>2, <4>1, Zenon
    <3> QED  BY <3>1, <3>2
  <2> QED  BY <2>1, Zenon
<1> HIDE DEF h
<1> DEFINE g == CHOOSE g : g = [i \in 1 .. n |-> IF i = 1 THEN E[i] ELSE g[i - 1] \o E[i]]
<1>5. g = [i \in 1 .. n |-> IF i = 1 THEN E[i] ELSE g[i - 1] \o E[i]]
  BY <1>4, Zenon
<1>6. FlattenSeq(E) = g[n]
  BY <1>0, Zenon DEF FlattenSeq, n
<1> HIDE DEF g
<1>7. g[1] = E[1]
  <2>1. 1 \in 1 .. n
    BY <1>0
  <2> QED  BY <1>5, <2>1, Zenon
<1>8. ASSUME NEW i \in 2 .. n PROVE g[i] = g[i - 1] \o E[i]
  <2>1. i \in 1 .. n /\ i # 1
    BY <1>0
  <2> QED  BY <1>5, <2>1, Zenon
<1> QED  BY <1>6, <1>7, <1>8, Zenon DEF n

LEMMA FlattenJoins ==
  ASSUME NEW A, NEW E \in Seq(Seq(A))
  PROVE  FlattenSeq(E) \in Seq(A) /\ Joins(FlattenSeq(E), E, Len(E))
<1>1. CASE Len(E) = 0
  <2>1. FlattenSeq(E) = E /\ E = <<>>
    BY <1>1 DEF FlattenSeq
  <2>2. <<>> \in Seq(A) /\ 1 .. 0 = {}
    OBVIOUS
  <2> QED  BY <1>1, <2>1, <2>2, Zenon DEF Joins
<1>2. CASE Len(E) # 0
  <2>1. PICK f : /\ f[1] = E[1] /\ \A i \in 2 .. Len(E) : f[i] = f[i - 1] \o E[i]
                 /\ FlattenSeq(E) = f[Len(E)]
    BY <1>2, FlattenRun
  <2> DEFINE T == {k \in Nat : k + 1 <= Len(E) =>
                     f[k + 1] \in Seq(A) /\ Joins(f[k + 1], E, k + 1)}
  <2>2. 0 \in T
    <3>1. E[1] \in Seq(A) /\ Len(E[1]) \in Nat
      BY <1>2
    <3>2. Stretch(E[1], 0, E[1])
      BY <3>1 DEF Stretch
    <3>3. \A i \in 1 .. Len(E[1]) : i - 0 \in 1 .. Len(E[1])
      OBVIOUS
    <3>4. \A k : k \in 1 .. 0 + 1 <=> k = 1
      OBVIOUS
    <3>5. Joins(E[1], E, 0 + 1)
      BY <3>2, <3>3, <3>4, Zenon DEF Joins
    <3> QED  BY <2>1, <3>1, <3>5
  <2>3. ASSUME NEW k \in Nat, k \in T PROVE k + 1 \in T
    <3> SUFFICES ASSUME k + 2 <= Len(E)
                 PROVE  f[k + 2] \in Seq(A) /\ Joins(f[k + 2], E, k + 2)
      OBVIOUS
    <3>1. /\ k + 1 \in Nat /\ (k + 1) + 1 = k + 2 /\ (k + 1) + 1 <= Len(E)
          /\ k + 2 \in 2 .. Len(E) /\ (k + 2) - 1 = k + 1
      OBVIOUS
    <3>2. f[k + 1] \in Seq(A) /\ Joins(f[k + 1], E, k + 1)
      BY <2>3
    <3>3. f[k + 2] = f[k + 1] \o E[k + 2]
      BY <2>1, <3>1, Zenon
    <3> DEFINE s == f[k + 1]  n == k + 1
    <3>4. s \in Seq(A) /\ Joins(s, E, n) /\ n \in Nat /\ n + 1 <= Len(E)
      BY <3>1, <3>2
    <3> HIDE DEF s, n
    <3>5. s \o E[n + 1] \in Seq(A) /\ Joins(s \o E[n + 1], E, n + 1)
      BY <3>4, JoinOne
    <3> QED  BY <3>1, <3>3, <3>5, Zenon DEF s, n
  <2> HIDE DEF T
  <2>4. Nat \subseteq T
    BY <2>2, <2>3, Induction
  <2>5. Len(E) - 1 \in Nat /\ (Len(E) - 1) + 1 = Len(E)
    BY <1>2
  <2>6. Len(E) - 1 \in T
    BY <2>4, <2>5
  <2> QED  BY <2>1, <2>5, <2>6 DEF T
<1> QED  BY <1>1, <1>2

-----------------------------------------------------------------------------
(* The entries of one finger.                                              *)
Entry(P) == [type : {"FINGERID"}, id : Nat] \cup [type : {"KEY"}, value : {0, 1}]
            \cup [type : {"ABS"}, at : P]

IsKey(e, v) == e.type = "KEY" /\ e.value = v

OfFinger(e, P, finger, gone) ==
  /\ e \in Seq(Entry(P)) /\ Len(e) >= 1
  /\ e[1] = [type |-> "FINGERID", id |-> finger.id]
  /\ \A x \in 2 .. Len(e) : e[x].type \in {"KEY", "ABS"}
  /\ ~finger.down <=> \E x \in 2 .. Len(e) : IsKey(e[x], 1)
  /\ gone <=> \E x \in 2 .. Len(e) : IsKey(e[x], 0)
  /\ \A x \in 2 .. Len(e) : IsKey(e[x], 0) =>
       x - 1 \in 2 .. Len(e) /\ e[x - 1] = [type |-> "ABS", at |-> finger.last]

LEMMA AppendIs ==
  ASSUME NEW S, NEW p \in Seq(S), NEW v \in Seq(S), NEW x \in S,
         Len(v) = Len(p) + 1, v[Len(p) + 1] = x, \A i \in 1 .. Len(p) : v[i] = p[i]
  PROVE  p \o <<x>> = v
<1> DEFINE u == Append(p, x)
<1>1. /\ u \in Seq(S) /\ Len(u) = Len(p) + 1 /\ u[Len(p) + 1] = x
      /\ \A i \in 1 .. Len(p) : u[i] = p[i]
  BY AppendProperties
<1>2. Len(p) \in Nat
  OBVIOUS
<1> HIDE DEF u
<1>3. \A i \in 1 .. Len(v) : u[i] = v[i]
  BY <1>1, <1>2
<1>4. u = v
  BY <1>1, <1>3, SeqEqual
<1> QED  BY <1>4, AppendIsConcat DEF u

LEMMA Tuples ==
  ASSUME NEW a, NEW b, NEW c, NEW d
  PROVE  /\ <<a>> \o <<>> = <<a>> /\ <<a>> \o <<b>> = <<a, b>>
         /\ <<a, b>> \o <<>> = <<a, b>> /\ <<a, b>> \o <<c>> = <<a, b, c>>
         /\ <<a, b, c>> \o <<>> = <<a, b, c>> /\ <<a, b, c>> \o <<d>> = <<a, b, c, d>>
<1> DEFINE S == {a, b, c, d}
<1>1. /\ <<>> \in Seq(S) /\ <<a>> \in Seq(S) /\ <<b>> \in Seq(S) /\ <<c>> \in Seq(S)
      /\ <<d>> \in Seq(S) /\ <<a, b>> \in Seq(S) /\ <<a, b, c>> \in Seq(S)
      /\ <<a, b, c, d>> \in Seq(S) /\ a \in S /\ b \in S /\ c \in S /\ d \in S
  OBVIOUS
<1> HIDE DEF S
<1>2. <<a>> \o <<>> = <<a>> /\ <<a, b>> \o <<>> = <<a, b>> /\ <<a, b, c>> \o <<>> = <<a, b, c>>
  BY <1>1
<1>3. <<a>> \o <<b>> = <<a, b>>
  <2> DEFINE p == <<a>>  v == <<a, b>>
  <2>1. /\ p \in Seq(S) /\ v \in Seq(S) /\ Len(p) = 1 /\ Len(v) = 2
        /\ v[2] = b /\ v[1] = p[1]
    BY <1>1
  <2> HIDE DEF p, v
  <2>2. p \o <<b>> = v
    <3>1. Len(v) = Len(p) + 1 /\ v[Len(p) + 1] = b /\ \A i \in 1 .. Len(p) : v[i] = p[i]
      BY <2>1
    <3>2. p \in Seq(S) /\ v \in Seq(S) /\ b \in S
      BY <1>1, <2>1
    <3> HIDE DEF S
    <3> QED  BY <3>1, <3>2, AppendIs
  <2> QED  BY <2>2 DEF p, v
<1>4. <<a, b>> \o <<c>> = <<a, b, c>>
  <2> DEFINE p == <<a, b>>  v == <<a, b, c>>
  <2>1. /\ p \in Seq(S) /\ v \in Seq(S) /\ Len(p) = 2 /\ Len(v) = 3
        /\ v[3] = c /\ v[1] = p[1] /\ v[2] = p[2]
    BY <1>1
  <2> HIDE DEF p, v
  <2>2. p \o <<c>> = v
    <3>1. Len(v) = Len(p) + 1 /\ v[Len(p) + 1] = c /\ \A i \in 1 .. Len(p) : v[i] = p[i]
      BY <2>1
    <3>2. p \in Seq(S) /\ v \in Seq(S) /\ c \in S
      BY <1>1, <2>1
    <3> HIDE DEF S
    <3> QED  BY <3>1, <3>2, AppendIs
  <2> QED  BY <2>2 DEF p, v
<1>5. <<a, b, c>> \o <<d>> = <<a, b, c, d>>
  <2> DEFINE p == <<a, b, c>>  v == <<a, b, c, d>>
  <2>1. /\ p \in Seq(S) /\ v \in Seq(S) /\ Len(p) = 3 /\ Len(v) = 4
        /\ v[4] = d /\ v[1] = p[1] /\ v[2] = p[2] /\ v[3] = p[3]
    BY <1>1
  <2> HIDE DEF p, v
  <2>2. p \o <<d>> = v
    <3>1. Len(v) = Len(p) + 1 /\ v[Len(p) + 1] = d /\ \A i \in 1 .. Len(p) : v[i] = p[i]
      BY <2>1
    <3>2. p \in Seq(S) /\ v \in Seq(S) /\ d \in S
      BY <1>1, <2>1
    <3> HIDE DEF S
    <3> QED  BY <3>1, <3>2, AppendIs
  <2> QED  BY <2>2 DEF p, v
<1> QED  BY <1>2, <1>3, <1>4, <1>5

LEMMA EventsOfFinger ==
  ASSUME NEW P, NEW W, NEW finger \in FingerIn(P, W), NEW gone \in BOOLEAN
  PROVE  OfFinger(EventsOf(finger, gone), P, finger, gone)
<1> DEFINE F == [type |-> "FINGERID", id |-> finger.id]
           A == [type |-> "ABS", at |-> finger.last]
           K(v) == [type |-> "KEY", value |-> v]
<1>1. /\ finger.id \in Nat /\ finger.last \in P /\ finger.down \in BOOLEAN
  BY DEF FingerIn
<1>2. F \in Entry(P) /\ A \in Entry(P) /\ K(0) \in Entry(P) /\ K(1) \in Entry(P)
  BY <1>1 DEF Entry
<1>3. /\ F.type = "FINGERID" /\ A.type = "ABS"
      /\ IsKey(K(1), 1) /\ ~IsKey(K(1), 0) /\ IsKey(K(0), 0) /\ ~IsKey(K(0), 1)
      /\ ~IsKey(A, 0) /\ ~IsKey(A, 1) /\ K(0).type = "KEY" /\ K(1).type = "KEY"
  BY DEF IsKey
<1>4. EventsOf(finger, gone) = (<<F>> \o (IF finger.down THEN <<>> ELSE <<K(1)>>) \o <<A>>)
                               \o (IF gone THEN <<K(0)>> ELSE <<>>)
  BY Zenon DEF EventsOf
<1> HIDE DEF F, A, K
<1>5. CASE finger.down /\ gone
  <2> DEFINE e == <<F, A, K(0)>>
  <2>1. EventsOf(finger, gone) = e
    <3>1. /\ <<F>> \o <<>> = <<F>>
          /\ <<F>> \o <<A>> = <<F, A>>
          /\ <<F, A>> \o <<K(0)>> = <<F, A, K(0)>>
      BY Tuples
    <3> QED  BY <1>4, <1>5, <3>1, Zenon
  <2>2. e \in Seq(Entry(P)) /\ Len(e) = 3
    BY <1>2
  <2>3. e[1] = F /\ e[2] = A /\ e[3] = K(0)
    OBVIOUS
  <2> HIDE DEF e
  <2>4. OfFinger(e, P, finger, gone)
    BY <1>3, <1>5, <2>2, <2>3 DEF OfFinger, F, A
  <2> QED  BY <2>1, <2>4
<1>6. CASE finger.down /\ ~gone
  <2> DEFINE e == <<F, A>>
  <2>1. EventsOf(finger, gone) = e
    <3>1. /\ <<F>> \o <<>> = <<F>>
          /\ <<F>> \o <<A>> = <<F, A>>
          /\ <<F, A>> \o <<>> = <<F, A>>
      BY Tuples
    <3> QED  BY <1>4, <1>6, <3>1, Zenon
  <2>2. e \in Seq(Entry(P)) /\ Len(e) = 2
    BY <1>2
  <2>3. e[1] = F /\ e[2] = A
    OBVIOUS
  <2> HIDE DEF e
  <2>4. OfFinger(e, P, finger, gone)
    BY <1>3, <1>6, <2>2, <2>3 DEF OfFinger, F, A
  <2> QED  BY <2>1, <2>4
<1>7. CASE ~finger.down /\ gone
  <2> DEFINE e == <<F, K(1), A, K(0)>>
  <2>1. EventsOf(finger, gone) = e
    <3>1. /\ <<F>> \o <<K(1)>> = <<F, K(1)>>
          /\ <<F, K(1)>> \o <<A>> = <<F, K(1), A>>
          /\ <<F, K(1), A>> \o <<K(0)>> = <<F, K(1), A, K(0)>>
      BY Tuples
    <3> QED  BY <1>4, <1>7, <3>1, Zenon
  <2>2. e \in Seq(Entry(P)) /\ Len(e) = 4
    BY <1>2
  <2>3. e[1] = F /\ e[2] = K(1) /\ e[3] = A /\ e[4] = K(0)
    OBVIOUS
  <2> HIDE DEF e
  <2>4. OfFinger(e, P, finger, gone)
    BY <1>3, <1>7, <2>2, <2>3 DEF OfFinger, F, A
  <2> QED  BY <2>1, <2>4
<1>8. CASE ~finger.down /\ ~gone
  <2> DEFINE e == <<F, K(1), A>>
  <2>1. EventsOf(finger, gone) = e
    <3>1. /\ <<F>> \o <<K(1)>> = <<F, K(1)>>
          /\ <<F, K(1)>> \o <<A>> = <<F, K(1), A>>
          /\ <<F, K(1), A>> \o <<>> = <<F, K(1), A>>
      BY Tuples
    <3> QED  BY <1>4, <1>8, <3>1, Zenon
  <2>2. e \in Seq(Entry(P)) /\ Len(e) = 3
    BY <1>2
  <2>3. e[1] = F /\ e[2] = K(1) /\ e[3] = A
    OBVIOUS
  <2> HIDE DEF e
  <2>4. OfFinger(e, P, finger, gone)
    BY <1>3, <1>8, <2>2, <2>3 DEF OfFinger, F, A
  <2> QED  BY <2>1, <2>4
<1> QED  BY <1>1, <1>5, <1>6, <1>7, <1>8

LEMMA FingerAtStretch ==
  ASSUME NEW P, NEW finger, NEW gone, NEW e, OfFinger(e, P, finger, gone),
         NEW s, Len(s) \in Nat, NEW off, Stretch(s, off, e), NEW x \in 1 .. Len(e)
  PROVE  FingerAt(s, off + x) = finger.id
<1> DEFINE heads == {k \in 1 .. off + x : s[k].type = "FINGERID"}
<1>1. /\ off \in Nat /\ Len(e) \in Nat
      /\ \A y \in 1 .. Len(e) : s[off + y] = e[y]
  BY DEF Stretch, OfFinger
<1>2. e[1].type = "FINGERID" /\ e[1].id = finger.id /\ 1 \in 1 .. Len(e)
  BY <1>1 DEF OfFinger
<1>3. \A y \in 2 .. Len(e) : e[y].type # "FINGERID"
  BY DEF OfFinger
<1>4. off + 1 \in heads
  BY <1>1, <1>2
<1>5. heads \subseteq 0 .. off + x /\ heads # {} /\ off + x \in Nat
  <2>1. off + x \in Nat
    BY <1>1
  <2>2. heads \subseteq 1 .. off + x
    OBVIOUS
  <2> HIDE DEF heads
  <2> QED  BY <1>4, <2>1, <2>2
<1> HIDE DEF heads
<1>6. Max(heads) \in heads /\ \A y \in heads : y <= Max(heads)
  BY <1>5, MaxIs
<1>7. Max(heads) = off + 1
  <2> DEFINE h == Max(heads)
  <2>1. h \in heads /\ off + 1 <= h
    BY <1>4, <1>6
  <2> HIDE DEF h
  <2>2. h \in 1 .. off + x /\ s[h].type = "FINGERID"
    BY <2>1 DEF heads
  <2>3. CASE h # off + 1
    <3>1. h - off \in 2 .. Len(e) /\ h - off \in 1 .. Len(e) /\ off + (h - off) = h
      BY <1>1, <2>1, <2>2, <2>3
    <3>2. s[h] = e[h - off]
      BY <1>1, <3>1, Zenon
    <3> QED  BY <1>3, <2>2, <3>1, <3>2
  <2> QED  BY <2>3 DEF h
<1> QED  BY <1>1, <1>2, <1>7, Zenon DEF FingerAt, heads

(* The events of an update: the entries of every finger and then a SYN.    *)
UpdateEvents(fingers, l) ==
  FlattenSeq([i \in DOMAIN fingers |-> EventsOf(fingers[i], l[i])])
  \o (IF fingers = <<>> THEN <<>> ELSE <<SYN>>)

AreEvents(ev, P, fingers, l) ==
  /\ ev \in Seq(Entry(P) \cup {SYN})
  /\ \A k \in 1 .. Len(fingers) : \E off : Stretch(ev, off, EventsOf(fingers[k], l[k]))
  /\ \A i \in 1 .. Len(ev) :
       \/ i = Len(ev) /\ ev[i] = SYN
       \/ \E k \in 1 .. Len(fingers) : \E off :
            /\ Stretch(ev, off, EventsOf(fingers[k], l[k]))
            /\ i - off \in 1 .. Len(EventsOf(fingers[k], l[k]))
  /\ IF fingers = <<>> THEN ev = <<>> ELSE Len(ev) >= 1 /\ ev[Len(ev)] = SYN

LEMMA EventsAre ==
  ASSUME NEW P, NEW W, NEW fingers \in Seq(FingerIn(P, W)),
         NEW l \in [1 .. Len(fingers) -> BOOLEAN]
  PROVE  AreEvents(UpdateEvents(fingers, l), P, fingers, l)
<1> DEFINE n == Len(fingers)
           E == [i \in 1 .. n |-> EventsOf(fingers[i], l[i])]
           s == FlattenSeq(E)
           tail == IF fingers = <<>> THEN <<>> ELSE <<SYN>>
           ev == s \o tail
<1>1. n \in Nat /\ DOMAIN fingers = 1 .. n
  OBVIOUS
<1>2. UpdateEvents(fingers, l) = ev
  BY <1>1, Zenon DEF UpdateEvents
<1>3. ASSUME NEW k \in 1 .. n
      PROVE  OfFinger(EventsOf(fingers[k], l[k]), P, fingers[k], l[k])
  <2>1. fingers[k] \in FingerIn(P, W) /\ l[k] \in BOOLEAN
    OBVIOUS
  <2> QED  BY <2>1, EventsOfFinger
<1>4. E \in Seq(Seq(Entry(P))) /\ Len(E) = n
  <2>1. \A k \in 1 .. n : EventsOf(fingers[k], l[k]) \in Seq(Entry(P))
    BY <1>3 DEF OfFinger
  <2> HIDE DEF n
  <2> QED  BY <1>1, <2>1
<1>5. \A k \in 1 .. n : E[k] = EventsOf(fingers[k], l[k])
  OBVIOUS
<1> HIDE DEF E, n
<1>6. s \in Seq(Entry(P)) /\ Joins(s, E, n)
  BY <1>4, FlattenJoins
<1> HIDE DEF s
<1>7. tail \in Seq({SYN}) /\ Len(tail) \in Nat /\ Len(s) \in Nat
  <2>1. Len(s) \in Nat
    BY <1>6
  <2>2. <<>> \in Seq({SYN}) /\ <<SYN>> \in Seq({SYN})
    OBVIOUS
  <2>3. tail \in Seq({SYN})
    BY <2>2
  <2> HIDE DEF tail
  <2> QED  BY <2>1, <2>3
<1>8. /\ ev \in Seq(Entry(P) \cup {SYN}) /\ Len(ev) = Len(s) + Len(tail)
      /\ \A i \in 1 .. Len(s) : ev[i] = s[i]
  <2>1. s \in Seq(Entry(P) \cup {SYN}) /\ tail \in Seq(Entry(P) \cup {SYN})
    BY <1>6, <1>7
  <2> HIDE DEF tail
  <2> QED  BY <1>7, <2>1
<1>9. ASSUME NEW k \in 1 .. n, NEW off, Stretch(s, off, E[k]) PROVE Stretch(ev, off, E[k])
  <2>1. Len(E[k]) \in Nat
    BY <1>3, <1>5 DEF OfFinger
  <2>2. ASSUME NEW x \in 1 .. Len(E[k]) PROVE ev[off + x] = E[k][x]
    <3>1. off + x \in 1 .. Len(s) /\ s[off + x] = E[k][x]
      BY <1>7, <1>9, <2>1 DEF Stretch
    <3> QED  BY <1>8, <3>1, Zenon
  <2> HIDE DEF ev, tail
  <2> QED  BY <1>7, <1>8, <1>9, <2>1, <2>2 DEF Stretch
<1>10. ASSUME NEW k \in 1 .. n PROVE \E off : Stretch(ev, off, E[k])
  <2>1. PICK off : Stretch(s, off, E[k])
    BY <1>6, Zenon DEF Joins
  <2> QED  BY <1>9, <2>1, Zenon
<1>11. IF fingers = <<>> THEN ev = <<>> ELSE Len(ev) >= 1 /\ ev[Len(ev)] = SYN
  <2>1. CASE fingers = <<>>
    <3>1. n = 0 /\ Len(E) = 0
      BY <1>4, <2>1 DEF n
    <3>2. s = <<>>
      BY <3>1, <1>4 DEF s, FlattenSeq
    <3> QED  BY <2>1, <3>2
  <2>2. CASE fingers # <<>>
    BY <1>6, <1>7, <2>2
  <2> QED  BY <2>1, <2>2
<1>12. ASSUME NEW i \in 1 .. Len(ev)
       PROVE  \/ i = Len(ev) /\ ev[i] = SYN
              \/ \E k \in 1 .. n : \E off : Stretch(ev, off, E[k]) /\ i - off \in 1 .. Len(E[k])
  <2>1. CASE i \in 1 .. Len(s)
    <3>1a. PICK k \in 1 .. n : \E off : Stretch(s, off, E[k]) /\ i - off \in 1 .. Len(E[k])
      BY <1>6, <2>1, Zenon DEF Joins
    <3>1. PICK off : Stretch(s, off, E[k]) /\ i - off \in 1 .. Len(E[k])
      BY <3>1a
    <3> QED  BY <1>9, <3>1, Zenon
  <2>2. CASE i \notin 1 .. Len(s)
    <3>1. IF fingers = <<>> THEN Len(tail) = 0 ELSE Len(tail) = 1
      OBVIOUS
    <3> HIDE DEF tail, ev
    <3>2. i = Len(ev) /\ Len(tail) = 1
      <4>1. Len(tail) \in {0, 1}
        BY <3>1
      <4>2. Len(s) \in Nat /\ Len(ev) = Len(s) + Len(tail)
        BY <1>7, <1>8
      <4>3. i \in Nat /\ 1 <= i /\ i <= Len(ev)
        BY <4>1, <4>2
      <4>4. i > Len(s)
        BY <2>2, <4>2, <4>3
      <4> DEFINE a == Len(s)  b == Len(tail)  c == Len(ev)
      <4>5. b \in {0, 1} /\ a \in Nat /\ c = a + b /\ i \in Nat /\ i <= c /\ i > a
        BY <4>1, <4>2, <4>3, <4>4, Zenon
      <4> HIDE DEF a, b, c
      <4>6. i = c /\ b = 1
        BY <4>5
      <4> QED  BY <4>6 DEF b, c
    <3>3. fingers # <<>>
      BY <3>1, <3>2
    <3> QED  BY <1>11, <3>2, <3>3
  <2> QED  BY <2>1, <2>2
<1> HIDE DEF ev
<1>13. AreEvents(ev, P, fingers, l)
  BY <1>5, <1>8, <1>10, <1>11, <1>12, Zenon DEF AreEvents, n
<1> QED  BY <1>2, <1>13

-----------------------------------------------------------------------------
(* The trackers an update starts from.                                     *)
GoodTracker(t, P, W) ==
  /\ t \in [live : Seq(FingerIn(P, W)), pool : Nat, nextId : Nat]
  /\ \A f \in DOMAIN t.live : t.live[f].id < t.nextId /\ t.live[f].down
  /\ \A f, g \in DOMAIN t.live : t.live[f].id = t.live[g].id => f = g

(* The fingers of an update in their order, those that are lost, and the   *)
(* places of the others.                                                   *)
NewOnes(t, cs) == NewFingers(t, NewContacts(t.live, cs, Matching(t.live, cs)))
OldOnes(t, cs) == Refreshed(t.live, cs, Matching(t.live, cs))
Fingers(t, cs) == NewOnes(t, cs) \o OldOnes(t, cs)

Lost(t, cs) ==
  [i \in 1 .. Len(Fingers(t, cs)) |->
     /\ i > Len(NewOnes(t, cs))
     /\ Matching(t.live, cs)[i - Len(NewOnes(t, cs))].contact = NoContact]

Places(l, n) == Ascending({i \in 1 .. n : ~l[i]}, n)

(* What an update does with them.                                          *)
Update(r, t, P, W, fingers, n, l) ==
  /\ fingers \in Seq(FingerIn(P, W)) /\ n \in Nat /\ n <= t.pool
  /\ Len(fingers) = n + Len(t.live)
  /\ l \in [1 .. Len(fingers) -> BOOLEAN]
  /\ \A i \in 1 .. n : ~fingers[i].down /\ ~l[i] /\ fingers[i].id = t.nextId + n - i
  /\ \A i \in 1 .. Len(t.live) :
       fingers[n + i].down /\ fingers[n + i].id = t.live[i].id
  /\ r.tracker =
       [live   |-> [k \in 1 .. Len(Places(l, Len(fingers))) |->
                      [fingers[Places(l, Len(fingers))[k]] EXCEPT !.down = TRUE]],
        pool   |-> t.pool - n + (Len(fingers) - Len(Places(l, Len(fingers)))),
        nextId |-> t.nextId + n]
  /\ r.events = UpdateEvents(fingers, l)

LEMMA TrackUpdates ==
  ASSUME NEW P, P \subseteq Point, NEW W, W \subseteq Nat,
         NEW t, GoodTracker(t, P, W), NEW cs \in Seq(ContactIn(P, W))
  PROVE  Update(Track(t, cs), t, P, W, Fingers(t, cs), Len(NewOnes(t, cs)), Lost(t, cs))
<1> DEFINE m  == Matching(t.live, cs)
           nf == NewOnes(t, cs)
           rf == OldOnes(t, cs)
           fs == Fingers(t, cs)
           n  == Len(nf)
           l  == Lost(t, cs)
           N  == Len(fs)
<1>1. /\ t.live \in Seq(FingerIn(P, W)) /\ t.pool \in Nat /\ t.nextId \in Nat
      /\ Len(t.live) \in Nat /\ DOMAIN t.live = 1 .. Len(t.live)
      /\ \A f \in 1 .. Len(t.live) : t.live[f].down
  BY DEF GoodTracker
<1>2. IsMatching(m, t.live, Len(cs))
  BY <1>1, MatchingMatches
<1>3. NewContacts(t.live, cs, m) \in Seq(ContactIn(P, W))
  BY NewContactsType, Zenon
<1> DEFINE new == NewContacts(t.live, cs, m)
<1>4. nf = NewFingers(t, new) /\ rf = Refreshed(t.live, cs, m)
  BY DEF NewOnes, OldOnes
<1>5. new \in Seq(ContactIn(P, W)) /\ Len(new) \in Nat
  BY <1>3
<1> HIDE DEF m, new, nf, rf
<1>6. /\ n \in Nat /\ n <= t.pool /\ nf \in Seq(FingerIn(P, W))
      /\ \A i \in 1 .. n : /\ n - i + 1 \in 1 .. n
                          /\ nf[i] = NewFinger(t, new, n - i + 1)
  <2>1. AreNew(nf, t, new, P, W)
    BY <1>1, <1>4, <1>5, NewFingersAre, Zenon
  <2> QED  BY <2>1, Zenon DEF AreNew
<1>7. /\ rf \in Seq(FingerIn(P, W)) /\ Len(rf) = Len(t.live)
      /\ \A f \in 1 .. Len(t.live) : rf[f].id = t.live[f].id /\ rf[f].down = t.live[f].down
  <2>1. AreOld(rf, t.live, P, W)
    BY <1>1, <1>2, <1>4, RefreshedAre, Zenon
  <2> QED  BY <2>1, Zenon DEF AreOld
<1>8. fs = nf \o rf
  BY DEF Fingers, nf, rf
<1>10. /\ fs \in Seq(FingerIn(P, W)) /\ N = n + Len(t.live)
       /\ \A i \in 1 .. n : fs[i] = nf[i]
       /\ \A i \in 1 .. Len(t.live) : fs[n + i] = rf[i]
  <2>1. nf \in Seq(FingerIn(P, W)) /\ rf \in Seq(FingerIn(P, W)) /\ Len(rf) = Len(t.live)
    BY <1>6, <1>7
  <2>2. /\ nf \o rf \in Seq(FingerIn(P, W)) /\ Len(nf \o rf) = Len(nf) + Len(rf)
        /\ \A i \in 1 .. Len(nf) : (nf \o rf)[i] = nf[i]
        /\ \A i \in 1 .. Len(rf) : (nf \o rf)[Len(nf) + i] = rf[i]
    BY <2>1
  <2> HIDE DEF fs
  <2> QED  BY <1>8, <2>1, <2>2, Zenon
<1>11. N \in Nat /\ DOMAIN fs = 1 .. N
  BY <1>1, <1>6, <1>10
<1>12. l = [i \in 1 .. N |-> i > n /\ m[i - n].contact = NoContact]
  BY Zenon DEF Lost, m, nf
<1> HIDE DEF fs, l, N, n
<1>13. l \in [1 .. N -> BOOLEAN]
  BY <1>12
<1>14. ASSUME NEW i \in 1 .. n
       PROVE  ~fs[i].down /\ ~l[i] /\ fs[i].id = t.nextId + n - i
  <2>1. fs[i].id = t.nextId + (n - i + 1) - 1 /\ fs[i].down = FALSE
    <3>1. fs[i] = NewFinger(t, new, n - i + 1)
      BY <1>6, <1>10, Zenon
    <3> QED  BY <3>1 DEF NewFinger
  <2>2. i \in 1 .. N /\ ~(i > n)
    BY <1>1, <1>6, <1>10
  <2>3. t.nextId + (n - i + 1) - 1 = t.nextId + n - i
    BY <1>1, <1>6
  <2> QED  BY <1>12, <2>1, <2>2, <2>3, Zenon
<1>15. \A i \in 1 .. Len(t.live) : fs[n + i].down /\ fs[n + i].id = t.live[i].id
  BY <1>1, <1>7, <1>10, Zenon
<1>16. Track(t, cs) = Updated(t, nf, rf, m)
  BY <1>4, Zenon DEF Track, Matched, m, new
<1> DEFINE kept == Places(l, N)
           r    == Updated(t, nf, rf, m)
<1>17. \A i \in 1 .. N : l[i] <=> i > n /\ m[i - n].contact = NoContact
  BY <1>12
<1>18. {i \in DOMAIN (nf \o rf) : ~(i > Len(nf) /\ m[i - Len(nf)].contact = NoContact)}
         = {i \in 1 .. N : ~l[i]}
  BY <1>8, <1>11, <1>17, Zenon DEF n
<1>19. kept = Ascending({i \in DOMAIN (nf \o rf) :
                 ~(i > Len(nf) /\ m[i - Len(nf)].contact = NoContact)}, Len(nf \o rf))
  BY <1>8, <1>18, Zenon DEF Places, N
<1>20. kept \in Seq(Nat) /\ DOMAIN kept = 1 .. Len(kept)
  <2>1. Lists(kept, {i \in 1 .. N : ~l[i]}, N)
    BY <1>11, AscendingLists, Zenon DEF Places
  <2> QED  BY <2>1 DEF Lists
<1> HIDE DEF kept
<1>21. r.tracker = [live |-> [k \in DOMAIN kept |-> [fs[kept[k]] EXCEPT !.down = TRUE]],
                    pool |-> t.pool - n + (N - Len(kept)), nextId |-> t.nextId + n]
  BY <1>8, <1>19 DEF Updated, n, N
<1>22. [i \in DOMAIN (nf \o rf) |->
          EventsOf((nf \o rf)[i], i > Len(nf) /\ m[i - Len(nf)].contact = NoContact)]
         = [i \in DOMAIN fs |-> EventsOf(fs[i], l[i])]
  <2>1. \A i \in DOMAIN fs : l[i] = (i > Len(nf) /\ m[i - Len(nf)].contact = NoContact)
    BY <1>11, <1>12, Zenon DEF n
  <2> QED  BY <1>8, <2>1, Zenon
<1>23. r.events = UpdateEvents(fs, l)
  <2>1. r.events = FlattenSeq([i \in DOMAIN (nf \o rf) |->
          EventsOf((nf \o rf)[i], i > Len(nf) /\ m[i - Len(nf)].contact = NoContact)])
          \o (IF nf \o rf = <<>> THEN <<>> ELSE <<SYN>>)
    BY DEF Updated
  <2> QED  BY <1>8, <1>22, <2>1, Zenon DEF UpdateEvents
<1> HIDE DEF r
<1>24. Update(r, t, P, W, fs, n, l)
  BY <1>6, <1>10, <1>13, <1>14, <1>15, <1>20, <1>21, <1>23, Zenon DEF Update, kept, N
<1> QED  BY <1>16, <1>24 DEF r, fs, n, l, nf

(* Counting: as many as an injection has arguments, as many as a set has   *)
(* places in a list without repetitions.                                   *)
LEMMA AtMost ==
  ASSUME NEW a \in Nat, NEW b \in Nat, NEW f \in [1 .. a -> 1 .. b],
         \A i, j \in 1 .. a : f[i] = f[j] => i = j
  PROVE  a <= b
<1>1. f \in Injection(1 .. a, 1 .. b)
  BY DEF Injection, IsInjective
<1>2. /\ IsFiniteSet(1 .. a) /\ Cardinality(1 .. a) = a
      /\ IsFiniteSet(1 .. b) /\ Cardinality(1 .. b) = b
  BY FS_Interval
<1>3. Cardinality(1 .. a) <= Cardinality(1 .. b)
  BY <1>1, <1>2, FS_Injection
<1> QED  BY <1>2, <1>3

LEMMA ListsAtMost ==
  ASSUME NEW n \in Nat, NEW S, NEW q, Lists(q, S, n)
  PROVE  Len(q) \in Nat /\ Len(q) <= n
<1>1. Len(q) \in Nat /\ q \in [1 .. Len(q) -> 1 .. n]
  BY DEF Lists
<1>2. \A i, j \in 1 .. Len(q) : q[i] = q[j] => i = j
  BY DEF Lists
<1> QED  BY <1>1, <1>2, AtMost

LEMMA IdsCount ==
  ASSUME NEW P, NEW W, NEW t, GoodTracker(t, P, W)
  PROVE  Cardinality(Ids(t.live)) = Len(t.live)
<1>1. t.live \in Seq(FingerIn(P, W)) /\ Len(t.live) \in Nat /\ DOMAIN t.live = 1 .. Len(t.live)
  BY DEF GoodTracker
<1> DEFINE f == [i \in 1 .. Len(t.live) |-> t.live[i].id]
<1>2. f \in Surjection(1 .. Len(t.live), Ids(t.live))
  BY <1>1 DEF Surjection, Ids
<1>3. f \in Injection(1 .. Len(t.live), Ids(t.live))
  BY <1>1 DEF Injection, IsInjective, Ids, GoodTracker
<1>4. ExistsBijection(1 .. Len(t.live), Ids(t.live))
  BY <1>2, <1>3 DEF ExistsBijection, Bijection
<1> QED  BY <1>1, <1>4, FS_CountingElements

-----------------------------------------------------------------------------
(* The facts of an update.                                                 *)
LEMMA PlacesAre ==
  ASSUME NEW n \in Nat, NEW l
  PROVE  /\ Lists(Places(l, n), {i \in 1 .. n : ~l[i]}, n)
         /\ Len(Places(l, n)) \in 0 .. n
         /\ \A k \in 1 .. Len(Places(l, n)) : Places(l, n)[k] \in 1 .. n /\ ~l[Places(l, n)[k]]
<1>1. Lists(Places(l, n), {i \in 1 .. n : ~l[i]}, n)
  BY AscendingLists DEF Places
<1> HIDE DEF Places
<1>2. Len(Places(l, n)) \in 0 .. n
  BY <1>1, ListsAtMost
<1> QED  BY <1>1, <1>2 DEF Lists

LEMMA UpdateIds ==
  ASSUME NEW P, NEW W, NEW t, GoodTracker(t, P, W),
         NEW r, NEW fs, NEW n, NEW l, Update(r, t, P, W, fs, n, l)
  PROVE  /\ Len(fs) \in Nat /\ Len(fs) = n + Len(t.live) /\ n \in Nat /\ Len(t.live) \in Nat
         /\ \A i \in 1 .. Len(fs) : fs[i].id < t.nextId + n /\ (~fs[i].down <=> i \in 1 .. n)
         /\ \A i, j \in 1 .. Len(fs) : fs[i].id = fs[j].id => i = j
         /\ {fs[i].id : i \in {j \in 1 .. Len(fs) : ~fs[j].down}} = t.nextId .. t.nextId + n - 1
         /\ {fs[i].id : i \in 1 .. Len(fs)} = Ids(t.live) \cup (t.nextId .. t.nextId + n - 1)
<1>1. /\ t.live \in Seq(FingerIn(P, W)) /\ t.pool \in Nat /\ t.nextId \in Nat
      /\ Len(t.live) \in Nat /\ DOMAIN t.live = 1 .. Len(t.live)
      /\ \A f \in 1 .. Len(t.live) : t.live[f].id \in Nat /\ t.live[f].id < t.nextId
      /\ \A f, g \in 1 .. Len(t.live) : t.live[f].id = t.live[g].id => f = g
  <2>1. /\ t.live \in Seq(FingerIn(P, W)) /\ t.pool \in Nat /\ t.nextId \in Nat
    BY DEF GoodTracker
  <2>2. Len(t.live) \in Nat /\ DOMAIN t.live = 1 .. Len(t.live)
    BY <2>1
  <2> QED  BY <2>1, <2>2, FingerFields DEF GoodTracker
<1>2. /\ n \in Nat /\ Len(fs) = n + Len(t.live)
      /\ \A i \in 1 .. n : ~fs[i].down /\ fs[i].id = t.nextId + n - i
      /\ \A i \in 1 .. Len(t.live) : fs[n + i].down /\ fs[n + i].id = t.live[i].id
  BY Zenon DEF Update
<1> DEFINE L == Len(t.live)  N == Len(fs)
<1>3. \A i \in 1 .. N : i \in 1 .. n \/ (i > n /\ i - n \in 1 .. L /\ n + (i - n) = i)
  BY <1>1, <1>2
<1>4. ASSUME NEW i \in 1 .. N, i > n
      PROVE  /\ i - n \in 1 .. L /\ fs[i].down /\ fs[i].id = t.live[i - n].id
             /\ fs[i].id \in Nat /\ fs[i].id < t.nextId
  <2>1. i - n \in 1 .. L /\ n + (i - n) = i
    BY <1>1, <1>2, <1>4
  <2>2. fs[n + (i - n)].down /\ fs[n + (i - n)].id = t.live[i - n].id
    BY <1>2, <2>1, Zenon
  <2> QED  BY <1>1, <2>1, <2>2
<1>5. \A i \in 1 .. n : /\ i \in 1 .. N /\ ~fs[i].down /\ fs[i].id = t.nextId + n - i
                       /\ fs[i].id \in t.nextId .. t.nextId + n - 1
  BY <1>1, <1>2
<1> HIDE DEF N, L
<1>6. N \in Nat /\ N = n + L /\ L \in Nat
  BY <1>1, <1>2 DEF N, L
<1>7. \A i \in 1 .. N : fs[i].id < t.nextId + n /\ (~fs[i].down <=> i \in 1 .. n)
  BY <1>1, <1>2, <1>3, <1>4, <1>5
<1>8. ASSUME NEW i \in 1 .. N, NEW j \in 1 .. N, fs[i].id = fs[j].id PROVE i = j
  <2>1. CASE i \in 1 .. n /\ j \in 1 .. n
    BY <1>1, <1>2, <1>5, <1>8, <2>1
  <2>2. CASE i > n /\ j > n
    <3>1. i - n = j - n
      BY <1>1, <1>4, <1>8, <2>2 DEF L
    <3> QED  BY <3>1, <1>2
  <2>3. CASE ~(i > n <=> j > n)
    BY <1>1, <1>3, <1>4, <1>5, <1>8, <2>3
  <2> QED  BY <1>3, <2>1, <2>2, <2>3
<1>9. ASSUME NEW x \in t.nextId .. t.nextId + n - 1
      PROVE  \E i \in 1 .. n : fs[i].id = x
  <2>1. t.nextId + n - x \in 1 .. n /\ t.nextId + n - (t.nextId + n - x) = x
    BY <1>1, <1>2
  <2> QED  BY <1>5, <2>1
<1>10. {fs[i].id : i \in {j \in 1 .. N : ~fs[j].down}} = t.nextId .. t.nextId + n - 1
  BY <1>5, <1>7, <1>9
<1>11. {fs[i].id : i \in 1 .. N} = Ids(t.live) \cup (t.nextId .. t.nextId + n - 1)
  <2>1. \A i \in 1 .. N : fs[i].id \in Ids(t.live) \cup (t.nextId .. t.nextId + n - 1)
    BY <1>1, <1>3, <1>4, <1>5 DEF Ids, L
  <2>2. \A x \in Ids(t.live) : \E i \in 1 .. N : fs[i].id = x
    <3>1. \A i \in 1 .. L : n + i \in 1 .. N
      BY <1>2, <1>6
    <3>2. \A f \in 1 .. L : fs[n + f].id = t.live[f].id
      BY <1>2, Zenon DEF L
    <3>3. Ids(t.live) = {t.live[f].id : f \in 1 .. L}
      BY <1>1, Zenon DEF Ids, L
    <3> QED  BY <3>1, <3>2, <3>3
  <2>3. \A x \in t.nextId .. t.nextId + n - 1 : \E i \in 1 .. N : fs[i].id = x
    BY <1>5, <1>9, Zenon
  <2> QED  BY <2>1, <2>2, <2>3
<1> QED  BY <1>2, <1>6, <1>7, <1>8, <1>10, <1>11 DEF N, L

(* After an update the tracker is as before, its list holding the fingers  *)
(* that are not lost; no buffer is gained or lost.                         *)
LEMMA UpdateKeeps ==
  ASSUME NEW P, NEW W, NEW t, GoodTracker(t, P, W),
         NEW r, NEW fs, NEW n, NEW l, Update(r, t, P, W, fs, n, l)
  PROVE  /\ GoodTracker(r.tracker, P, W)
         /\ r.tracker.pool + Len(r.tracker.live) = t.pool + Len(t.live)
         /\ r.tracker.nextId = t.nextId + n
         /\ Ids(r.tracker.live) = {fs[i].id : i \in {j \in 1 .. Len(fs) : ~l[j]}}
         /\ Len(r.tracker.live) = Len(Places(l, Len(fs)))
         /\ \A k \in 1 .. Len(r.tracker.live) :
              r.tracker.live[k] = [fs[Places(l, Len(fs))[k]] EXCEPT !.down = TRUE]
<1> DEFINE N == Len(fs)  q == Places(l, N)  K == Len(q)
           live == [k \in 1 .. K |-> [fs[q[k]] EXCEPT !.down = TRUE]]
<1>1. /\ fs \in Seq(FingerIn(P, W)) /\ n \in Nat /\ n <= t.pool
      /\ r.tracker = [live |-> live, pool |-> t.pool - n + (N - K), nextId |-> t.nextId + n]
  BY Zenon DEF Update
<1>2. t.pool \in Nat /\ t.nextId \in Nat
  BY DEF GoodTracker
<1>3. /\ N \in Nat /\ N = n + Len(t.live) /\ Len(t.live) \in Nat
      /\ \A i \in 1 .. N : fs[i].id < t.nextId + n
      /\ \A i, j \in 1 .. N : fs[i].id = fs[j].id => i = j
  BY UpdateIds
<1>4. Lists(q, {i \in 1 .. N : ~l[i]}, N) /\ K \in 0 .. N
      /\ \A k \in 1 .. K : q[k] \in 1 .. N /\ ~l[q[k]]
  BY <1>3, PlacesAre
<1> HIDE DEF q, K, N
<1>5. ASSUME NEW k \in 1 .. K
      PROVE  live[k] \in FingerIn(P, W) /\ live[k].id = fs[q[k]].id /\ live[k].down
  <2>1. fs[q[k]] \in FingerIn(P, W)
    BY <1>1, <1>4 DEF N
  <2>2. /\ [fs[q[k]] EXCEPT !.down = TRUE] \in FingerIn(P, W)
        /\ [fs[q[k]] EXCEPT !.down = TRUE].id = fs[q[k]].id
        /\ [fs[q[k]] EXCEPT !.down = TRUE].down
    BY <2>1 DEF FingerIn
  <2> QED  BY <2>2
<1>6. live = [k \in 1 .. K |-> live[k]] /\ DOMAIN live = 1 .. K
  OBVIOUS
<1>7. \A k \in 1 .. K : live[k] = [fs[q[k]] EXCEPT !.down = TRUE]
  OBVIOUS
<1> HIDE DEF live
<1>8. live \in Seq(FingerIn(P, W)) /\ Len(live) = K /\ K \in Nat
  BY <1>4, <1>5, <1>6
<1>9. \A j, k \in 1 .. K : live[j].id = live[k].id => j = k
  <2>1. \A j, k \in 1 .. K : q[j] = q[k] => j = k
    BY <1>4, Zenon DEF Lists, K
  <2>2. ASSUME NEW j \in 1 .. K, NEW k \in 1 .. K, live[j].id = live[k].id PROVE q[j] = q[k]
    BY <1>3, <1>4, <1>5, <2>2
  <2> QED  BY <2>1, <2>2, Zenon
<1>10. r.tracker.live = live /\ r.tracker.pool = t.pool - n + (N - K)
       /\ r.tracker.nextId = t.nextId + n
  BY <1>1
<1>11. r.tracker.pool \in Nat /\ r.tracker.nextId \in Nat
  <2> DEFINE pool == t.pool  next == t.nextId
  <2>1. pool \in Nat /\ next \in Nat /\ n \in Nat /\ n <= pool /\ N \in Nat /\ K \in 0 .. N
    BY <1>1, <1>2, <1>3, <1>4
  <2> HIDE DEF pool, next
  <2>2. pool - n + (N - K) \in Nat /\ next + n \in Nat
    BY <2>1
  <2> QED  BY <1>10, <2>2 DEF pool, next
<1>12. r.tracker \in [live : Seq(FingerIn(P, W)), pool : Nat, nextId : Nat]
  BY <1>1, <1>8, <1>10, <1>11
<1>13. GoodTracker(r.tracker, P, W)
  <2>1. \A k \in 1 .. K : live[k].id < t.nextId + n
    BY <1>3, <1>4, <1>5
  <2> QED  BY <1>5, <1>6, <1>9, <1>10, <1>12, <2>1 DEF GoodTracker
<1>14. r.tracker.pool + Len(r.tracker.live) = t.pool + Len(t.live)
  BY <1>1, <1>2, <1>3, <1>8, <1>10
<1>15. Ids(r.tracker.live) = {fs[i].id : i \in {j \in 1 .. N : ~l[j]}}
  <2>1. Ids(live) = {fs[q[k]].id : k \in 1 .. K}
    BY <1>5, <1>6 DEF Ids
  <2>2. \A i \in {j \in 1 .. N : ~l[j]} : \E k \in 1 .. K : q[k] = i
    BY <1>4 DEF Lists, K
  <2>3. \A k \in 1 .. K : q[k] \in {j \in 1 .. N : ~l[j]}
    BY <1>4
  <2> QED  BY <1>10, <2>1, <2>2, <2>3
<1> QED  BY <1>7, <1>8, <1>10, <1>13, <1>14, <1>15, Zenon DEF N, q, K

(* The reader of an update's events learns which fingers are in the list.  *)
LEMMA UpdateTells ==
  ASSUME NEW P, NEW W, NEW t, GoodTracker(t, P, W),
         NEW r, NEW fs, NEW n, NEW l, Update(r, t, P, W, fs, n, l)
  PROVE  /\ AreEvents(r.events, P, fs, l)
         /\ KeyIds(r.events, 1) = t.nextId .. t.nextId + n - 1
         /\ KeyIds(r.events, 0) = {fs[i].id : i \in {j \in 1 .. Len(fs) : l[j]}}
         /\ Told(Ids(t.live), r.events) = Ids(r.tracker.live)
<1> DEFINE N == Len(fs)  ev == r.events
           E(k) == EventsOf(fs[k], l[k])
<1>1. /\ fs \in Seq(FingerIn(P, W)) /\ l \in [1 .. N -> BOOLEAN]
      /\ r.events = UpdateEvents(fs, l)
  BY Zenon DEF Update
<1>2. AreEvents(ev, P, fs, l)
  BY <1>1, EventsAre
<1>3. ASSUME NEW k \in 1 .. N
      PROVE  OfFinger(E(k), P, fs[k], l[k]) /\ Len(E(k)) \in Nat
  <2>1. fs[k] \in FingerIn(P, W) /\ l[k] \in BOOLEAN
    BY <1>1
  <2>2. OfFinger(E(k), P, fs[k], l[k])
    BY <2>1, EventsOfFinger
  <2> QED  BY <2>2 DEF OfFinger
<1>4. Len(ev) \in Nat /\ DOMAIN ev = 1 .. Len(ev)
  BY <1>2 DEF AreEvents
<1> HIDE DEF E, N, ev
<1>5. ASSUME NEW v \in {0, 1}
      PROVE  KeyIds(ev, v)
             = {fs[k].id : k \in {j \in 1 .. N : \E x \in 2 .. Len(E(j)) : IsKey(E(j)[x], v)}}
  <2>1. ASSUME NEW i \in DOMAIN ev, IsKey(ev[i], v)
        PROVE  \E k \in 1 .. N : /\ \E x \in 2 .. Len(E(k)) : IsKey(E(k)[x], v)
                                 /\ FingerAt(ev, i) = fs[k].id
    <3>1. ev[i] # SYN
      BY <2>1 DEF IsKey, SYN
    <3>2a. PICK k \in 1 .. N : \E off : Stretch(ev, off, E(k)) /\ i - off \in 1 .. Len(E(k))
      BY <1>2, <1>4, <3>1, Zenon DEF AreEvents, E, N
    <3>2. PICK off : Stretch(ev, off, E(k)) /\ i - off \in 1 .. Len(E(k))
      BY <3>2a
    <3> DEFINE x == i - off
    <3>3. x \in 1 .. Len(E(k)) /\ off \in Nat /\ off + x = i
      BY <1>4, <3>2 DEF Stretch
    <3> HIDE DEF x
    <3>4. ev[i] = E(k)[x]
      BY <3>2, <3>3 DEF Stretch
    <3>5. FingerAt(ev, i) = fs[k].id
      BY <1>3, <1>4, <3>2, <3>3, FingerAtStretch
    <3>6. x # 1
      <4>1. E(k)[1].type = "FINGERID"
        <5>1. E(k)[1] = [type |-> "FINGERID", id |-> fs[k].id]
          BY <1>3, Zenon DEF OfFinger
        <5> QED  BY <5>1
      <4> QED  BY <2>1, <3>4, <4>1 DEF IsKey
    <3>7. x \in 2 .. Len(E(k))
      BY <1>3, <3>3, <3>6
    <3> QED  BY <2>1, <3>4, <3>5, <3>7
  <2>2. ASSUME NEW k \in 1 .. N, NEW x \in 2 .. Len(E(k)), IsKey(E(k)[x], v)
        PROVE  \E i \in DOMAIN ev : IsKey(ev[i], v) /\ FingerAt(ev, i) = fs[k].id
    <3>1. PICK off : Stretch(ev, off, E(k))
      BY <1>2, Zenon DEF AreEvents, E, N
    <3>2. /\ x \in 1 .. Len(E(k)) /\ off \in Nat /\ off + x \in 1 .. Len(ev)
          /\ ev[off + x] = E(k)[x]
      BY <1>3, <1>4, <3>1 DEF Stretch
    <3>3. FingerAt(ev, off + x) = fs[k].id
      BY <1>3, <1>4, <3>1, <3>2, FingerAtStretch
    <3> QED  BY <1>4, <2>2, <3>2, <3>3
  <2>3. KeyIds(ev, v) = {FingerAt(ev, i) : i \in {j \in DOMAIN ev : IsKey(ev[j], v)}}
    BY Zenon DEF KeyIds, IsKey
  <2> QED  BY <2>1, <2>2, <2>3
<1>6. \A k \in 1 .. N : /\ ~fs[k].down <=> \E x \in 2 .. Len(E(k)) : IsKey(E(k)[x], 1)
                        /\ l[k] <=> \E x \in 2 .. Len(E(k)) : IsKey(E(k)[x], 0)
  BY <1>3, Zenon DEF OfFinger
<1>7. KeyIds(ev, 1) = {fs[k].id : k \in {j \in 1 .. N : ~fs[j].down}}
  BY <1>5, <1>6
<1>8. KeyIds(ev, 0) = {fs[k].id : k \in {j \in 1 .. N : l[j]}}
  BY <1>5, <1>6
<1>9. /\ \A i, j \in 1 .. N : fs[i].id = fs[j].id => i = j
      /\ {fs[i].id : i \in {j \in 1 .. N : ~fs[j].down}} = t.nextId .. t.nextId + n - 1
      /\ {fs[i].id : i \in 1 .. N} = Ids(t.live) \cup (t.nextId .. t.nextId + n - 1)
  <2>1. \A i, j \in 1 .. Len(fs) : fs[i].id = fs[j].id => i = j
    BY UpdateIds
  <2>2. {fs[i].id : i \in {j \in 1 .. Len(fs) : ~fs[j].down}} = t.nextId .. t.nextId + n - 1
    BY UpdateIds
  <2>3. {fs[i].id : i \in 1 .. Len(fs)} = Ids(t.live) \cup (t.nextId .. t.nextId + n - 1)
    BY UpdateIds
  <2> QED  BY <2>1, <2>2, <2>3, Zenon DEF N
<1>10. Ids(r.tracker.live) = {fs[i].id : i \in {j \in 1 .. N : ~l[j]}}
  BY UpdateKeeps DEF N
<1>11. Told(Ids(t.live), ev) = Ids(r.tracker.live)
  <2>1. Told(Ids(t.live), ev) = {fs[i].id : i \in 1 .. N} \ {fs[k].id : k \in {j \in 1 .. N : l[j]}}
    BY <1>7, <1>8, <1>9, Zenon DEF Told
  <2>2. {fs[i].id : i \in 1 .. N} \ {fs[k].id : k \in {j \in 1 .. N : l[j]}}
        = {fs[i].id : i \in {j \in 1 .. N : ~l[j]}}
    BY <1>9
  <2> QED  BY <1>10, <2>1, <2>2
<1> QED  BY <1>2, <1>7, <1>8, <1>9, <1>11, Zenon DEF N, ev

(* Every finger in the list after an update has a contact of its own.      *)
LEMMA TrackCounts ==
  ASSUME NEW P, P \subseteq Point, NEW W, W \subseteq Nat,
         NEW t, GoodTracker(t, P, W), NEW cs \in Seq(ContactIn(P, W))
  PROVE  /\ Len(NewOnes(t, cs)) <= Len(cs)
         /\ Len(Track(t, cs).tracker.live) <= Len(cs)
<1> DEFINE m  == Matching(t.live, cs)
           nf == NewOnes(t, cs)
           n  == Len(nf)
           fs == Fingers(t, cs)
           l  == Lost(t, cs)
           N  == Len(fs)
           q  == Places(l, N)
           K  == Len(q)
           C  == Len(cs)
           free == Unmatched(t.live, cs, m)
<1>1. Update(Track(t, cs), t, P, W, fs, n, l)
  BY TrackUpdates
<1>2. /\ n \in Nat /\ N = n + Len(t.live) /\ N \in Nat /\ Len(t.live) \in Nat
      /\ DOMAIN t.live = 1 .. Len(t.live) /\ C \in Nat /\ t.live \in Seq(FingerIn(P, W))
  <2>1. t.live \in Seq(FingerIn(P, W))
    BY DEF GoodTracker
  <2>2. n \in Nat /\ N = n + Len(t.live) /\ Len(t.live) \in Nat /\ N \in Nat
    BY <1>1, UpdateIds
  <2> QED  BY <2>1, <2>2
<1>3. Len(Track(t, cs).tracker.live) = K
  BY <1>1, UpdateKeeps
<1>4. IsMatching(m, t.live, C)
  BY <1>2, MatchingMatches
<1>0. PICK order : NewOrder(order, t.live, cs, m)
  BY NewContactsAre
<1>5. /\ Lists(order, free, C)
      /\ NewContacts(t.live, cs, m) = [k \in 1 .. Len(order) |-> cs[order[k]]]
  BY <1>0, Zenon DEF NewOrder
<1>6. Len(order) \in Nat /\ Len(order) <= C
  BY <1>2, <1>5, ListsAtMost
<1>7. n <= Len(order)
  <2> DEFINE new == NewContacts(t.live, cs, m)
  <2>1. new \in Seq(ContactIn(P, W)) /\ t.pool \in Nat /\ t.nextId \in Nat
    BY NewContactsType, Zenon DEF GoodTracker
  <2>2. nf = NewFingers(t, new)
    BY DEF NewOnes
  <2>3. Len(new) = Len(order)
    BY <1>5, <1>6
  <2> HIDE DEF new, nf
  <2>4. AreNew(nf, t, new, P, W)
    BY <2>1, <2>2, NewFingersAre
  <2> QED  BY <2>3, <2>4 DEF AreNew
<1>8. /\ K \in 0 .. N
      /\ \A k \in 1 .. K : q[k] \in 1 .. N /\ ~l[q[k]]
      /\ \A j, k \in 1 .. K : q[j] = q[k] => j = k
  <2>1. Lists(q, {i \in 1 .. N : ~l[i]}, N)
    BY <1>2, PlacesAre
  <2>2. \A j, k \in 1 .. K : q[j] = q[k] => j = k
    BY <2>1, Zenon DEF Lists
  <2> QED  BY <1>2, <2>2, PlacesAre
<1>9. \A i \in 1 .. N : l[i] = (i > n /\ m[i - n].contact = NoContact)
  BY Zenon DEF Lost
<1> HIDE DEF m, nf, n, fs, l, N, q, K, C, free
<1>10. \A k \in 1 .. Len(order) : order[k] \in free /\ order[k] \in 1 .. C
  BY <1>5 DEF Lists
<1>11. \A j, k \in 1 .. Len(order) : order[j] = order[k] => j = k
  BY <1>5 DEF Lists
<1>12. ASSUME NEW j \in free, NEW f \in 1 .. Len(t.live) PROVE m[f].contact # j
  BY <1>2, Zenon DEF free, Unmatched
<1> DEFINE new(k) == n - q[k] + 1
           old(k) == m[q[k] - n].contact
<1>13. ASSUME NEW k \in 1 .. K, q[k] <= n PROVE new(k) \in 1 .. Len(order)
  BY <1>2, <1>6, <1>7, <1>8, <1>13
<1>14. ASSUME NEW k \in 1 .. K, ~(q[k] <= n)
       PROVE  /\ q[k] - n \in 1 .. Len(t.live) /\ old(k) \in 1 .. C /\ old(k) # NoContact
              /\ old(k) \notin free
  <2>1. q[k] - n \in 1 .. Len(t.live) /\ q[k] \in 1 .. N /\ q[k] > n
    BY <1>2, <1>8, <1>14
  <2>2. old(k) # NoContact
    BY <1>8, <1>9, <2>1, Zenon
  <2>3. old(k) \in 0 .. C
    BY <1>2, <1>4, <2>1 DEF IsMatching
  <2> QED  BY <1>2, <1>12, <2>1, <2>2, <2>3 DEF NoContact
<1> DEFINE f == [k \in 1 .. K |-> IF q[k] <= n THEN order[new(k)] ELSE old(k)]
<1>15. f \in [1 .. K -> 1 .. C]
  BY <1>10, <1>13, <1>14
<1>16. ASSUME NEW j \in 1 .. K, NEW k \in 1 .. K, f[j] = f[k] PROVE j = k
  <2>1. CASE q[j] <= n /\ q[k] <= n
    <3>1. new(j) = new(k)
      <4> HIDE DEF new
      <4> QED  BY <1>11, <1>13, <1>16, <2>1
    <3>2. q[j] \in 1 .. N /\ q[k] \in 1 .. N
      BY <1>8, Zenon
    <3>3. q[j] = q[k]
      BY <1>2, <3>1, <3>2
    <3> QED  BY <1>8, <3>3, Zenon
  <2>2. CASE ~(q[j] <= n) /\ ~(q[k] <= n)
    <3>1. old(j) = old(k)
      BY <1>16, <2>2
    <3>2. q[j] - n = q[k] - n
      BY <1>2, <1>4, <1>14, <2>2, <3>1 DEF IsMatching
    <3> QED  BY <1>2, <1>8, <3>2
  <2>3. CASE ~(q[j] <= n <=> q[k] <= n)
    <3> HIDE DEF new, old
    <3> QED  BY <1>10, <1>13, <1>14, <1>16, <2>3
  <2> QED  BY <2>1, <2>2, <2>3
<1> HIDE DEF f
<1>17. K <= C
  <2>1. K \in Nat /\ C \in Nat
    BY <1>2, <1>8
  <2> QED  BY <1>15, <1>16, <2>1, AtMost
<1>18. n <= C
  BY <1>2, <1>6, <1>7
<1> QED  BY <1>3, <1>17, <1>18 DEF n, nf, C

(* When all the places up to n are listed, they are where they were.       *)
LEMMA AscendingAll ==
  ASSUME NEW n \in Nat, NEW S, 1 .. n \subseteq S
  PROVE  Len(Ascending(S, n)) = n /\ \A i \in 1 .. n : Ascending(S, n)[i] = i
<1>1. PICK f : /\ f[0] = <<>> /\ \A i \in 1 .. n : f[i] = AscStep(S, f[i - 1], i)
               /\ Ascending(S, n) = f[n]
  BY AscendingRun
<1> DEFINE Good(q, k) == q \in Seq(Nat) /\ Len(q) = k /\ \A i \in 1 .. k : q[i] = i
           T == {k \in Nat : k <= n => Good(f[k], k)}
<1>2. 0 \in T
  <2>1. <<>> \in Seq(Nat) /\ Len(<<>>) = 0 /\ 1 .. 0 = {}
    OBVIOUS
  <2>2. Good(f[0], 0)
    BY <1>1, <2>1, Zenon
  <2> HIDE DEF Good
  <2> QED  BY <2>2
<1>3. ASSUME NEW k \in Nat, k \in T PROVE k + 1 \in T
  <2> SUFFICES ASSUME k + 1 <= n PROVE Good(f[k + 1], k + 1)
    OBVIOUS
  <2>1. Good(f[k], k) /\ k + 1 \in 1 .. n /\ (k + 1) - 1 = k
    BY <1>3
  <2>2. f[k + 1] = AscStep(S, f[k], k + 1)
    BY <1>1, <2>1, Zenon
  <2>3. f[k + 1] = Append(f[k], k + 1)
    BY <2>1, <2>2 DEF AscStep
  <2> DEFINE q == f[k]
  <2>4. Good(q, k)
    BY <2>1
  <2> HIDE DEF q
  <2>5. /\ Append(q, k + 1) \in Seq(Nat) /\ Len(Append(q, k + 1)) = k + 1
        /\ Append(q, k + 1)[k + 1] = k + 1
        /\ \A i \in 1 .. k : Append(q, k + 1)[i] = i
    BY <2>4
  <2>6. \A i \in 1 .. k + 1 : i \in 1 .. k \/ i = k + 1
    OBVIOUS
  <2>7. Good(Append(q, k + 1), k + 1)
    BY <2>5, <2>6, Zenon
  <2> QED  BY <2>3, <2>7 DEF q
<1> HIDE DEF T
<1>4. Nat \subseteq T
  BY <1>2, <1>3, Induction
<1>5. Good(f[n], n)
  BY <1>4 DEF T
<1> QED  BY <1>1, <1>5

(* Contacts where the fingers are find their fingers.                      *)
LEMMA OwnFinger ==
  ASSUME NEW P, P \subseteq Point, NEW W, NEW live \in Seq(FingerIn(P, W)),
         NEW m \in Matchings(live), NEW at \in P, NEW f \in DOMAIN live, live[f].last = at,
         \A g \in DOMAIN live : live[g].last = at => g = f
  PROVE  BestFinger(m, live, at) = {f}
<1> DEFINE d(g) == Dist(at, live[g].last)
           near == {g \in DOMAIN live : d(g) <= m[g].dist}
<1>1. ASSUME NEW g \in DOMAIN live PROVE d(g) \in Nat /\ (d(g) = 0 <=> g = f)
  <2>1. at \in Point /\ live[g].last \in Point
    <3>1. live[g].last \in P
      BY FingerFields
    <3> QED  BY <3>1
  <2>2. d(g) \in Nat /\ (d(g) = 0 <=> at = live[g].last)
    BY <2>1, DistNat
  <2>3. at = live[g].last <=> g = f
    OBVIOUS
  <2> HIDE DEF d
  <2> QED  BY <2>2, <2>3
<1>2. m[f].dist \in Nat
  BY DEF Matchings
<1>3. f \in DOMAIN live
  OBVIOUS
<1> HIDE DEF d
<1>4. f \in near
  BY <1>1, <1>2, <1>3
<1>5. d(f) < INT_MAX
  BY <1>1, <1>3, IntMaxAssumption
<1>6. \A g \in near : d(f) < d(g) \/ (d(f) = d(g) /\ f <= g)
  BY <1>1, <1>3
<1>7. BestFinger(m, live, at)
        = {h \in near : /\ d(h) < INT_MAX
                        /\ \A g \in near : d(h) < d(g) \/ (d(h) = d(g) /\ h <= g)}
  BY Zenon DEF BestFinger, d
<1> HIDE DEF near
<1>8. f \in BestFinger(m, live, at)
  BY <1>4, <1>5, <1>6, <1>7
<1>9. \A g \in BestFinger(m, live, at) : g = f
  BY <1>8, OneBest
<1> QED  BY <1>8, <1>9

OwnContacts(m, t, cs) ==
  \A f \in DOMAIN t.live, k \in DOMAIN cs :
    t.live[f].last = cs[k].at => m[f].contact = k

LEMMA StillMatching ==
  ASSUME NEW P, P \subseteq Point, NEW W, NEW t, t.live \in Seq(FingerIn(P, W)),
         NEW cs \in Seq(ContactIn(P, W)), Still(t, cs)
  PROVE  OwnContacts(Matching(t.live, cs), t, cs)
<1> DEFINE live == t.live  C == Len(cs)
<1>1. /\ \A f, g \in DOMAIN live : live[f].last = live[g].last => f = g
      /\ \A i, j \in DOMAIN cs : cs[i].at = cs[j].at => i = j
      /\ {cs[j].at : j \in DOMAIN cs} = {live[f].last : f \in DOMAIN live}
  BY Zenon DEF Still
<1>2. live \in Seq(FingerIn(P, W)) /\ C \in Nat /\ DOMAIN cs = 1 .. C
  OBVIOUS
<1> HIDE DEF live, C
<1>3. PICK m : MatchRun(live, cs, m)
  BY <1>2, MatchingRun
<1>4. /\ m \in [0 .. C -> Matchings(live)]
      /\ \A j \in 1 .. C : m[j] = MatchStep(live, cs, m[j - 1], j)
      /\ Matching(live, cs) = m[C]
  BY <1>3, Zenon DEF MatchRun, C
<1> DEFINE Own(j) == \A f \in DOMAIN live, k \in 1 .. j :
                       live[f].last = cs[k].at => m[j][f].contact = k
           T == {j \in Nat : j <= C => Own(j)}
<1>5. 0 \in T
  OBVIOUS
<1>6. ASSUME NEW j \in Nat, j \in T PROVE j + 1 \in T
  <2> SUFFICES ASSUME j + 1 <= C PROVE Own(j + 1)
    OBVIOUS
  <2>1. Own(j) /\ j + 1 \in 1 .. C /\ (j + 1) - 1 = j /\ j \in 0 .. C
    BY <1>6, <1>2
  <2> DEFINE at == cs[j + 1].at  best == BestFinger(m[j], live, at)
  <2>2. at \in P
    BY <1>2, <2>1, ContactFields
  <2>3. m[j + 1] = MatchStep(live, cs, m[j], j + 1) /\ m[j] \in Matchings(live)
    BY <1>4, <2>1, Zenon
  <2>4. PICK f0 \in DOMAIN live : live[f0].last = at
    <3>1. at \in {cs[i].at : i \in DOMAIN cs}
      BY <1>2, <2>1
    <3> HIDE DEF at
    <3>2. at \in {live[f].last : f \in DOMAIN live}
      BY <1>1, <3>1, Zenon
    <3> QED  BY <3>2
  <2>5. best = {f0}
    <3>1. \A g \in DOMAIN live : live[g].last = at => g = f0
      BY <1>1, <2>4, Zenon
    <3> HIDE DEF at
    <3> QED  BY <1>2, <2>2, <2>3, <2>4, <3>1, OwnFinger
  <2>6. \A f \in DOMAIN live :
          m[j + 1][f].contact = IF f \in best THEN j + 1 ELSE m[j][f].contact
    BY <2>3 DEF MatchStep
  <2> HIDE DEF best
  <2>7. ASSUME NEW f \in DOMAIN live, NEW k \in 1 .. j + 1, live[f].last = cs[k].at
        PROVE  m[j + 1][f].contact = k
    <3>1. CASE k = j + 1
      <4>1. f = f0
        BY <1>1, <2>4, <2>7, <3>1, Zenon
      <4> QED  BY <2>5, <2>6, <3>1, <4>1
    <3>2. CASE k # j + 1
      <4>1. k \in 1 .. j /\ k \in 1 .. C
        <5>1. k \in 1 .. j
          BY <3>2
        <5>2. j <= C
          BY <1>2, <2>1
        <5> QED  BY <1>2, <5>1, <5>2
      <4>2. f # f0
        BY <1>1, <1>2, <2>1, <2>4, <2>7, <3>2, <4>1, Zenon
      <4>3. m[j][f].contact = k
        BY <2>1, <2>7, <4>1, Zenon
      <4> QED  BY <2>5, <2>6, <4>2, <4>3
    <3> QED  BY <3>1, <3>2
  <2> QED  BY <2>7, Zenon
<1> HIDE DEF T
<1>7. Nat \subseteq T
  BY <1>5, <1>6, Induction
<1>8. Own(C)
  BY <1>2, <1>7 DEF T
<1> QED  BY <1>2, <1>4, <1>8, Zenon DEF live, OwnContacts

SameFingers(u, t) ==
  /\ DOMAIN u.live = DOMAIN t.live
  /\ \A f \in DOMAIN u.live : /\ u.live[f].id = t.live[f].id
                             /\ u.live[f].last = t.live[f].last

LEMMA StillKept ==
  ASSUME NEW P, P \subseteq Point, NEW W, W \subseteq Nat,
         NEW t, GoodTracker(t, P, W), NEW cs \in Seq(ContactIn(P, W)), Still(t, cs)
  PROVE  SameFingers(Track(t, cs).tracker, t)
<1> DEFINE m  == Matching(t.live, cs)
           nf == NewOnes(t, cs)
           rf == OldOnes(t, cs)
           n  == Len(nf)
           fs == Fingers(t, cs)
           l  == Lost(t, cs)
           N  == Len(fs)
           q  == Places(l, N)
           u  == Track(t, cs).tracker
           L  == Len(t.live)
<1>1. Update(Track(t, cs), t, P, W, fs, n, l)
  BY TrackUpdates
<1>2. /\ t.live \in Seq(FingerIn(P, W)) /\ L \in Nat /\ DOMAIN t.live = 1 .. L
      /\ DOMAIN cs = 1 .. Len(cs) /\ Len(cs) \in Nat
  <2>1. t.live \in Seq(FingerIn(P, W))
    BY DEF GoodTracker
  <2> QED  BY <2>1
<1>3. \A f \in DOMAIN t.live, k \in DOMAIN cs : t.live[f].last = cs[k].at => m[f].contact = k
  <2>1. OwnContacts(m, t, cs)
    BY <1>2, StillMatching
  <2> QED  BY <2>1, Zenon DEF OwnContacts
<1>4. /\ \A f \in 1 .. L : \E k \in DOMAIN cs : cs[k].at = t.live[f].last
      /\ \A k \in DOMAIN cs : \E f \in DOMAIN t.live : t.live[f].last = cs[k].at
  <2>1. {cs[j].at : j \in DOMAIN cs} = {t.live[f].last : f \in DOMAIN t.live}
    BY Zenon DEF Still
  <2> QED  BY <1>2, <2>1
<1>5. \A f \in 1 .. L : /\ m[f].contact \in DOMAIN cs /\ cs[m[f].contact].at = t.live[f].last
  BY <1>2, <1>3, <1>4, Zenon
<1>6. \A f \in 1 .. L : m[f].contact # NoContact
  BY <1>2, <1>5 DEF NoContact
<1>7. n = 0
  <2>1. Unmatched(t.live, cs, m) = {}
    <3>1. \A j \in DOMAIN cs : \E f \in DOMAIN t.live : m[f].contact = j
      BY <1>3, <1>4, Zenon
    <3> QED  BY <3>1 DEF Unmatched
  <2>2. PICK order : NewOrder(order, t.live, cs, m)
    BY NewContactsAre
  <2>3. Lists(order, {}, Len(cs))
    BY <2>1, <2>2, Zenon DEF NewOrder
  <2>4. Len(order) = 0
    BY <2>3 DEF Lists
  <2> DEFINE new == NewContacts(t.live, cs, m)
  <2>5. Len(new) = 0
    BY <2>2, <2>4 DEF NewOrder
  <2>6. new \in Seq(ContactIn(P, W)) /\ t.pool \in Nat /\ t.nextId \in Nat
    BY NewContactsType, Zenon DEF GoodTracker
  <2>7. nf = NewFingers(t, new)
    BY DEF NewOnes
  <2> HIDE DEF new, nf
  <2>8. AreNew(nf, t, new, P, W)
    BY <2>6, <2>7, NewFingersAre
  <2> QED  BY <2>5, <2>8 DEF AreNew
<1>8. N = L
  <2>1. N = n + L
    BY <1>1, UpdateIds
  <2> HIDE DEF n, N, L
  <2> QED  BY <1>2, <1>7, <2>1
<1>9. \A f \in 1 .. L : ~l[f]
  <2>1. \A f \in 1 .. N : l[f] = (f > n /\ m[f - n].contact = NoContact)
    BY Zenon DEF Lost
  <2> HIDE DEF n, m, l, N, L
  <2>2. ASSUME NEW f \in 1 .. L PROVE ~l[f]
    <3>1. f - n = f /\ f \in 1 .. N
      BY <1>2, <1>7, <1>8
    <3> QED  BY <1>6, <2>1, <3>1, Zenon
  <2> QED  BY <2>2, Zenon
<1>10. Len(q) = L /\ \A k \in 1 .. L : q[k] = k
  <2> DEFINE S == {i \in 1 .. N : ~l[i]}
  <2>1. q = Ascending(S, N)
    BY DEF Places
  <2>2. 1 .. N \subseteq S
    <3> HIDE DEF l, N, L
    <3> QED  BY <1>8, <1>9
  <2> HIDE DEF S, q, N, L
  <2> QED  BY <1>2, <1>8, <2>1, <2>2, AscendingAll
<1>11. /\ Len(u.live) = Len(q)
       /\ \A k \in 1 .. Len(u.live) : u.live[k] = [fs[q[k]] EXCEPT !.down = TRUE]
       /\ GoodTracker(u, P, W)
  BY <1>1, UpdateKeeps
<1>12. /\ fs \in Seq(FingerIn(P, W)) /\ \A f \in 1 .. L : fs[n + f].id = t.live[f].id
  BY <1>1, Zenon DEF Update
<1>13. ASSUME NEW f \in 1 .. L PROVE fs[f].last = t.live[f].last
  <2>1. rf = Refreshed(t.live, cs, m)
    BY DEF OldOnes
  <2>2. fs = nf \o rf
    BY DEF Fingers
  <2>3. rf[f] = Moved(t.live[f], cs[m[f].contact])
    BY <1>2, <1>6, <2>1 DEF Refreshed
  <2>4. Moved(t.live[f], cs[m[f].contact]).last = t.live[f].last
    <3>1. t.live[f] \in FingerIn(P, W)
      BY <1>2, FingerFields
    <3> DEFINE c == cs[m[f].contact]
    <3>2. c.at = t.live[f].last
      BY <1>5
    <3> HIDE DEF c
    <3>3. Moved(t.live[f], c).last = t.live[f].last
      BY <3>1, <3>2 DEF Moved, FingerIn
    <3> QED  BY <3>3 DEF c
  <2>5. nf \in Seq(FingerIn(P, W)) /\ rf \in Seq(FingerIn(P, W)) /\ Len(rf) = L
    <3>1. NewContacts(t.live, cs, m) \in Seq(ContactIn(P, W))
      BY NewContactsType, Zenon
    <3>2. AreNew(NewFingers(t, NewContacts(t.live, cs, m)), t, NewContacts(t.live, cs, m), P, W)
      BY <3>1, NewFingersAre DEF GoodTracker
    <3>3. nf \in Seq(FingerIn(P, W))
      BY <3>2 DEF AreNew, NewOnes
    <3>4. IsMatching(m, t.live, Len(cs))
      BY <1>2, MatchingMatches
    <3>5. AreOld(rf, t.live, P, W)
      BY <1>2, <2>1, <3>4, RefreshedAre
    <3> QED  BY <3>3, <3>5 DEF AreOld
  <2> HIDE DEF nf, rf, fs, m, L
  <2>6. fs[f] = rf[f]
    BY <1>2, <1>7, <2>2, <2>5 DEF n
  <2> QED  BY <2>3, <2>4, <2>6
<1>14. ASSUME NEW k \in 1 .. L
       PROVE  u.live[k].id = t.live[k].id /\ u.live[k].last = t.live[k].last
  <2>1. u.live[k] = [fs[k] EXCEPT !.down = TRUE]
    BY <1>10, <1>11
  <2>2. fs[k] \in FingerIn(P, W)
    <3>1. k \in DOMAIN fs
      BY <1>8, <1>12
    <3> QED  BY <1>12, <3>1, FingerFields
  <2>3. [fs[k] EXCEPT !.down = TRUE].id = fs[k].id /\ [fs[k] EXCEPT !.down = TRUE].last = fs[k].last
    BY <2>2 DEF FingerIn
  <2>4. fs[k].id = t.live[k].id
    <3> HIDE DEF n, fs, L
    <3>1. n + k = k
      BY <1>2, <1>7
    <3> QED  BY <1>12, <3>1, Zenon
  <2> QED  BY <1>13, <2>1, <2>3, <2>4
<1>15. DOMAIN u.live = 1 .. L
  <2>1. u.live \in Seq(FingerIn(P, W))
    BY <1>11 DEF GoodTracker
  <2> QED  BY <1>10, <1>11, <2>1
<1> HIDE DEF u, L
<1> QED  BY <1>2, <1>14, <1>15, Zenon DEF u, SameFingers

(* An update takes the identities of the lost fingers away and adds new    *)
(* ones that were never used before.                                       *)
Swaps(before, after, up, n, next) ==
  /\ up \in SUBSET before
  /\ after = (before \ up) \cup (next .. next + n - 1)

LEMMA UpdateSwaps ==
  ASSUME NEW P, NEW W, NEW t, GoodTracker(t, P, W),
         NEW r, NEW fs, NEW n, NEW l, Update(r, t, P, W, fs, n, l)
  PROVE  Swaps(Ids(t.live), Ids(r.tracker.live), KeyIds(r.events, 0) \cap Ids(t.live), n, t.nextId)
<1> DEFINE new == t.nextId .. t.nextId + n - 1
           out == KeyIds(r.events, 0)
<1>1. /\ KeyIds(r.events, 1) = new /\ out = {fs[i].id : i \in {j \in 1 .. Len(fs) : l[j]}}
      /\ Told(Ids(t.live), r.events) = Ids(r.tracker.live)
  BY UpdateTells
<1>2. /\ \A i, j \in 1 .. Len(fs) : fs[i].id = fs[j].id => i = j
      /\ {fs[i].id : i \in {j \in 1 .. Len(fs) : ~fs[j].down}} = new
      /\ \A i \in 1 .. Len(fs) : ~fs[i].down <=> i \in 1 .. n
  <2>1. \A i, j \in 1 .. Len(fs) : fs[i].id = fs[j].id => i = j
    BY UpdateIds
  <2>2. {fs[i].id : i \in {j \in 1 .. Len(fs) : ~fs[j].down}} = new
    BY UpdateIds
  <2>3. \A i \in 1 .. Len(fs) : ~fs[i].down <=> i \in 1 .. n
    BY UpdateIds
  <2> QED  BY <2>1, <2>2, <2>3, Zenon
<1>3. \A i \in 1 .. n : ~l[i]
  BY Zenon DEF Update
<1> HIDE DEF new, out
<1>4. new \cap out = {}
  BY <1>1, <1>2, <1>3
<1>5. Ids(r.tracker.live) = (Ids(t.live) \cup new) \ out
  BY <1>1 DEF Told, out
<1>6. Ids(r.tracker.live) = (Ids(t.live) \ (out \cap Ids(t.live))) \cup new
  BY <1>4, <1>5
<1> QED  BY <1>6, Zenon DEF Swaps, new, out

-----------------------------------------------------------------------------
(* The tracker's invariant: a good list, whose identities the reader knows;*)
(* between init and deinit all buffers accounted for and no more fingers   *)
(* than contacts; otherwise nothing.                                       *)
TrackerInv ==
  /\ GoodTracker(tracker, Positions, Weights)
  /\ ready \in BOOLEAN /\ tracker.nextId <= MaxIds
  /\ told = Ids(tracker.live)
  /\ ready => /\ tracker.pool + Len(tracker.live) = 2 * MaxContacts
              /\ Len(tracker.live) <= MaxContacts
  /\ ~ready => tracker.pool = 0 /\ tracker.live = <<>>

LEMMA ContactsAre ==
  ASSUME NEW cs \in Contacts
  PROVE  cs \in Seq(ContactIn(Positions, Weights)) /\ Len(cs) \in 0 .. MaxContacts
<1>1. PICK n \in 0 .. MaxContacts : cs \in [1 .. n -> ContactIn(Positions, Weights)]
  BY Zenon DEF Contacts, ContactIn
<1>2. n \in Nat
  BY TrackerAssumption
<1> QED  BY <1>1, <1>2

LEMMA TrackerStep ==
  ASSUME TrackerInv, ready, NEW cs \in Contacts
  PROVE  LET r == Track(tracker, cs)
             n == Len(NewOnes(tracker, cs))
         IN  /\ GoodTracker(r.tracker, Positions, Weights)
             /\ r.tracker.pool + Len(r.tracker.live) = 2 * MaxContacts
             /\ Len(r.tracker.live) <= MaxContacts
             /\ n \in 0 .. MaxContacts /\ r.tracker.nextId = tracker.nextId + n
             /\ Told(told, r.events) = Ids(r.tracker.live)
             /\ Swaps(told, Ids(r.tracker.live), KeyIds(r.events, 0) \cap told, n, tracker.nextId)
<1> DEFINE r  == Track(tracker, cs)
           fs == Fingers(tracker, cs)
           n  == Len(NewOnes(tracker, cs))
           l  == Lost(tracker, cs)
<1>1. /\ GoodTracker(tracker, Positions, Weights) /\ told = Ids(tracker.live)
      /\ tracker.pool + Len(tracker.live) = 2 * MaxContacts
  BY DEF TrackerInv
<1>2. cs \in Seq(ContactIn(Positions, Weights)) /\ Len(cs) \in 0 .. MaxContacts
  BY ContactsAre
<1>3. Positions \subseteq Point /\ Weights \subseteq Nat
  BY ContactAssumption DEF Point
<1>4. Update(r, tracker, Positions, Weights, fs, n, l)
  BY <1>1, <1>2, <1>3, TrackUpdates
<1>5. n <= Len(cs) /\ Len(r.tracker.live) <= Len(cs)
  BY <1>1, <1>2, <1>3, TrackCounts
<1> HIDE DEF r, fs, n, l
<1>6. /\ GoodTracker(r.tracker, Positions, Weights) /\ r.tracker.nextId = tracker.nextId + n
      /\ r.tracker.pool + Len(r.tracker.live) = tracker.pool + Len(tracker.live)
  BY <1>1, <1>4, UpdateKeeps
<1>7. n \in Nat
  BY <1>4 DEF Update
<1>8. Len(r.tracker.live) \in Nat
  BY <1>6 DEF GoodTracker
<1>9. n \in 0 .. MaxContacts /\ Len(r.tracker.live) <= MaxContacts
  BY <1>2, <1>5, <1>7, <1>8, TrackerAssumption
<1>10. Told(told, r.events) = Ids(r.tracker.live)
  BY <1>1, <1>4, UpdateTells
<1>11. Swaps(told, Ids(r.tracker.live), KeyIds(r.events, 0) \cap told, n, tracker.nextId)
  BY <1>1, <1>4, UpdateSwaps
<1> QED  BY <1>1, <1>6, <1>9, <1>10, <1>11, Zenon DEF r, n

LEMMA TrackerInvariant == TrackerSpec => []TrackerInv
<1>1. TrackerInit => TrackerInv
  <2> SUFFICES ASSUME TrackerInit PROVE TrackerInv
    OBVIOUS
  <2>1. /\ tracker = [live |-> <<>>, pool |-> 0, nextId |-> 0] /\ ready = FALSE /\ told = {}
    BY DEF TrackerInit, NoTracker
  <2>2. tracker \in [live : Seq(FingerIn(Positions, Weights)), pool : Nat, nextId : Nat]
    BY <2>1
  <2>3. tracker.live = <<>> /\ tracker.pool = 0 /\ tracker.nextId = 0 /\ DOMAIN tracker.live = {}
    BY <2>1
  <2>4. GoodTracker(tracker, Positions, Weights)
    BY <2>2, <2>3, Zenon DEF GoodTracker
  <2>5. told = Ids(tracker.live)
    BY <2>1, <2>3 DEF Ids
  <2>6. tracker.nextId <= MaxIds /\ ~ready /\ ready \in BOOLEAN
    <3>1. 0 <= MaxIds
      BY TrackerAssumption
    <3> QED  BY <2>1, <2>3, <3>1, Zenon
  <2> QED  BY <2>3, <2>4, <2>5, <2>6, Zenon DEF TrackerInv
<1>2. TrackerInv /\ [TrackerNext]_trackerVars => TrackerInv'
  <2> SUFFICES ASSUME TrackerInv, [TrackerNext]_trackerVars PROVE TrackerInv'
    OBVIOUS
  <2>1. CASE InitGestures
    <3>1. /\ ~ready /\ ready' = TRUE /\ told' = told
          /\ tracker' = [tracker EXCEPT !.pool = @ + 2 * MaxContacts]
      BY <2>1 DEF InitGestures, InitTracker
    <3>2. /\ GoodTracker(tracker, Positions, Weights) /\ tracker.nextId <= MaxIds
          /\ told = Ids(tracker.live) /\ tracker.pool = 0 /\ tracker.live = <<>>
      BY <3>1 DEF TrackerInv
    <3>3. /\ tracker' \in [live : Seq(FingerIn(Positions, Weights)), pool : Nat, nextId : Nat]
          /\ tracker'.live = tracker.live /\ tracker'.nextId = tracker.nextId
          /\ tracker'.pool = 2 * MaxContacts
      BY <3>1, <3>2, TrackerAssumption DEF GoodTracker
    <3>4. GoodTracker(tracker', Positions, Weights)
      BY <3>2, <3>3, Zenon DEF GoodTracker
    <3>5. Len(tracker'.live) = 0
      BY <3>2, <3>3
    <3> QED  BY <3>1, <3>2, <3>3, <3>4, <3>5, TrackerAssumption DEF TrackerInv
  <2>2. CASE Deinit
    <3>1. /\ ready' = FALSE /\ told' = told /\ tracker.live = <<>>
          /\ tracker' = [tracker EXCEPT !.pool = 0]
      BY <2>2 DEF Deinit
    <3>2. /\ GoodTracker(tracker, Positions, Weights) /\ tracker.nextId <= MaxIds
          /\ told = Ids(tracker.live)
      BY DEF TrackerInv
    <3>3. /\ tracker' \in [live : Seq(FingerIn(Positions, Weights)), pool : Nat, nextId : Nat]
          /\ tracker'.live = tracker.live /\ tracker'.nextId = tracker.nextId
          /\ tracker'.pool = 0
      BY <3>1, <3>2 DEF GoodTracker
    <3>4. GoodTracker(tracker', Positions, Weights)
      BY <3>2, <3>3, Zenon DEF GoodTracker
    <3> QED  BY <3>1, <3>2, <3>3, <3>4 DEF TrackerInv
  <2>3. ASSUME NEW cs \in Contacts, GestureStateMachine(cs) PROVE TrackerInv'
    <3> DEFINE r == Track(tracker, cs)
    <3>1. /\ ready /\ ready' = ready /\ r.tracker.nextId <= MaxIds /\ tracker' = r.tracker
          /\ told' = Told(told, r.events)
      BY <2>3 DEF GestureStateMachine
    <3>2. /\ GoodTracker(r.tracker, Positions, Weights)
          /\ r.tracker.pool + Len(r.tracker.live) = 2 * MaxContacts
          /\ Len(r.tracker.live) <= MaxContacts
          /\ Told(told, r.events) = Ids(r.tracker.live)
      BY <3>1, TrackerStep
    <3> HIDE DEF r
    <3> QED  BY <3>1, <3>2 DEF TrackerInv
  <2>4. CASE UNCHANGED trackerVars
    BY <2>4 DEF trackerVars, TrackerInv
  <2> QED  BY <2>1, <2>2, <2>3, <2>4 DEF TrackerNext
<1> QED  BY <1>1, <1>2, PTL DEF TrackerSpec

(* The shapes of the tracker's state.                                      *)
THEOREM TrackerTypeCorrect == TrackerSpec => []TrackerTypeOK
<1>1. TrackerInv => TrackerTypeOK
  <2> SUFFICES ASSUME TrackerInv PROVE TrackerTypeOK
    OBVIOUS
  <2> DEFINE live == tracker.live
  <2>1. /\ live \in Seq(FingerIn(Positions, Weights)) /\ tracker.pool \in Nat
        /\ tracker.nextId \in Nat /\ tracker.nextId <= MaxIds
        /\ \A f \in DOMAIN live : live[f].id < tracker.nextId /\ live[f].down
        /\ ready \in BOOLEAN /\ told = Ids(live)
    BY DEF TrackerInv, GoodTracker
  <2>2. Len(live) \in Nat /\ DOMAIN live = 1 .. Len(live)
    BY <2>1
  <2> HIDE DEF live
  <2>3. ASSUME NEW f \in DOMAIN live PROVE live[f] \in Finger /\ live[f].id \in 0 .. MaxIds
    <3>1. live[f] \in FingerIn(Positions, Weights) /\ live[f].id \in Nat
      BY <2>1, FingerFields
    <3>2. live[f].id \in 0 .. MaxIds /\ live[f].down = TRUE
      BY <2>1, <3>1, TrackerAssumption DEF FingerIn
    <3> QED  BY <3>1, <3>2 DEF FingerIn, Finger
  <2>4. live \in Seq(Finger) /\ told \subseteq 0 .. MaxIds
    BY <2>1, <2>2, <2>3 DEF Ids
  <2>5. tracker.pool \in 0 .. 2 * MaxContacts
    BY <2>1, <2>2, TrackerAssumption DEF TrackerInv, live
  <2>6. tracker.nextId \in 0 .. MaxIds
    BY <2>1, TrackerAssumption
  <2> QED  BY <2>1, <2>4, <2>5, <2>6, Zenon DEF TrackerTypeOK, live
<1> QED  BY <1>1, TrackerInvariant, PTL

(* No buffer is lost, and enough of them are free for a whole new hand.    *)
THEOREM TrackerPoolSuffices == TrackerSpec => []PoolSuffices
<1>1. TrackerInv => PoolSuffices
  <2> SUFFICES ASSUME TrackerInv, ready PROVE PoolSuffices
    BY DEF PoolSuffices
  <2>1. tracker.pool \in Nat /\ Len(tracker.live) \in Nat
    BY DEF TrackerInv, GoodTracker
  <2> QED  BY <2>1, TrackerAssumption DEF TrackerInv, PoolSuffices
<1> QED  BY <1>1, TrackerInvariant, PTL

(* The reader of the events knows exactly the fingers that are down.       *)
THEOREM TrackerReaderAgrees == TrackerSpec => []ReaderAgrees
<1>1. TrackerInv => ReaderAgrees
  BY IdsCount DEF TrackerInv, ReaderAgrees
<1> QED  BY <1>1, TrackerInvariant, PTL

(* Fingers that do not move keep their identities, in whatever order the   *)
(* contacts are reported.                                                  *)
THEOREM TrackerStillFingersKept == TrackerSpec => []StillFingersKept
<1>1. TrackerInv => StillFingersKept
  <2> SUFFICES ASSUME TrackerInv, NEW cs \in Contacts, Still(tracker, cs)
               PROVE  SameFingers(Track(tracker, cs).tracker, tracker)
    BY Zenon DEF StillFingersKept, SameFingers
  <2>1. Positions \subseteq Point /\ Weights \subseteq Nat
    BY ContactAssumption DEF Point
  <2>2. cs \in Seq(ContactIn(Positions, Weights)) /\ GoodTracker(tracker, Positions, Weights)
    BY ContactsAre DEF TrackerInv
  <2> QED  BY <2>1, <2>2, StillKept
<1> QED  BY <1>1, TrackerInvariant, PTL

(* The tracker implements the finger protocol: every update lets some      *)
(* fingers up and puts new ones down, under identities never used before.  *)
THEOREM TrackerKeepsProtocol == TrackerSpec => TrackerImplementsProtocol
<1>1. TrackerInit => TrackerProtocol!Init
  BY DEF TrackerInit, NoTracker, TrackerProtocol!Init
<1>2. TrackerInv /\ [TrackerNext]_trackerVars
      => [TrackerProtocol!Touch]_<<told, tracker.nextId>>
  <2> SUFFICES ASSUME TrackerInv, [TrackerNext]_trackerVars
               PROVE  TrackerProtocol!Touch \/ UNCHANGED <<told, tracker.nextId>>
    OBVIOUS
  <2>1. CASE InitGestures
    BY <2>1 DEF InitGestures, InitTracker, TrackerInv, GoodTracker
  <2>2. CASE Deinit
    BY <2>2 DEF Deinit, TrackerInv, GoodTracker
  <2>3. ASSUME NEW cs \in Contacts, GestureStateMachine(cs) PROVE TrackerProtocol!Touch
    <3> DEFINE r  == Track(tracker, cs)
               n  == Len(NewOnes(tracker, cs))
               up == KeyIds(r.events, 0) \cap told
    <3>1. ready /\ tracker' = r.tracker /\ told' = Told(told, r.events)
      BY <2>3 DEF GestureStateMachine
    <3>2. /\ GoodTracker(r.tracker, Positions, Weights)
          /\ Len(r.tracker.live) <= MaxContacts
          /\ n \in 0 .. MaxContacts /\ r.tracker.nextId = tracker.nextId + n
          /\ Told(told, r.events) = Ids(r.tracker.live)
          /\ Swaps(told, Ids(r.tracker.live), up, n, tracker.nextId)
      BY <3>1, TrackerStep
    <3> HIDE DEF r, n, up
    <3>3. TrackerProtocol!Cardinality(told') <= MaxContacts
      <4>1. Cardinality(told') <= MaxContacts
        BY <3>1, <3>2, IdsCount
      <4>2. TrackerProtocol!Cardinality(told') = Cardinality(told')
        BY Zenon DEF TrackerProtocol!Cardinality, Cardinality
      <4> QED  BY <4>1, <4>2
    <3>4. /\ up \in SUBSET told /\ tracker'.nextId = tracker.nextId + n
          /\ told' = (told \ up) \cup (tracker.nextId .. tracker.nextId + n - 1)
      BY <3>1, <3>2 DEF Swaps
    <3> QED  BY <3>2, <3>3, <3>4, Zenon DEF TrackerProtocol!Touch
  <2>4. CASE UNCHANGED trackerVars
    BY <2>4 DEF trackerVars
  <2> QED  BY <2>1, <2>2, <2>3, <2>4 DEF TrackerNext
<1> QED  BY <1>1, <1>2, TrackerInvariant, PTL
         DEF TrackerSpec, TrackerImplementsProtocol, TrackerProtocol!Spec

-----------------------------------------------------------------------------
(* What a reader finds in the events of an update: a BTN_TOUCH 0 follows   *)
(* the coordinates of a finger that is lost; only the last entry is a SYN. *)
Lifted(ev, i, fs, l) ==
  \E k \in 1 .. Len(fs) : l[k] /\ ev[i - 1] = [type |-> "ABS", at |-> fs[k].last]

LEMMA KeyZero ==
  ASSUME NEW P, NEW W, NEW fs \in Seq(FingerIn(P, W)), NEW l \in [1 .. Len(fs) -> BOOLEAN],
         NEW ev, AreEvents(ev, P, fs, l), NEW i \in 1 .. Len(ev)
  PROVE  /\ ev[i].type = "SYN" => i = Len(ev)
         /\ IsKey(ev[i], 0) => Lifted(ev, i, fs, l)
<1>1. CASE i = Len(ev) /\ ev[i] = SYN
  BY <1>1 DEF IsKey, SYN
<1>2. CASE ~(i = Len(ev) /\ ev[i] = SYN)
  <2>1a. PICK k \in 1 .. Len(fs) : \E off : /\ Stretch(ev, off, EventsOf(fs[k], l[k]))
                                            /\ i - off \in 1 .. Len(EventsOf(fs[k], l[k]))
    BY <1>2, Zenon DEF AreEvents
  <2>1. PICK off : /\ Stretch(ev, off, EventsOf(fs[k], l[k]))
                   /\ i - off \in 1 .. Len(EventsOf(fs[k], l[k]))
    BY <2>1a
  <2> DEFINE e == EventsOf(fs[k], l[k])  x == i - off
  <2>2. OfFinger(e, P, fs[k], l[k])
    <3>1. fs[k] \in FingerIn(P, W) /\ l[k] \in BOOLEAN
      OBVIOUS
    <3> QED  BY <3>1, EventsOfFinger
  <2>3. Len(ev) \in Nat
    BY DEF AreEvents
  <2>4. x \in 1 .. Len(e) /\ off \in Nat /\ off + x = i /\ Len(e) \in Nat
    BY <2>1, <2>2, <2>3 DEF Stretch, OfFinger
  <2>5. \A y \in 1 .. Len(e) : ev[off + y] = e[y]
    BY <2>1 DEF Stretch
  <2> HIDE DEF e, x
  <2>6. ev[i] = e[x]
    BY <2>4, <2>5
  <2>7. CASE x = 1
    <3>1. e[1] = [type |-> "FINGERID", id |-> fs[k].id]
      BY <2>2, Zenon DEF OfFinger
    <3>2. ev[i].type = "FINGERID"
      BY <2>6, <2>7, <3>1
    <3> QED  BY <3>2 DEF IsKey
  <2>8. CASE x # 1
    <3>1. x \in 2 .. Len(e)
      BY <2>4, <2>8
    <3>2. e[x].type \in {"KEY", "ABS"}
      BY <2>2, <3>1, Zenon DEF OfFinger
    <3>3. ASSUME IsKey(ev[i], 0)
          PROVE  l[k] /\ ev[i - 1] = [type |-> "ABS", at |-> fs[k].last]
      <4>1. /\ l[k] /\ x - 1 \in 2 .. Len(e)
            /\ e[x - 1] = [type |-> "ABS", at |-> fs[k].last]
        BY <2>2, <2>6, <3>1, <3>3, Zenon DEF OfFinger
      <4>2. x - 1 \in 1 .. Len(e) /\ off + (x - 1) = i - 1
        BY <2>4, <4>1
      <4> QED  BY <2>5, <4>1, <4>2
    <3>4. IsKey(ev[i], 0) => Lifted(ev, i, fs, l)
      BY <3>3, Zenon DEF Lifted
    <3> QED  BY <2>6, <3>2, <3>4
  <2> QED  BY <2>7, <2>8
<1> QED  BY <1>1, <1>2

(* A tracker with at most one finger and at most one contact.  With a      *)
(* contact, the finger is where the contact is and none is lost; without,  *)
(* it is lost where it was.                                                *)
LEMMA OneMatched ==
  ASSUME NEW P, P \subseteq Point, NEW W, NEW live \in Seq(FingerIn(P, W)), Len(live) = 1,
         NEW c \in ContactIn(P, W), Dist(c.at, live[1].last) < INT_MAX
  PROVE  Matching(live, <<c>>)[1].contact = 1
<1> DEFINE cs == <<c>>
<1>1. cs \in Seq(ContactIn(P, W)) /\ Len(cs) = 1 /\ cs[1] = c
  OBVIOUS
<1> HIDE DEF cs
<1>2. PICK m : MatchRun(live, cs, m)
  BY <1>1, MatchingRun
<1>3. m[0] = MatchStart(live) /\ m[1] = MatchStep(live, cs, m[0], 1) /\ Matching(live, cs) = m[1]
  <2>1. 1 \in 1 .. Len(cs) /\ 1 - 1 = 0
    BY <1>1
  <2> QED  BY <1>1, <1>2, <2>1, Zenon DEF MatchRun
<1>4. DOMAIN live = {1} /\ 1 \in DOMAIN live
  OBVIOUS
<1>5. Dist(c.at, live[1].last) \in Nat
  <2>1. live[1].last \in P /\ c.at \in P
    BY <1>4, FingerFields DEF ContactIn
  <2>2. live[1].last \in Point /\ c.at \in Point
    BY <2>1
  <2> QED  BY <2>2, DistNat
<1>6. m[0][1].dist = INT_MAX
  BY <1>3, <1>4 DEF MatchStart
<1> DEFINE d(f) == Dist(c.at, live[f].last)
           near == {f \in DOMAIN live : d(f) <= m[0][f].dist}
<1>7. d(1) \in Nat /\ d(1) < INT_MAX /\ d(1) <= m[0][1].dist
  BY <1>5, <1>6, IntMaxAssumption
<1>8. BestFinger(m[0], live, c.at)
        = {h \in near : /\ d(h) < INT_MAX
                        /\ \A g \in near : d(h) < d(g) \/ (d(h) = d(g) /\ h <= g)}
  BY Zenon DEF BestFinger
<1> HIDE DEF d
<1>9. near = {1}
  BY <1>4, <1>7
<1> HIDE DEF near
<1>10. 1 \in BestFinger(m[0], live, c.at)
  BY <1>7, <1>8, <1>9
<1>11. m[1][1].contact = 1
  BY <1>1, <1>3, <1>4, <1>10 DEF MatchStep
<1> QED  BY <1>3, <1>11 DEF cs

LEMMA NoContacts ==
  ASSUME NEW P, P \subseteq Point, NEW W, NEW live \in Seq(FingerIn(P, W))
  PROVE  Matching(live, <<>>) = MatchStart(live)
<1>1. <<>> \in Seq(ContactIn(P, W)) /\ Len(<<>>) = 0
  OBVIOUS
<1>2. PICK m : MatchRun(live, <<>>, m)
  BY <1>1, MatchingRun
<1> QED  BY <1>1, <1>2, Zenon DEF MatchRun

(* What the panel's list holds after a gesture, and the tracker.           *)
Gesture(r, t, P, cs) ==
  /\ GoodTracker(r.tracker, P, {1}) /\ Len(r.tracker.live) <= 1
  /\ r.tracker.pool + Len(r.tracker.live) = t.pool + Len(t.live)
  /\ Told(Ids(t.live), r.events) = Ids(r.tracker.live)
  /\ \E n \in 0 .. 1 : /\ r.tracker.nextId = t.nextId + n
                       /\ Swaps(Ids(t.live), Ids(r.tracker.live),
                                KeyIds(r.events, 0) \cap Ids(t.live), n, t.nextId)
  /\ r.events \in Seq(Entry(P) \cup {SYN})
  /\ r.events = <<>> \/ (Len(r.events) >= 1 /\ r.events[Len(r.events)] = SYN)
  /\ \A i \in 1 .. Len(r.events) : r.events[i].type = "SYN" => i = Len(r.events)

LEMMA GestureAlways ==
  ASSUME NEW P, P \subseteq Point, NEW t, GoodTracker(t, P, {1}),
         NEW cs \in Seq(ContactIn(P, {1})), Len(cs) <= 1
  PROVE  Gesture(Track(t, cs), t, P, cs)
<1> DEFINE r  == Track(t, cs)
           fs == Fingers(t, cs)
           n  == Len(NewOnes(t, cs))
           l  == Lost(t, cs)
<1>0. {1} \subseteq Nat
  OBVIOUS
<1>1. Update(r, t, P, {1}, fs, n, l)
  BY <1>0, TrackUpdates
<1>2. n <= Len(cs) /\ Len(r.tracker.live) <= Len(cs)
  BY <1>0, TrackCounts
<1> HIDE DEF r, fs, n, l
<1>3. /\ GoodTracker(r.tracker, P, {1}) /\ r.tracker.nextId = t.nextId + n
      /\ r.tracker.pool + Len(r.tracker.live) = t.pool + Len(t.live)
  BY <1>1, UpdateKeeps
<1>4. n \in Nat /\ fs \in Seq(FingerIn(P, {1})) /\ l \in [1 .. Len(fs) -> BOOLEAN]
  BY <1>1, Zenon DEF Update
<1>5. Len(r.tracker.live) \in Nat /\ Len(cs) \in Nat
  BY <1>3 DEF GoodTracker
<1>6. n \in 0 .. 1 /\ Len(r.tracker.live) <= 1
  BY <1>2, <1>4, <1>5
<1>7. AreEvents(r.events, P, fs, l) /\ Told(Ids(t.live), r.events) = Ids(r.tracker.live)
  BY <1>1, UpdateTells
<1>8. Swaps(Ids(t.live), Ids(r.tracker.live), KeyIds(r.events, 0) \cap Ids(t.live), n, t.nextId)
  BY <1>1, UpdateSwaps
<1>9. /\ r.events \in Seq(Entry(P) \cup {SYN})
      /\ r.events = <<>> \/ (Len(r.events) >= 1 /\ r.events[Len(r.events)] = SYN)
  BY <1>7, Zenon DEF AreEvents
<1>10. \A i \in 1 .. Len(r.events) : r.events[i].type = "SYN" => i = Len(r.events)
  BY <1>4, <1>7, KeyZero
<1> QED  BY <1>3, <1>6, <1>7, <1>8, <1>9, <1>10, Zenon DEF Gesture, r

DownAt(r, at) ==
  /\ r.tracker.live # <<>> => r.tracker.live[1].last = at
  /\ \A i \in 1 .. Len(r.events) : ~IsKey(r.events[i], 0)

LEMMA GestureDown ==
  ASSUME NEW P, P \subseteq Point, NEW t, GoodTracker(t, P, {1}), Len(t.live) <= 1,
         NEW c \in ContactIn(P, {1}), \A p, q \in P : Dist(p, q) < INT_MAX
  PROVE  DownAt(Track(t, <<c>>), c.at)
<1> DEFINE cs == <<c>>
           r  == Track(t, cs)
           nf == NewOnes(t, cs)
           rf == OldOnes(t, cs)
           fs == Fingers(t, cs)
           n  == Len(nf)
           l  == Lost(t, cs)
           m  == Matching(t.live, cs)
           q  == Places(l, Len(fs))
<1>0. {1} \subseteq Nat
  OBVIOUS
<1>1. cs \in Seq(ContactIn(P, {1})) /\ Len(cs) = 1 /\ cs[1] = c /\ DOMAIN cs = {1}
  OBVIOUS
<1>2. /\ t.live \in Seq(FingerIn(P, {1})) /\ t.pool \in Nat /\ t.nextId \in Nat
      /\ Len(t.live) \in Nat /\ DOMAIN t.live = 1 .. Len(t.live)
  BY DEF GoodTracker
<1>3. c.at \in P /\ c.weight = 1
  BY DEF ContactIn
<1> HIDE DEF cs
<1>4. Update(r, t, P, {1}, fs, n, l)
  BY <1>0, <1>1, TrackUpdates
<1>5. n <= Len(cs)
  BY <1>0, <1>1, TrackCounts
<1>6. /\ n \in Nat /\ fs \in Seq(FingerIn(P, {1})) /\ l \in [1 .. Len(fs) -> BOOLEAN]
      /\ Len(fs) = n + Len(t.live) /\ \A i \in 1 .. n : ~l[i]
  BY <1>4, Zenon DEF Update
<1>7. \A i \in 1 .. Len(fs) : l[i] = (i > n /\ m[i - n].contact = NoContact)
  BY Zenon DEF Lost
<1>8. IsMatching(m, t.live, Len(cs))
  BY <1>1, <1>2, MatchingMatches
<1> DEFINE new == NewContacts(t.live, cs, m)
<1>9. PICK order : NewOrder(order, t.live, cs, m)
  BY <1>1, NewContactsAre
<1>10. Lists(order, Unmatched(t.live, cs, m), 1) /\ new = [k \in 1 .. Len(order) |-> cs[order[k]]]
  BY <1>1, <1>9, Zenon DEF NewOrder
<1>11. new \in Seq(ContactIn(P, {1}))
  BY <1>1, NewContactsType
<1>12. nf = NewFingers(t, new)
  BY DEF NewOnes
<1>13. fs = nf \o rf
  BY DEF Fingers
<1>14. rf = Refreshed(t.live, cs, m)
  BY DEF OldOnes
<1> HIDE DEF nf, rf, fs, l, m, n, new
<1>15. AreNew(nf, t, new, P, {1})
  BY <1>2, <1>11, <1>12, NewFingersAre
<1>16. AreOld(rf, t.live, P, {1})
  BY <1>0, <1>1, <1>2, <1>8, <1>14, RefreshedAre
<1>17. nf \in Seq(FingerIn(P, {1})) /\ rf \in Seq(FingerIn(P, {1})) /\ Len(rf) = Len(t.live)
  BY <1>15, <1>16, Zenon DEF AreNew, AreOld
<1>18. ASSUME Len(t.live) = 0
       PROVE  \A i \in 1 .. Len(fs) : ~l[i] /\ fs[i].last = c.at
  <2>1. \A i \in 1 .. Len(fs) : ~l[i] /\ i \in 1 .. n
    BY <1>2, <1>6, <1>18
  <2>2. ASSUME NEW i \in 1 .. n PROVE fs[i].last = c.at
    <3>1. n = 1 /\ i = 1 /\ n - i + 1 = 1
      BY <1>1, <1>5, <1>6
    <3>2. nf[1] = NewFinger(t, new, 1) /\ 1 <= Len(new)
      BY <1>15, <3>1 DEF AreNew, n
    <3>3. 1 \in 1 .. Len(order)
      <4>1. Len(order) \in Nat
        BY <1>10 DEF Lists
      <4> QED  BY <1>10, <3>2, <4>1
    <3>4. new[1] = cs[order[1]] /\ order[1] = 1
      <4>1. order[1] \in 1 .. 1
        BY <1>10, <3>3, Zenon DEF Lists
      <4> QED  BY <1>10, <3>3, <4>1
    <3>5. nf[1].last = c.at
      BY <1>1, <3>2, <3>4 DEF NewFinger
    <3>6. fs[1] = nf[1]
      BY <1>13, <1>17, <3>1 DEF n
    <3> QED  BY <3>1, <3>5, <3>6
  <2> QED  BY <2>1, <2>2, Zenon
<1>19. ASSUME Len(t.live) = 1
       PROVE  \A i \in 1 .. Len(fs) : ~l[i] /\ fs[i].last = c.at
  <2>1. 1 \in DOMAIN t.live
    BY <1>2, <1>19
  <2>2. t.live[1].last \in P /\ t.live[1].weight = 1 /\ t.live[1] \in FingerIn(P, {1})
    BY <1>2, <2>1, FingerFields
  <2>3. m[1].contact = 1
    <3>1. Matching(t.live, <<c>>)[1].contact = 1
      BY <1>2, <1>3, <1>19, <2>2, OneMatched
    <3> QED  BY <3>1 DEF m, cs
  <2>4. Unmatched(t.live, cs, m) = {}
    BY <1>1, <2>1, <2>3 DEF Unmatched
  <2>5. Len(order) = 0
    <3>1. Len(order) \in Nat
      BY <1>10 DEF Lists
    <3>2. \A i \in 1 .. Len(order) : FALSE
      BY <1>10, <2>4, Zenon DEF Lists
    <3> QED  BY <3>1, <3>2
  <2>6. n = 0
    <3>1. Len(new) = 0
      BY <1>10, <2>5
    <3>2. Len(nf) \in Nat /\ Len(nf) <= Len(new)
      BY <1>15, Zenon DEF AreNew
    <3> QED  BY <3>1, <3>2 DEF n
  <2>7. fs = rf /\ Len(fs) = 1
    <3>1. nf = <<>>
      BY <1>17, <2>6 DEF n
    <3> QED  BY <1>13, <1>17, <1>19, <3>1
  <2>8. rf[1] = Moved(t.live[1], c)
    BY <1>1, <1>14, <2>1, <2>3 DEF Refreshed, NoContact
  <2>9. fs[1].last = c.at
    BY <1>3, <2>2, <2>7, <2>8 DEF Moved, FingerIn
  <2>10. ~l[1]
    <3>1. l[1] = (1 > n /\ m[1 - n].contact = NoContact) /\ 1 - n = 1
      BY <1>7, <2>6, <2>7
    <3>2. m[1 - n].contact # NoContact
      BY <2>3, <3>1 DEF NoContact
    <3> QED  BY <3>1, <3>2, Zenon
  <2>11. \A i \in 1 .. Len(fs) : i = 1
    BY <2>7
  <2> QED  BY <2>9, <2>10, <2>11, Zenon
<1>20. \A i \in 1 .. Len(fs) : ~l[i] /\ fs[i].last = c.at
  <2> DEFINE k == Len(t.live)
  <2>0. k \in Nat /\ k <= 1
    BY <1>2
  <2> HIDE DEF k
  <2>1. k = 0 \/ k = 1
    BY <2>0
  <2> USE DEF k
  <2> QED  BY <1>18, <1>19, <2>1, Zenon
<1> HIDE DEF r, q
<1>21. /\ GoodTracker(r.tracker, P, {1}) /\ Len(r.tracker.live) = Len(Places(l, Len(fs)))
       /\ \A k \in 1 .. Len(r.tracker.live) :
            r.tracker.live[k] = [fs[Places(l, Len(fs))[k]] EXCEPT !.down = TRUE]
  BY <1>4, UpdateKeeps
<1>22. AreEvents(r.events, P, fs, l)
  BY <1>4, UpdateTells
<1>23. \A i \in 1 .. Len(r.events) : ~IsKey(r.events[i], 0)
  <2> SUFFICES ASSUME NEW i \in 1 .. Len(r.events), IsKey(r.events[i], 0) PROVE FALSE
    OBVIOUS
  <2>1. Lifted(r.events, i, fs, l)
    BY <1>6, <1>22, KeyZero
  <2> QED  BY <1>20, <2>1, Zenon DEF Lifted
<1>24. ASSUME r.tracker.live # <<>> PROVE r.tracker.live[1].last = c.at
  <2>1. Len(r.tracker.live) \in Nat /\ r.tracker.live \in Seq(FingerIn(P, {1}))
    BY <1>21 DEF GoodTracker
  <2>2. 1 \in 1 .. Len(r.tracker.live)
    BY <1>24, <2>1
  <2>3. Len(fs) \in Nat
    BY <1>6
  <2> DEFINE at == Places(l, Len(fs))[1]
  <2>4. at \in 1 .. Len(fs)
    BY <1>21, <2>2, <2>3, PlacesAre
  <2>5. r.tracker.live[1] = [fs[at] EXCEPT !.down = TRUE]
    BY <1>21, <2>2
  <2> HIDE DEF at
  <2>6. fs[at] \in FingerIn(P, {1}) /\ fs[at].last = c.at
    BY <1>6, <1>20, <2>4
  <2> QED  BY <2>5, <2>6 DEF FingerIn
<1> QED  BY <1>23, <1>24, Zenon DEF DownAt, r, cs

(* Without a contact the finger, if there is one, is lost where it was.    *)
UpFrom(r, t) ==
  /\ r.tracker.live = <<>>
  /\ \A i \in 1 .. Len(r.events) : IsKey(r.events[i], 0) =>
       t.live # <<>> /\ r.events[i - 1] = [type |-> "ABS", at |-> t.live[1].last]

LEMMA GestureUp ==
  ASSUME NEW P, P \subseteq Point, NEW t, GoodTracker(t, P, {1}), Len(t.live) <= 1
  PROVE  UpFrom(Track(t, <<>>), t)
<1> DEFINE r  == Track(t, <<>>)
           fs == Fingers(t, <<>>)
           n  == Len(NewOnes(t, <<>>))
           l  == Lost(t, <<>>)
<1>0. {1} \subseteq Nat /\ <<>> \in Seq(ContactIn(P, {1})) /\ Len(<<>>) = 0
  OBVIOUS
<1>1. t.live \in Seq(FingerIn(P, {1})) /\ Len(t.live) \in Nat
  BY DEF GoodTracker
<1>2. Update(r, t, P, {1}, fs, n, l)
  BY <1>0, TrackUpdates
<1>3. n <= Len(<<>>) /\ Len(r.tracker.live) <= Len(<<>>)
  BY <1>0, TrackCounts
<1>4. /\ n \in Nat /\ fs \in Seq(FingerIn(P, {1})) /\ l \in [1 .. Len(fs) -> BOOLEAN]
      /\ Len(fs) = n + Len(t.live)
  BY <1>2, Zenon DEF Update
<1>5. n = 0
  BY <1>0, <1>3, <1>4
<1>6. fs = NewOnes(t, <<>>) \o OldOnes(t, <<>>)
  BY DEF Fingers
<1>7. OldOnes(t, <<>>) = t.live
  <2>1. OldOnes(t, <<>>) = Refreshed(t.live, <<>>, MatchStart(t.live))
    BY <1>1, NoContacts DEF OldOnes
  <2>2. \A f \in DOMAIN t.live : MatchStart(t.live)[f].contact = NoContact
    BY DEF MatchStart
  <2>3. Refreshed(t.live, <<>>, MatchStart(t.live)) = [f \in DOMAIN t.live |-> t.live[f]]
    BY <2>2 DEF Refreshed
  <2>4. [f \in DOMAIN t.live |-> t.live[f]] = t.live
    BY <1>1
  <2> QED  BY <2>1, <2>3, <2>4
<1>8. NewOnes(t, <<>>) \in Seq(FingerIn(P, {1}))
  <2>1. NewContacts(t.live, <<>>, Matching(t.live, <<>>)) \in Seq(ContactIn(P, {1}))
    BY <1>0, NewContactsType
  <2>2. t.pool \in Nat /\ t.nextId \in Nat
    BY DEF GoodTracker
  <2>3. AreNew(NewOnes(t, <<>>), t, NewContacts(t.live, <<>>, Matching(t.live, <<>>)), P, {1})
    BY <2>1, <2>2, NewFingersAre DEF NewOnes
  <2> QED  BY <2>3, Zenon DEF AreNew
<1>9. fs = t.live
  <2> HIDE DEF fs
  <2>1. NewOnes(t, <<>>) = <<>>
    BY <1>5, <1>8
  <2> QED  BY <1>1, <1>6, <1>7, <2>1
<1> HIDE DEF r, fs, n, l
<1>10. GoodTracker(r.tracker, P, {1})
  BY <1>2, UpdateKeeps
<1>11. r.tracker.live = <<>>
  <2>1. r.tracker.live \in Seq(FingerIn(P, {1})) /\ Len(r.tracker.live) \in Nat
    BY <1>10 DEF GoodTracker
  <2>2. Len(r.tracker.live) = 0
    BY <1>0, <1>3, <2>1
  <2> QED  BY <2>1, <2>2
<1>12. AreEvents(r.events, P, fs, l)
  BY <1>2, UpdateTells
<1>13. ASSUME NEW i \in 1 .. Len(r.events), IsKey(r.events[i], 0)
       PROVE  t.live # <<>> /\ r.events[i - 1] = [type |-> "ABS", at |-> t.live[1].last]
  <2>1. Lifted(r.events, i, fs, l)
    BY <1>4, <1>12, <1>13, KeyZero
  <2>2. PICK k \in 1 .. Len(t.live) : r.events[i - 1] = [type |-> "ABS", at |-> t.live[k].last]
    BY <1>9, <2>1, Zenon DEF Lifted
  <2>3. k = 1 /\ t.live # <<>>
    BY <1>1
  <2> QED  BY <2>2, <2>3, Zenon
<1> QED  BY <1>11, <1>13, Zenon DEF UpFrom, r

-----------------------------------------------------------------------------
(* The touch panel.  The kernel's raw events.                              *)
RawEvent == [type : {"X", "Y"}, value : RawValues] \cup [type : {"KEY"}, value : {0, 1}]
            \cup {SYN, [type |-> "REL"]}

LEMMA PushedType ==
  ASSUME NEW q \in Seq(RawEvent), NEW evs \in Seq(RawEvent)
  PROVE  Pushed(q, evs) \in Seq(RawEvent)
<1> DEFINE D    == Seq(RawEvent)
           n    == Len(evs)
           step == [i \in 1 .. n |-> [b \in D |-> Push(b, evs[i])]]
<1>1. n \in Nat /\ \A i \in 1 .. n : evs[i] \in RawEvent
  OBVIOUS
<1>2. SYN \in RawEvent
  BY DEF RawEvent
<1>3. ASSUME NEW b \in D, NEW e \in RawEvent PROVE Push(b, e) \in D
  <2>1. <<SYN, e>> \in Seq(RawEvent) /\ Append(b, e) \in Seq(RawEvent)
    BY <1>2
  <2> QED  BY <2>1 DEF Push
<1>4. step \in [1 .. n -> [D -> D]]
  <2> HIDE DEF D, n
  <2> QED  BY <1>1, <1>3, Zenon
<1>5. \A i \in 1 .. n : \A b \in D : step[i][b] = Push(b, evs[i])
  OBVIOUS
<1>6. q \in D
  OBVIOUS
<1> HIDE DEF step, n, D
<1>7. PICK f \in [0 .. n -> D] : IsRun(f, n, q, step)
  BY <1>1, <1>4, <1>6, RunExists
<1>8. f[0] = q /\ \A i \in 1 .. n : f[i] = step[i][f[i - 1]]
  BY <1>7, Zenon DEF IsRun
<1>9. \A i \in 1 .. n : f[i] = Push(f[i - 1], evs[i])
  <2> TAKE i \in 1 .. n
  <2>1. i - 1 \in 0 .. n
    BY <1>1
  <2>2. f[i - 1] \in D
    BY <1>7, <2>1, Zenon
  <2> QED  BY <1>5, <1>8, <2>2, Zenon
<1>10. f = [i \in 0 .. n |-> IF i = 0 THEN q ELSE Push(f[i - 1], evs[i])]
  <2>1. ASSUME NEW i \in 0 .. n PROVE f[i] = IF i = 0 THEN q ELSE Push(f[i - 1], evs[i])
    <3>1. i # 0 => i \in 1 .. n
      BY <1>1
    <3> QED  BY <1>8, <1>9, <3>1, Zenon
  <2> QED  BY <1>7, <2>1, Zenon
<1> DEFINE g == CHOOSE g : g = [i \in 0 .. n |-> IF i = 0 THEN q ELSE Push(g[i - 1], evs[i])]
<1>11. g = [i \in 0 .. n |-> IF i = 0 THEN q ELSE Push(g[i - 1], evs[i])]
  BY <1>10, Zenon
<1>12. Pushed(q, evs) = g[n]
  BY Zenon DEF Pushed, n
<1> HIDE DEF g
<1>13. g[0] = q
  <2>1. 0 \in 0 .. n
    BY <1>1
  <2> QED  BY <1>11, <2>1, Zenon
<1>14. \A i \in 1 .. n : g[i] = Push(g[i - 1], evs[i])
  <2> TAKE i \in 1 .. n
  <2>1. i \in 0 .. n /\ i # 0
    BY <1>1
  <2> QED  BY <1>11, <2>1, Zenon
<1> DEFINE T == {i \in Nat : i <= n => g[i] \in D}
<1>15. 0 \in T
  BY <1>6, <1>13
<1>16. ASSUME NEW i \in Nat, i \in T PROVE i + 1 \in T
  <2> SUFFICES ASSUME i + 1 <= n PROVE g[i + 1] \in D
    OBVIOUS
  <2>1. g[i] \in D /\ i + 1 \in 1 .. n /\ (i + 1) - 1 = i
    BY <1>1, <1>16
  <2>2. g[i + 1] = Push(g[i], evs[i + 1])
    BY <1>14, <2>1, Zenon
  <2> QED  BY <1>1, <1>3, <2>1, <2>2, Zenon
<1> HIDE DEF T
<1>17. Nat \subseteq T
  BY <1>15, <1>16, Induction
<1>18. g[n] \in D
  BY <1>1, <1>17 DEF T
<1> QED  BY <1>12, <1>18 DEF D

(* The display's points, and a pointer that moves along one axis.          *)
LEMMA ScaleNat ==
  ASSUME NEW v \in RawValues \cup {0}
  PROVE  Scale(v) \in Nat
<1>1. v \in Nat /\ v * Num \in Nat
  BY ScaleAssumption
<1> DEFINE k == v * Num
<1> HIDE DEF k
<1>2. k \div Den \in Nat
  BY <1>1, ScaleAssumption DEF k
<1> QED  BY <1>2 DEF Scale, k

LEMMA ScreenPoints == Screen \subseteq Point /\ Nowhere \in Screen
<1> DEFINE A == {Scale(v) : v \in RawValues \cup {0}}
<1>1. A \subseteq Int /\ 0 \in A
  <2>1. Scale(0) = 0
    BY ScaleAssumption DEF Scale
  <2> QED  BY <2>1, ScaleNat
<1>2. Screen = A \X A
  BY Zenon DEF Screen
<1> HIDE DEF A
<1> QED  BY <1>1, <1>2 DEF Point, Nowhere

LEMMA AxisMoves ==
  ASSUME NEW at \in Screen, NEW v \in RawValues
  PROVE  [at EXCEPT ![1] = Scale(v)] \in Screen /\ [at EXCEPT ![2] = Scale(v)] \in Screen
<1> DEFINE A == {Scale(w) : w \in RawValues \cup {0}}
<1>1. Screen = A \X A
  BY Zenon DEF Screen
<1>2. Scale(v) \in A
  OBVIOUS
<1> HIDE DEF A
<1>3. PICK a \in A, b \in A : at = <<a, b>>
  BY <1>1
<1>4. /\ [at EXCEPT ![1] = Scale(v)] = <<Scale(v), b>>
      /\ [at EXCEPT ![2] = Scale(v)] = <<a, Scale(v)>>
  BY <1>3
<1> QED  BY <1>1, <1>2, <1>4

(* The statics of the module.                                              *)
Listed == Entry(Screen) \cup {SYN, [type |-> "REL"]}
Panel  == [at : Screen, button : {0, 1},
           tracker : [live : Seq(FingerIn(Screen, {1})), pool : Nat, nextId : Nat],
           list : Seq(Listed), read : Nat]

(* The list as handle_new_event leaves it when it fills it: one event.     *)
OneEvent(list) ==
  /\ list = <<>> \/ (Len(list) >= 1 /\ list[Len(list)].type = "SYN")
  /\ \A i \in 1 .. Len(list) : list[i].type = "SYN" => i = Len(list)

(* touchpanel_get_event returns the whole of a list just filled, and       *)
(* nothing of a list that is read.                                         *)
Returned(p, event) ==
  /\ panel' = [p EXCEPT !.read = Len(p.list)] /\ read_input' \in {0, 1}
  /\ current' \in BOOLEAN /\ delivered' = event
  /\ reported' = Told(reported, event)

LEMMA ReturnNone ==
  ASSUME NEW p, p.list \in Seq(Listed), p.read = Len(p.list), Return(p)
  PROVE  Returned(p, <<>>)
<1>1. Len(p.list) \in Nat
  OBVIOUS
<1>2. SynAt(p) = {}
  BY <1>1 DEF SynAt
<1>3. End(p) = Len(p.list) /\ Event(p) = <<>>
  BY <1>2 DEF End, Event
<1>4. current' \in BOOLEAN
  BY Zenon DEF Return
<1> QED  BY <1>3, <1>4 DEF Return, Returned

LEMMA ReturnAll ==
  ASSUME NEW p, p.list \in Seq(Listed), p.read = 0, OneEvent(p.list), Return(p)
  PROVE  Returned(p, p.list)
<1> DEFINE list == p.list  k == Len(list)
<1>1. k \in Nat /\ list \in Seq(Listed)
  OBVIOUS
<1>2. CASE list = <<>>
  BY <1>2, ReturnNone
<1>3. CASE list # <<>>
  <2>1. k >= 1 /\ list[k].type = "SYN" /\ \A i \in 1 .. k : list[i].type = "SYN" => i = k
    BY <1>3 DEF OneEvent
  <2>2. SynAt(p) = {k}
    BY <1>1, <2>1 DEF SynAt
  <2>3. Min(SynAt(p)) = k
    <3>1. \A x \in {k} : (\A y \in {k} : x <= y) <=> x = k
      BY <1>1
    <3> QED  BY <2>2, <3>1 DEF Min
  <2>4. End(p) = k
    BY <2>2, <2>3, Zenon DEF End
  <2>5. Event(p) = SubSeq(list, 1, k)
    BY <2>2, <2>4 DEF Event
  <2>6. SubSeq(list, 1, k) = list
    BY <1>1
  <2>7. current' \in BOOLEAN
    BY Zenon DEF Return
  <2> QED  BY <2>4, <2>5, <2>6, <2>7 DEF Return, Returned
<1> QED  BY <1>2, <1>3

LEMMA ToldNothing ==
  ASSUME NEW known
  PROVE  /\ Told(known, <<>>) = known
         /\ Told(known, <<[type |-> "REL"], SYN>>) = known
<1>1. KeyIds(<<>>, 0) = {} /\ KeyIds(<<>>, 1) = {}
  BY DEF KeyIds
<1> DEFINE ev == <<[type |-> "REL"], SYN>>
<1>2. \A i \in DOMAIN ev : ev[i].type # "KEY"
  BY DEF SYN
<1> HIDE DEF ev
<1>3. KeyIds(ev, 0) = {} /\ KeyIds(ev, 1) = {}
  BY <1>2 DEF KeyIds
<1> QED  BY <1>1, <1>3 DEF Told, ev

(* generate_mouse_gesture.                                                 *)
GoodPanel(p) ==
  /\ p \in Panel /\ GoodTracker(p.tracker, Screen, {1}) /\ Len(p.tracker.live) <= 1

Listing(q, p) ==
  /\ q.read = 0 /\ OneEvent(q.list)
  /\ Told(Ids(p.tracker.live), q.list) = Ids(q.tracker.live)
  /\ \E n \in 0 .. 1 : \E up : /\ q.tracker.nextId = p.tracker.nextId + n
                               /\ Swaps(Ids(p.tracker.live), Ids(q.tracker.live), up, n,
                                        p.tracker.nextId)

Gestured(q, p, button) ==
  /\ GoodPanel(q) /\ q.at = p.at /\ q.button = p.button
  /\ q.tracker.pool + Len(q.tracker.live) = p.tracker.pool + Len(p.tracker.live)
  /\ Listing(q, p)
  /\ IF button = 1
     THEN /\ q.tracker.live # <<>> => q.tracker.live[1].last = p.at
          /\ \A i \in 1 .. Len(q.list) : ~IsKey(q.list[i], 0)
     ELSE /\ q.tracker.live = <<>>
          /\ \A i \in 1 .. Len(q.list) : IsKey(q.list[i], 0) =>
               /\ p.tracker.live # <<>>
               /\ q.list[i - 1] = [type |-> "ABS", at |-> p.tracker.live[1].last]

LEMMA GestureMade ==
  ASSUME NEW p, GoodPanel(p), NEW button \in {0, 1}
  PROVE  Gestured(GenerateMouseGesture(p, button), p, button)
<1> DEFINE q  == GenerateMouseGesture(p, button)
           c  == [at |-> p.at, weight |-> 1]
           cs == IF button = 0 THEN <<>> ELSE <<c>>
           r  == Track(p.tracker, cs)
<1>1. q = [p EXCEPT !.tracker = r.tracker, !.list = r.events, !.read = 0]
  BY DEF GenerateMouseGesture, Filled
<1>2. p \in Panel /\ GoodTracker(p.tracker, Screen, {1}) /\ Len(p.tracker.live) <= 1
  BY DEF GoodPanel
<1>3. p.at \in Screen /\ p.button \in {0, 1}
  BY <1>2 DEF Panel
<1>4. c \in ContactIn(Screen, {1})
  BY <1>3 DEF ContactIn
<1>5. cs \in Seq(ContactIn(Screen, {1})) /\ Len(cs) <= 1
  <2> HIDE DEF c
  <2>1. /\ <<>> \in Seq(ContactIn(Screen, {1})) /\ Len(<<>>) <= 1
        /\ <<c>> \in Seq(ContactIn(Screen, {1})) /\ Len(<<c>>) <= 1
    BY <1>4
  <2> QED  BY <2>1, Zenon
<1>6. Screen \subseteq Point /\ \A a, b \in Screen : Dist(a, b) < INT_MAX
  BY ScreenPoints, ScreenAssumption
<1>7. Gesture(r, p.tracker, Screen, cs)
  <2> HIDE DEF cs
  <2> QED  BY <1>2, <1>5, <1>6, GestureAlways
<1>8. button = 1 => DownAt(r, p.at)
  <2> SUFFICES ASSUME button = 1 PROVE DownAt(r, p.at)
    OBVIOUS
  <2>1. cs = <<c>> /\ c.at = p.at
    OBVIOUS
  <2> HIDE DEF c, cs
  <2>2. DownAt(Track(p.tracker, <<c>>), c.at)
    BY <1>2, <1>4, <1>6, GestureDown
  <2> QED  BY <2>1, <2>2
<1>9. button # 1 => UpFrom(r, p.tracker)
  <2> SUFFICES ASSUME button = 0 PROVE UpFrom(r, p.tracker)
    OBVIOUS
  <2>1. cs = <<>>
    OBVIOUS
  <2> QED  BY <1>2, <1>6, <2>1, GestureUp
<1> HIDE DEF q, r, cs, c
<1>10. /\ GoodTracker(r.tracker, Screen, {1}) /\ Len(r.tracker.live) <= 1
       /\ r.events \in Seq(Entry(Screen) \cup {SYN})
  BY <1>7, Zenon DEF Gesture
<1>11. r.events \in Seq(Listed)
  BY <1>10 DEF Listed
<1>12. r.tracker \in [live : Seq(FingerIn(Screen, {1})), pool : Nat, nextId : Nat]
  BY <1>10, Zenon DEF GoodTracker
<1>13. /\ q.tracker = r.tracker /\ q.list = r.events /\ q.read = 0
       /\ q.at = p.at /\ q.button = p.button /\ q \in Panel
  BY <1>1, <1>2, <1>11, <1>12 DEF Panel
<1>14. GoodPanel(q)
  BY <1>10, <1>13, Zenon DEF GoodPanel
<1>15. OneEvent(q.list)
  <2>1. r.events = <<>> \/ (Len(r.events) >= 1 /\ r.events[Len(r.events)] = SYN)
    BY <1>7, Zenon DEF Gesture
  <2>2. \A i \in 1 .. Len(r.events) : r.events[i].type = "SYN" => i = Len(r.events)
    BY <1>7, Zenon DEF Gesture
  <2> QED  BY <1>13, <2>1, <2>2 DEF OneEvent, SYN
<1>16. Listing(q, p)
  BY <1>7, <1>13, <1>15, Zenon DEF Gesture, Listing
<1>17. q.tracker.pool + Len(q.tracker.live) = p.tracker.pool + Len(p.tracker.live)
  BY <1>7, <1>13, Zenon DEF Gesture
<1>18. ASSUME button = 1 PROVE Gestured(q, p, button)
  BY <1>8, <1>13, <1>14, <1>16, <1>17, <1>18, Zenon DEF Gestured, DownAt
<1>19. ASSUME button # 1 PROVE Gestured(q, p, button)
  BY <1>9, <1>13, <1>14, <1>16, <1>17, <1>19, Zenon DEF Gestured, UpFrom
<1> QED  BY <1>18, <1>19 DEF q

(* handle_new_event: either the list stays read and the tracker as it is,  *)
(* or the list is one new event.                                           *)
Release(ev) == ev.type = "KEY" /\ ev.value = 0

Handled(q, p, ev) ==
  /\ GoodPanel(q)
  /\ q.tracker.pool + Len(q.tracker.live) = p.tracker.pool + Len(p.tracker.live)
  /\ \/ q.read = Len(q.list) /\ q.tracker = p.tracker /\ ~Release(ev)
     \/ /\ Listing(q, p)
        /\ \A i \in 1 .. Len(q.list) : IsKey(q.list[i], 0) =>
             /\ ~Release(ev) /\ p.button = 0 /\ p.tracker.live # <<>>
             /\ q.list[i - 1] = [type |-> "ABS", at |-> p.tracker.live[1].last]
  /\ Release(ev) /\ q.tracker.live # <<>> => q.tracker.live[1].last = p.at
  /\ ~Release(ev) /\ q.button = 0 /\ q.tracker.live # <<>> =>
       p.button = 0 /\ q.tracker = p.tracker

LEMMA HandledMotion ==
  ASSUME NEW p, GoodPanel(p), p.read = Len(p.list),
         NEW ev \in [type : {"X", "Y"}, value : RawValues]
  PROVE  Handled(HandleNewEvent(p, ev), p, ev)
<1> DEFINE q == HandleNewEvent(p, ev)
<1>1. p \in Panel /\ p.at \in Screen /\ ev.value \in RawValues
  BY DEF GoodPanel, Panel
<1>2. PICK at \in Screen : q = [p EXCEPT !.at = at]
  <2>1. CASE ev.type = "X"
    <3>1. q = [p EXCEPT !.at[1] = Scale(ev.value)]
      BY <2>1 DEF HandleNewEvent
    <3> QED  BY <1>1, <3>1, AxisMoves
  <2>2. CASE ev.type = "Y"
    <3>1. q = [p EXCEPT !.at[2] = Scale(ev.value)]
      BY <2>2 DEF HandleNewEvent
    <3> QED  BY <1>1, <3>1, AxisMoves
  <2> QED  BY <2>1, <2>2
<1>3. ~Release(ev)
  BY DEF Release
<1> HIDE DEF q
<1>4. /\ q \in Panel /\ q.tracker = p.tracker /\ q.list = p.list /\ q.read = p.read
      /\ q.button = p.button
  BY <1>1, <1>2 DEF Panel
<1>5. GoodPanel(q)
  BY <1>4, Zenon DEF GoodPanel
<1> QED  BY <1>3, <1>4, <1>5, Zenon DEF Handled, q

LEMMA HandledButton ==
  ASSUME NEW p, GoodPanel(p), p.read = Len(p.list),
         NEW ev \in [type : {"KEY"}, value : {0, 1}]
  PROVE  Handled(HandleNewEvent(p, ev), p, ev)
<1> DEFINE q == HandleNewEvent(p, ev)
           b == [p EXCEPT !.button = ev.value]
<1>1. q = IF ev.value = 0 THEN GenerateMouseGesture(b, 1) ELSE b
  BY DEF HandleNewEvent
<1>2. p \in Panel
  BY DEF GoodPanel
<1>3. /\ b \in Panel /\ b.tracker = p.tracker /\ b.list = p.list /\ b.read = p.read
      /\ b.button = ev.value /\ b.at = p.at
  BY <1>2 DEF Panel
<1>4. Release(ev) <=> ev.value = 0
  BY DEF Release
<1> HIDE DEF q, b
<1>5. GoodPanel(b)
  BY <1>3, Zenon DEF GoodPanel
<1>6. CASE ev.value = 0
  <2>1. Gestured(q, b, 1)
    BY <1>1, <1>5, <1>6, GestureMade
  <2>2. Listing(q, p)
    BY <1>3, <2>1, Zenon DEF Gestured, Listing
  <2> QED  BY <1>3, <1>4, <1>6, <2>1, <2>2, Zenon DEF Gestured, Handled, q
<1>7. CASE ev.value # 0
  <2>1. q = b /\ ev.value = 1
    BY <1>1, <1>7
  <2>2. q.button # 0
    BY <1>3, <2>1
  <2> QED  BY <1>3, <1>4, <1>5, <1>7, <2>1, <2>2, Zenon DEF Handled, q
<1> QED  BY <1>6, <1>7

LEMMA HandledSyn ==
  ASSUME NEW p, GoodPanel(p), NEW ev, ev = SYN
  PROVE  Handled(HandleNewEvent(p, ev), p, ev)
<1> DEFINE q == HandleNewEvent(p, ev)
<1>1. q = GenerateMouseGesture(p, p.button)
  BY DEF HandleNewEvent, SYN
<1>2. p.button \in {0, 1}
  BY DEF GoodPanel, Panel
<1>3. ~Release(ev)
  BY DEF Release, SYN
<1> HIDE DEF q
<1>4. Gestured(q, p, p.button)
  BY <1>1, <1>2, GestureMade
<1>5. CASE p.button = 1
  <2>1. q.button # 0
    BY <1>4, <1>5 DEF Gestured
  <2> QED  BY <1>3, <1>4, <1>5, <2>1, Zenon DEF Gestured, Handled, q
<1>6. CASE p.button = 0
  <2>1. p.button # 1
    BY <1>6
  <2> QED  BY <1>3, <1>4, <1>6, <2>1, Zenon DEF Gestured, Handled, q
<1> QED  BY <1>2, <1>5, <1>6

LEMMA HandledWheel ==
  ASSUME NEW p, GoodPanel(p), NEW ev, ev = [type |-> "REL"]
  PROVE  Handled(HandleNewEvent(p, ev), p, ev)
<1> DEFINE q    == HandleNewEvent(p, ev)
           list == <<ev, SYN>>
<1>1. q = [p EXCEPT !.list = list, !.read = 0]
  BY DEF HandleNewEvent
<1>2. p \in Panel
  BY DEF GoodPanel
<1>3. list \in Seq(Listed) /\ Len(list) = 2 /\ list[1] = ev /\ list[2] = SYN
  BY DEF Listed
<1>4. \A i \in 1 .. Len(list) : list[i].type # "KEY" /\ (list[i].type = "SYN" => i = 2)
  BY <1>3 DEF SYN
<1>5. Told(Ids(p.tracker.live), list) = Ids(p.tracker.live)
  BY ToldNothing
<1>6. ~Release(ev)
  BY DEF Release
<1> HIDE DEF q, list
<1>7. /\ q \in Panel /\ q.tracker = p.tracker /\ q.list = list /\ q.read = 0
      /\ q.button = p.button
  BY <1>1, <1>2, <1>3 DEF Panel
<1>8. GoodPanel(q)
  BY <1>7, Zenon DEF GoodPanel
<1>9. OneEvent(q.list)
  <2>1. list[2].type = "SYN"
    BY <1>3 DEF SYN
  <2>2. Len(list) >= 1 /\ list[Len(list)].type = "SYN"
    BY <1>3, <2>1
  <2>3. \A i \in 1 .. Len(list) : list[i].type = "SYN" => i = Len(list)
    BY <1>3, <1>4
  <2> QED  BY <1>7, <2>2, <2>3, Zenon DEF OneEvent
<1>10. p.tracker.nextId \in Nat
  BY DEF GoodPanel, GoodTracker
<1>11. Swaps(Ids(p.tracker.live), Ids(p.tracker.live), {}, 0, p.tracker.nextId)
  <2> DEFINE next == p.tracker.nextId
  <2> HIDE DEF next
  <2>1. next .. next + 0 - 1 = {}
    BY <1>10 DEF next
  <2> QED  BY <2>1 DEF Swaps, next
<1>12. 0 \in 0 .. 1 /\ p.tracker.nextId = p.tracker.nextId + 0
  BY <1>10
<1>13. Listing(q, p)
  BY <1>5, <1>7, <1>9, <1>11, <1>12, Zenon DEF Listing
<1>14. \A i \in 1 .. Len(q.list) : ~IsKey(q.list[i], 0)
  BY <1>4, <1>7 DEF IsKey
<1> QED  BY <1>6, <1>7, <1>8, <1>13, <1>14, Zenon DEF Handled, q

LEMMA HandledAny ==
  ASSUME NEW p, GoodPanel(p), p.read = Len(p.list), NEW ev \in RawEvent
  PROVE  Handled(HandleNewEvent(p, ev), p, ev)
<1>1. \/ ev \in [type : {"X", "Y"}, value : RawValues]
      \/ ev \in [type : {"KEY"}, value : {0, 1}]
      \/ ev = SYN \/ ev = [type |-> "REL"]
  BY Zenon DEF RawEvent
<1> QED  BY <1>1, HandledMotion, HandledButton, HandledSyn, HandledWheel

(* What holds between calls: the list is read, the client knows the finger *)
(* the tracker holds, and a finger that is down with the button up is where*)
(* the button was released.                                                *)
KernelTyped ==
  /\ queue \in Seq(RawEvent) /\ frames \in 0 .. MaxFrames
  /\ pressed \in {0, 1} /\ heard \in {0, 1}

ModuleTyped ==
  /\ opened \in BOOLEAN /\ fd \in {"none", "open", "stale"}
  /\ read_input \in {0, 1} /\ current \in BOOLEAN

PanelInv ==
  /\ GoodPanel(panel) /\ panel.read = Len(panel.list)
  /\ panel.tracker.pool + Len(panel.tracker.live) = IF opened THEN 2 ELSE 0
  /\ ~opened => panel.tracker.live = <<>>
  /\ reported = Ids(panel.tracker.live)
  /\ panel.button = 0 /\ panel.tracker.live # <<>> =>
       panel.tracker.live[1].last = releasedAt

TouchInv == KernelTyped /\ ModuleTyped /\ PanelInv

(* What one call of touchpanel_get_event tells its client.                 *)
ToldTouch ==
  \E n \in 0 .. 1 : \E up :
    /\ panel'.tracker.nextId = panel.tracker.nextId + n
    /\ Swaps(reported, reported', up, n, panel.tracker.nextId)

ToldRelease ==
  \A i \in DOMAIN delivered' :
    IsKey(delivered'[i], 0) => delivered'[i - 1] = [type |-> "ABS", at |-> releasedAt]

LEMMA NoSwap ==
  ASSUME NEW t, t.nextId \in Nat, NEW known
  PROVE  t.nextId = t.nextId + 0 /\ Swaps(known, known, {}, 0, t.nextId)
<1> DEFINE next == t.nextId
<1> HIDE DEF next
<1>1. next .. next + 0 - 1 = {} /\ next = next + 0
  BY DEF next
<1> QED  BY <1>1 DEF Swaps, next

LEMMA EventRead ==
  ASSUME TouchInv, opened' = opened, NEW ev \in RawEvent,
         Return(HandleNewEvent(panel, ev)),
         releasedAt' = IF Release(ev) THEN panel.at ELSE releasedAt
  PROVE  PanelInv' /\ ToldTouch /\ ToldRelease /\ read_input' \in {0, 1} /\ current' \in BOOLEAN
<1> DEFINE q == HandleNewEvent(panel, ev)
<1>1. /\ GoodPanel(panel) /\ panel.read = Len(panel.list)
      /\ panel.tracker.pool + Len(panel.tracker.live) = IF opened THEN 2 ELSE 0
      /\ ~opened => panel.tracker.live = <<>>
      /\ reported = Ids(panel.tracker.live)
      /\ panel.button = 0 /\ panel.tracker.live # <<>> =>
           panel.tracker.live[1].last = releasedAt
  BY Zenon DEF TouchInv, PanelInv
<1>2. Handled(q, panel, ev)
  BY <1>1, HandledAny
<1> HIDE DEF q
<1>3. GoodPanel(q) /\ q \in Panel /\ q.list \in Seq(Listed) /\ Len(q.list) \in Nat
  <2>1. GoodPanel(q) /\ q \in Panel
    BY <1>2, Zenon DEF Handled, GoodPanel
  <2> QED  BY <2>1 DEF Panel
<1>4. panel.tracker.nextId \in Nat
  BY <1>1 DEF GoodPanel, GoodTracker
<1>5. PICK event :
        /\ Returned(q, event) /\ Told(reported, event) = Ids(q.tracker.live)
        /\ \E n \in 0 .. 1 : \E up : /\ q.tracker.nextId = panel.tracker.nextId + n
                                     /\ Swaps(reported, Ids(q.tracker.live), up, n,
                                              panel.tracker.nextId)
        /\ \A i \in DOMAIN event : IsKey(event[i], 0) =>
             /\ ~Release(ev) /\ panel.button = 0 /\ panel.tracker.live # <<>>
             /\ event[i - 1] = [type |-> "ABS", at |-> panel.tracker.live[1].last]
  <2>1. CASE q.read = Len(q.list) /\ q.tracker = panel.tracker
    <3>1. Returned(q, <<>>)
      BY <1>3, <2>1, ReturnNone DEF q
    <3>2. Told(reported, <<>>) = Ids(q.tracker.live)
      BY <1>1, <2>1, ToldNothing
    <3>3. \A i \in DOMAIN <<>> : FALSE
      OBVIOUS
    <3>4. /\ q.tracker.nextId = panel.tracker.nextId + 0
          /\ Swaps(reported, Ids(q.tracker.live), {}, 0, panel.tracker.nextId)
      BY <1>1, <1>4, <2>1, NoSwap
    <3>5. 0 \in 0 .. 1
      OBVIOUS
    <3> QED  BY <3>1, <3>2, <3>3, <3>4, <3>5, Zenon
  <2>2. CASE /\ Listing(q, panel)
             /\ \A i \in 1 .. Len(q.list) : IsKey(q.list[i], 0) =>
                  /\ ~Release(ev) /\ panel.button = 0 /\ panel.tracker.live # <<>>
                  /\ q.list[i - 1] = [type |-> "ABS", at |-> panel.tracker.live[1].last]
    <3>1. Returned(q, q.list)
      BY <1>3, <2>2, ReturnAll DEF Listing, q
    <3>2. DOMAIN q.list = 1 .. Len(q.list)
      BY <1>3
    <3> QED  BY <1>1, <2>2, <3>1, <3>2, Zenon DEF Listing
  <2> QED  BY <1>2, <2>1, <2>2, Zenon DEF Handled
<1>6. /\ panel' = [q EXCEPT !.read = Len(q.list)] /\ read_input' \in {0, 1}
      /\ current' \in BOOLEAN /\ delivered' = event
      /\ reported' = Ids(q.tracker.live)
  BY <1>5, Zenon DEF Returned
<1>7. /\ panel' \in Panel /\ panel'.tracker = q.tracker /\ panel'.list = q.list
      /\ panel'.read = Len(q.list) /\ panel'.button = q.button
  BY <1>3, <1>6 DEF Panel
<1>8. GoodPanel(panel')
  BY <1>3, <1>7, Zenon DEF GoodPanel
<1>9. panel'.tracker.pool + Len(panel'.tracker.live) = IF opened' THEN 2 ELSE 0
  BY <1>1, <1>2, <1>7, Zenon DEF Handled
<1>10. ~opened' => panel'.tracker.live = <<>>
  <2> SUFFICES ASSUME ~opened' PROVE q.tracker.live = <<>>
    BY <1>7
  <2>1. q.tracker.pool \in Nat /\ Len(q.tracker.live) \in Nat
        /\ q.tracker.live \in Seq(FingerIn(Screen, {1}))
    BY <1>3 DEF GoodPanel, GoodTracker
  <2>2. q.tracker.pool + Len(q.tracker.live) = 0
    BY <1>7, <1>9
  <2>3. Len(q.tracker.live) = 0
    <3> DEFINE a == q.tracker.pool  b == Len(q.tracker.live)
    <3>1. a \in Nat /\ b \in Nat /\ a + b = 0
      BY <2>1, <2>2
    <3> HIDE DEF a, b
    <3>2. b = 0
      BY <3>1
    <3> QED  BY <3>2 DEF b
  <2> QED  BY <2>1, <2>3
<1>11. ASSUME panel'.button = 0, panel'.tracker.live # <<>>
       PROVE  panel'.tracker.live[1].last = releasedAt'
  <2>1. q.button = 0 /\ q.tracker.live # <<>>
    BY <1>7, <1>11
  <2>2. CASE Release(ev)
    BY <1>2, <1>7, <2>1, <2>2, Zenon DEF Handled
  <2>3. CASE ~Release(ev)
    <3>1. panel.button = 0 /\ q.tracker = panel.tracker
      BY <1>2, <2>1, <2>3, Zenon DEF Handled
    <3> QED  BY <1>1, <1>7, <2>1, <2>3, <3>1, Zenon
  <2> QED  BY <2>2, <2>3
<1>12. PanelInv'
  BY <1>6, <1>7, <1>8, <1>9, <1>10, <1>11, Zenon DEF PanelInv
<1>13. ToldTouch
  BY <1>5, <1>6, <1>7, Zenon DEF ToldTouch
<1>14. ToldRelease
  BY <1>1, <1>5, <1>6, Zenon DEF ToldRelease
<1> QED  BY <1>6, <1>12, <1>13, <1>14

(* A frame the kernel delivers, to an open device or not.                  *)
LEMMA FrameDelivered ==
  ASSUME KernelTyped, NEW frame \in Seq(RawEvent), Deliver(frame)
  PROVE  queue' \in Seq(RawEvent) /\ frames' \in 0 .. MaxFrames
<1>1. Append(frame, SYN) \in Seq(RawEvent)
  BY DEF RawEvent
<1>2. queue \in Seq(RawEvent) /\ frames \in 0 .. MaxFrames
  BY Zenon DEF KernelTyped
<1>3. Pushed(queue, Append(frame, SYN)) \in Seq(RawEvent)
  BY <1>1, <1>2, PushedType
<1>4. queue' \in Seq(RawEvent)
  BY <1>2, <1>3, Zenon DEF Deliver
<1>5. frames' \in 0 .. MaxFrames
  BY <1>2, PanelAssumption DEF Deliver
<1> QED  BY <1>4, <1>5, Zenon

LEMMA MovesTyped == Moves \subseteq Seq(RawEvent)
<1>1. \A a \in {"X", "Y"}, v \in RawValues : [type |-> a, value |-> v] \in RawEvent
  BY DEF RawEvent
<1> DEFINE x(v) == [type |-> "X", value |-> v]  y(v) == [type |-> "Y", value |-> v]
<1>2. \A v \in RawValues : x(v) \in RawEvent /\ y(v) \in RawEvent
  BY <1>1
<1> HIDE DEF x, y
<1>3. \A v, w \in RawValues : <<x(v), y(w)>> \in Seq(RawEvent)
  BY <1>2
<1>4. \A a \in {"X", "Y"}, v \in RawValues : <<[type |-> a, value |-> v]>> \in Seq(RawEvent)
  BY <1>1
<1>5. <<>> \in Seq(RawEvent)
  OBVIOUS
<1>6. ASSUME NEW m \in Moves PROVE m \in Seq(RawEvent)
  <2>1. \/ m = <<>>
        \/ \E a \in {"X", "Y"}, v \in RawValues : m = <<[type |-> a, value |-> v]>>
        \/ \E v, w \in RawValues : m = <<x(v), y(w)>>
    BY DEF Moves, x, y
  <2> QED  BY <1>3, <1>4, <1>5, <2>1, Zenon
<1> QED  BY <1>6

LEMMA KernelSteps ==
  ASSUME KernelTyped, Move \/ Button \/ Wheel
  PROVE  KernelTyped' /\ UNCHANGED <<device, panel, call, heard>>
<1>1. CASE Move
  <2>1. PICK m \in Moves : Deliver(m)
    BY <1>1, Zenon DEF Move
  <2>2. m \in Seq(RawEvent)
    BY MovesTyped
  <2> QED  BY <1>1, <2>1, <2>2, FrameDelivered DEF Move, KernelTyped
<1>2. CASE Button
  <2> DEFINE key == <<[type |-> "KEY", value |-> 1 - pressed]>>
  <2>1. 1 - pressed \in {0, 1}
    BY DEF KernelTyped
  <2>2. key \in Seq(RawEvent)
    <3>1. [type |-> "KEY", value |-> 1 - pressed] \in RawEvent
      BY <2>1 DEF RawEvent
    <3> QED  BY <3>1
  <2>3. PICK m \in Moves : Deliver(m \o key) \/ Deliver(key \o m)
    BY <1>2, Zenon DEF Button
  <2> HIDE DEF key
  <2>4. m \o key \in Seq(RawEvent) /\ key \o m \in Seq(RawEvent)
    BY <2>2, MovesTyped
  <2>5. queue' \in Seq(RawEvent) /\ frames' \in 0 .. MaxFrames
    BY <2>3, <2>4, FrameDelivered
  <2>6. pressed' \in {0, 1} /\ UNCHANGED <<device, panel, call, heard>>
    BY <1>2, <2>1 DEF Button
  <2>7. heard \in {0, 1}
    BY DEF KernelTyped
  <2> QED  BY <2>5, <2>6, <2>7 DEF KernelTyped
<1>3. CASE Wheel
  <2>1. [type |-> "REL"] \in RawEvent
    BY DEF RawEvent
  <2>2. <<[type |-> "REL"]>> \in Seq(RawEvent)
    BY <2>1
  <2> QED  BY <1>3, <2>2, FrameDelivered DEF Wheel, KernelTyped
<1> QED  BY <1>1, <1>2, <1>3

(* One call of touchpanel_get_event.                                       *)
LEMMA GetEventStep ==
  ASSUME TouchInv, GetEvent
  PROVE  TouchInv' /\ ToldTouch /\ ToldRelease
<1>1. /\ UNCHANGED <<frames, pressed, opened, fd>>
      /\ \/ /\ queue # <<>> /\ queue' = Tail(queue)
            /\ Return(HandleNewEvent(panel, Head(queue)))
            /\ releasedAt' = IF Release(Head(queue)) THEN panel.at ELSE releasedAt
            /\ heard' = IF Head(queue).type = "KEY" THEN Head(queue).value ELSE heard
         \/ Return(panel) /\ UNCHANGED <<queue, releasedAt, heard>>
  BY DEF GetEvent, device, Release
<1>2. KernelTyped /\ ModuleTyped /\ PanelInv
  BY DEF TouchInv
<1>3. ASSUME queue # <<>>, queue' = Tail(queue),
             Return(HandleNewEvent(panel, Head(queue))),
             releasedAt' = IF Release(Head(queue)) THEN panel.at ELSE releasedAt,
             heard' = IF Head(queue).type = "KEY" THEN Head(queue).value ELSE heard
      PROVE  TouchInv' /\ ToldTouch /\ ToldRelease
  <2>1. Head(queue) \in RawEvent /\ queue' \in Seq(RawEvent)
    BY <1>2, <1>3 DEF KernelTyped
  <2>2. /\ PanelInv' /\ ToldTouch /\ ToldRelease
        /\ read_input' \in {0, 1} /\ current' \in BOOLEAN
    BY <1>1, <1>3, <2>1, EventRead
  <2>a. heard' \in {0, 1}
    <3>1. Head(queue).type = "KEY" => Head(queue).value \in {0, 1}
      BY <2>1 DEF RawEvent, SYN
    <3>2. heard \in {0, 1}
      BY <1>2, Zenon DEF KernelTyped
    <3> QED  BY <1>3, <3>1, <3>2, Zenon
  <2>3. KernelTyped' /\ ModuleTyped'
    BY <1>1, <1>2, <2>1, <2>2, <2>a DEF KernelTyped, ModuleTyped
  <2> QED  BY <2>2, <2>3 DEF TouchInv
<1>4. ASSUME Return(panel), UNCHANGED <<queue, releasedAt, heard>>
      PROVE  TouchInv' /\ ToldTouch /\ ToldRelease
  <2>1. panel \in Panel /\ panel.read = Len(panel.list) /\ panel.list \in Seq(Listed)
        /\ panel.tracker.nextId \in Nat
    BY <1>2 DEF PanelInv, GoodPanel, Panel
  <2>2. Returned(panel, <<>>)
    BY <1>4, <2>1, ReturnNone
  <2>3. /\ panel' = panel /\ reported' = reported /\ delivered' = <<>>
        /\ read_input' \in {0, 1} /\ current' \in BOOLEAN
    BY <2>1, <2>2, ToldNothing DEF Returned, Panel
  <2>4. PanelInv'
    BY <1>1, <1>2, <1>4, <2>3 DEF PanelInv
  <2>5. KernelTyped' /\ ModuleTyped'
    BY <1>1, <1>2, <1>4, <2>3 DEF KernelTyped, ModuleTyped
  <2>6. ToldTouch
    <3>1. /\ panel.tracker.nextId = panel.tracker.nextId + 0
          /\ Swaps(reported, reported, {}, 0, panel.tracker.nextId)
      BY <2>1, NoSwap
    <3>2. 0 \in 0 .. 1
      OBVIOUS
    <3> QED  BY <2>3, <3>1, <3>2, Zenon DEF ToldTouch
  <2>7. ToldRelease
    BY <2>3 DEF ToldRelease
  <2> QED  BY <2>4, <2>5, <2>6, <2>7 DEF TouchInv
<1> QED  BY <1>1, <1>3, <1>4, Zenon

LEMMA OpenStep ==
  ASSUME TouchInv, Open
  PROVE  TouchInv' /\ reported' = reported /\ panel'.tracker.nextId = panel.tracker.nextId
<1>1. /\ ~opened /\ UNCHANGED <<kernel, read_input, delivered, reported, releasedAt, heard>>
      /\ current' = FALSE /\ fd' \in {"none", "open", "stale"}
      /\ \/ opened' = TRUE /\ panel' = [panel EXCEPT !.tracker = InitTracker(panel.tracker, 1)]
         \/ opened' = FALSE /\ panel' = panel
  BY DEF Open, Opened
<1>2. KernelTyped /\ ModuleTyped /\ PanelInv
  BY DEF TouchInv
<1>3. KernelTyped' /\ ModuleTyped'
  BY <1>1, <1>2 DEF KernelTyped, ModuleTyped, kernel
<1>4. CASE opened' = FALSE /\ panel' = panel
  <2>1. PanelInv'
    BY <1>1, <1>2, <1>4 DEF PanelInv
  <2> QED  BY <1>1, <1>3, <1>4, <2>1 DEF TouchInv
<1>5. CASE opened' = TRUE /\ panel' = [panel EXCEPT !.tracker = InitTracker(panel.tracker, 1)]
  <2>1. /\ GoodPanel(panel) /\ panel.read = Len(panel.list) /\ panel.tracker.live = <<>>
        /\ panel.tracker.pool + Len(panel.tracker.live) = 0
        /\ reported = Ids(panel.tracker.live)
    BY <1>1, <1>2 DEF PanelInv
  <2> DEFINE t == panel.tracker  u == InitTracker(t, 1)
  <2>2. panel \in Panel /\ GoodTracker(t, Screen, {1}) /\ Len(t.live) = 0
    BY <2>1 DEF GoodPanel
  <2>3. t \in [live : Seq(FingerIn(Screen, {1})), pool : Nat, nextId : Nat]
    BY <2>2, Zenon DEF GoodTracker
  <2> HIDE DEF t
  <2>4. t.pool = 0
    BY <2>1, <2>2, <2>3 DEF t
  <2>5. /\ u \in [live : Seq(FingerIn(Screen, {1})), pool : Nat, nextId : Nat]
        /\ u.live = t.live /\ u.pool = 2 /\ u.nextId = t.nextId
    BY <2>3, <2>4 DEF InitTracker
  <2>6. panel' = [panel EXCEPT !.tracker = u]
    BY <1>5 DEF t
  <2> HIDE DEF u
  <2>7. GoodTracker(u, Screen, {1})
    BY <2>2, <2>5, Zenon DEF GoodTracker
  <2>8. /\ panel' \in Panel /\ panel'.tracker = u /\ panel'.list = panel.list
        /\ panel'.read = panel.read /\ panel'.button = panel.button
    BY <2>2, <2>5, <2>6 DEF Panel
  <2>9. GoodPanel(panel')
    BY <2>2, <2>5, <2>7, <2>8 DEF GoodPanel
  <2>10. PanelInv'
    BY <1>1, <1>5, <2>1, <2>2, <2>5, <2>8, <2>9 DEF PanelInv, t
  <2> QED  BY <1>1, <1>3, <2>5, <2>8, <2>10 DEF TouchInv, t
<1> QED  BY <1>1, <1>4, <1>5

LEMMA CloseStep ==
  ASSUME TouchInv, Close
  PROVE  TouchInv' /\ reported' = reported /\ panel'.tracker.nextId = panel.tracker.nextId
<1>1. /\ opened' = FALSE /\ fd' = "none" /\ queue' = <<>> /\ current' = FALSE
      /\ panel.tracker.live = <<>> /\ panel' = [panel EXCEPT !.tracker.pool = 0]
      /\ UNCHANGED <<frames, pressed, read_input, delivered, reported, releasedAt, heard>>
  BY DEF Close
<1>2. KernelTyped /\ ModuleTyped /\ PanelInv
  BY DEF TouchInv
<1>3. KernelTyped' /\ ModuleTyped'
  <2>1. <<>> \in Seq(RawEvent) /\ FALSE \in BOOLEAN
    OBVIOUS
  <2>2. KernelTyped'
    BY <1>1, <1>2, <2>1, Zenon DEF KernelTyped
  <2>3. ModuleTyped'
    BY <1>1, <1>2, <2>1 DEF ModuleTyped
  <2> QED  BY <2>2, <2>3
<1>4. GoodPanel(panel) /\ panel.read = Len(panel.list) /\ reported = Ids(panel.tracker.live)
  BY <1>2 DEF PanelInv
<1> DEFINE t == panel.tracker  u == [t EXCEPT !.pool = 0]
<1>5. panel \in Panel /\ GoodTracker(t, Screen, {1})
  BY <1>4 DEF GoodPanel
<1>6. t \in [live : Seq(FingerIn(Screen, {1})), pool : Nat, nextId : Nat]
  BY <1>5, Zenon DEF GoodTracker
<1> HIDE DEF t
<1>7. /\ u \in [live : Seq(FingerIn(Screen, {1})), pool : Nat, nextId : Nat]
      /\ u.live = t.live /\ u.pool = 0 /\ u.nextId = t.nextId
  BY <1>6
<1>8. panel' = [panel EXCEPT !.tracker = u]
  BY <1>1 DEF t
<1> HIDE DEF u
<1>9. GoodTracker(u, Screen, {1})
  BY <1>5, <1>7, Zenon DEF GoodTracker
<1>10. /\ panel' \in Panel /\ panel'.tracker = u /\ panel'.list = panel.list
       /\ panel'.read = panel.read /\ panel'.button = panel.button
  BY <1>5, <1>7, <1>8 DEF Panel
<1>11. u.live = <<>> /\ Len(u.live) = 0
  BY <1>1, <1>7 DEF t
<1>12. GoodPanel(panel')
  BY <1>9, <1>10, <1>11 DEF GoodPanel
<1>13. PanelInv'
  BY <1>1, <1>4, <1>7, <1>10, <1>11, <1>12 DEF PanelInv, t
<1> QED  BY <1>1, <1>3, <1>7, <1>10, <1>13 DEF TouchInv, t

LEMMA TouchInvariant == Spec => []TouchInv
<1>1. Init => TouchInv
  <2> SUFFICES ASSUME Init PROVE TouchInv
    OBVIOUS
  <2>1. panel = [at |-> Nowhere, button |-> 0, tracker |-> NoTracker, list |-> <<>>, read |-> 0]
    BY DEF Init
  <2>2. NoTracker \in [live : Seq(FingerIn(Screen, {1})), pool : Nat, nextId : Nat]
    BY DEF NoTracker
  <2>3. NoTracker.live = <<>> /\ NoTracker.pool = 0 /\ DOMAIN NoTracker.live = {}
    BY DEF NoTracker
  <2>4. GoodTracker(NoTracker, Screen, {1})
    BY <2>2, <2>3, Zenon DEF GoodTracker
  <2>5. /\ panel \in Panel /\ panel.tracker = NoTracker /\ panel.read = Len(panel.list)
        /\ panel.button = 0
    BY <2>1, <2>2, ScreenPoints DEF Panel
  <2>6. GoodPanel(panel)
    BY <2>3, <2>4, <2>5 DEF GoodPanel
  <2>7. PanelInv
    BY <2>3, <2>5, <2>6 DEF PanelInv, Init, Ids
  <2>8. KernelTyped
    <3>1. <<>> \in Seq(RawEvent) /\ 0 \in 0 .. MaxFrames
      BY PanelAssumption
    <3> QED  BY <3>1 DEF Init, KernelTyped
  <2>9. ModuleTyped
    BY DEF Init, ModuleTyped
  <2> QED  BY <2>7, <2>8, <2>9 DEF TouchInv
<1>2. TouchInv /\ [Next]_vars => TouchInv'
  <2> SUFFICES ASSUME TouchInv, [Next]_vars PROVE TouchInv'
    OBVIOUS
  <2>1. CASE Move \/ Button \/ Wheel
    BY <2>1, KernelSteps DEF TouchInv, ModuleTyped, PanelInv, device, call
  <2>2. CASE GetEvent
    BY <2>2, GetEventStep
  <2>3. CASE Open
    BY <2>3, OpenStep
  <2>4. CASE Close
    BY <2>4, CloseStep
  <2>5. CASE UNCHANGED vars
    BY <2>5 DEF TouchInv, KernelTyped, ModuleTyped, PanelInv, vars, kernel, device, call
  <2> QED  BY <2>1, <2>2, <2>3, <2>4, <2>5 DEF Next
<1> QED  BY <1>1, <1>2, PTL DEF Spec

(* The shapes of the module's state.                                       *)
THEOREM TouchTypeCorrect == Spec => []TypeOK
<1>1. TouchInv => TypeOK
  <2> SUFFICES ASSUME TouchInv PROVE TypeOK
    OBVIOUS
  <2>1. KernelTyped /\ ModuleTyped /\ PanelInv /\ GoodPanel(panel) /\ panel \in Panel
    BY DEF TouchInv, PanelInv, GoodPanel
  <2>2. /\ panel.at \in Screen /\ panel.button \in {0, 1} /\ panel.list \in Seq(Listed)
        /\ panel.read = Len(panel.list)
    BY <2>1 DEF Panel, PanelInv
  <2>3. panel.read \in 0 .. Len(panel.list)
    <3>1. Len(panel.list) \in Nat
      BY <2>2
    <3> QED  BY <2>2, <3>1
  <2>4. Len(panel.tracker.live) <= 1 /\ panel.tracker.pool \in 0 .. 2
    <3>1. /\ panel.tracker.pool \in Nat /\ Len(panel.tracker.live) \in Nat
          /\ Len(panel.tracker.live) <= 1
      BY <2>1 DEF GoodPanel, GoodTracker
    <3>2. \/ panel.tracker.pool + Len(panel.tracker.live) = 2
          \/ panel.tracker.pool + Len(panel.tracker.live) = 0
      BY <2>1 DEF PanelInv
    <3> DEFINE a == panel.tracker.pool  b == Len(panel.tracker.live)
    <3>3. a \in Nat /\ b \in Nat /\ b <= 1 /\ (a + b = 2 \/ a + b = 0)
      BY <3>1, <3>2
    <3> HIDE DEF a, b
    <3>4. b <= 1 /\ a \in 0 .. 2
      BY <3>3
    <3> QED  BY <3>4 DEF a, b
  <2> QED  BY <2>1, <2>2, <2>3, <2>4, Zenon DEF TypeOK, KernelTyped, ModuleTyped
<1> QED  BY <1>1, TouchInvariant, PTL

(* No entry of the list is overwritten unread, whatever the order of the   *)
(* kernel's frames, the client's calls, opens and closes; and the client   *)
(* knows the finger the tracker holds.                                     *)
THEOREM TouchNothingLost == Spec => []NothingLost
<1>1. TouchInv => NothingLost
  BY DEF TouchInv, PanelInv, NothingLost
<1> QED  BY <1>1, TouchInvariant, PTL

(* A finger comes up at the point where the button was released.           *)
THEOREM TouchReleasedAtPoint == Spec => ReleasedAtPoint
<1> DEFINE A == \A i \in DOMAIN delivered' :
                  delivered' # delivered /\ delivered'[i].type = "KEY" /\ delivered'[i].value = 0
                  => delivered'[i - 1].at = releasedAt
<1>1. TouchInv /\ [Next]_vars => [A]_vars
  <2> SUFFICES ASSUME TouchInv, [Next]_vars PROVE A \/ UNCHANGED vars
    OBVIOUS
  <2>1. CASE Move \/ Button \/ Wheel
    <3>1. delivered' = delivered
      BY <2>1, KernelSteps DEF TouchInv, call
    <3> QED  BY <3>1, Zenon
  <2>2. CASE GetEvent
    <3>1. ToldRelease
      BY <2>2, GetEventStep
    <3>2. ASSUME NEW i \in DOMAIN delivered',
                 delivered'[i].type = "KEY", delivered'[i].value = 0
          PROVE  delivered'[i - 1].at = releasedAt
      <4>1. delivered'[i - 1] = [type |-> "ABS", at |-> releasedAt]
        BY <3>1, <3>2, Zenon DEF ToldRelease, IsKey
      <4> QED  BY <4>1
    <3> QED  BY <3>2, Zenon
  <2>3. CASE Open
    BY <2>3, Zenon DEF Open
  <2>4. CASE Close
    BY <2>4, Zenon DEF Close
  <2> HIDE DEF A
  <2> QED  BY <2>1, <2>2, <2>3, <2>4 DEF Next
<1> QED  BY <1>1, TouchInvariant, PTL DEF Spec, ReleasedAtPoint

(* The client sees the finger protocol with one finger.                    *)
THEOREM TouchKeepsProtocol == Spec => ImplementsProtocol
<1>1. Init => Protocol!Init
  BY DEF Init, NoTracker, Protocol!Init
<1>2. TouchInv /\ TouchInv' /\ [Next]_vars
      => [Protocol!Touch]_<<reported, panel.tracker.nextId>>
  <2> SUFFICES ASSUME TouchInv, TouchInv', [Next]_vars
               PROVE  Protocol!Touch \/ UNCHANGED <<reported, panel.tracker.nextId>>
    OBVIOUS
  <2>1. CASE Move \/ Button \/ Wheel
    BY <2>1, KernelSteps DEF TouchInv, call
  <2>2. CASE GetEvent
    <3>1. ToldTouch
      BY <2>2, GetEventStep
    <3>2. PICK n \in 0 .. 1 : \E up : /\ panel'.tracker.nextId = panel.tracker.nextId + n
                                     /\ Swaps(reported, reported', up, n, panel.tracker.nextId)
      BY <3>1, Zenon DEF ToldTouch
    <3>3. PICK up : /\ panel'.tracker.nextId = panel.tracker.nextId + n
                    /\ Swaps(reported, reported', up, n, panel.tracker.nextId)
      BY <3>2
    <3>4. /\ up \in SUBSET reported
          /\ reported' = (reported \ up) \cup
                         (panel.tracker.nextId .. panel.tracker.nextId + n - 1)
      BY <3>3 DEF Swaps
    <3>5. /\ GoodTracker(panel'.tracker, Screen, {1}) /\ Len(panel'.tracker.live) <= 1
          /\ reported' = Ids(panel'.tracker.live)
      BY DEF TouchInv, PanelInv, GoodPanel
    <3>6. Protocol!Cardinality(reported') <= 1
      <4>1. Cardinality(reported') <= 1
        BY <3>5, IdsCount
      <4>2. Protocol!Cardinality(reported') = Cardinality(reported')
        BY Zenon DEF Protocol!Cardinality, Cardinality
      <4> QED  BY <4>1, <4>2
    <3> QED  BY <3>3, <3>4, <3>6, Zenon DEF Protocol!Touch
  <2>3. CASE Open
    BY <2>3, OpenStep
  <2>4. CASE Close
    BY <2>4, CloseStep
  <2>5. CASE UNCHANGED vars
    BY <2>5 DEF vars, call
  <2> QED  BY <2>1, <2>2, <2>3, <2>4, <2>5 DEF Next
<1> QED  BY <1>1, <1>2, TouchInvariant, PTL DEF Spec, ImplementsProtocol, Protocol!Spec
=============================================================================
