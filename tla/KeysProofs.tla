----------------------------- MODULE KeysProofs -----------------------------
(***************************************************************************)
(* Proofs about the Keys module, for every set of keys, every length of    *)
(* raw_events and of the kernel's buffer.                                  *)
(***************************************************************************)
EXTENDS Keys, NaturalsInduction, WellFoundedInduction, TLAPS

(* A set of naturals that is not empty has a least element.                *)
LEMMA LeastExists ==
  ASSUME NEW S, S \subseteq Nat, S # {}
  PROVE  \E m \in S : \A n \in S : m <= n
<1>1. \A m, n \in Nat : n < m => <<n, m>> \in OpToRel(<, Nat)
  BY SMT DEF OpToRel
<1>2. \E m \in S : \A n \in S : ~(<<n, m>> \in OpToRel(<, Nat))
  BY WFMin, NatLessThanWellFounded, Zenon
<1>3. PICK m \in S : \A n \in S : ~(<<n, m>> \in OpToRel(<, Nat))
  BY <1>2, Zenon
<1>4. \A n \in S : ~(n < m)
  BY <1>1, <1>3, Zenon
<1> QED  BY <1>4

(* Induction, with a set for the property.                                 *)
LEMMA Induction ==
  ASSUME NEW S, 0 \in S, \A n \in Nat : n \in S => n + 1 \in S
  PROVE  Nat \subseteq S
<1> SUFFICES ASSUME Nat \ S # {} PROVE FALSE
  OBVIOUS
<1>1. PICK m \in Nat \ S : \A n \in Nat \ S : m <= n
  BY LeastExists
<1>2. m - 1 \in Nat /\ m - 1 \in S
  BY <1>1
<1> QED  BY <1>1, <1>2

-----------------------------------------------------------------------------
(* The function that ReportsOf defines, and its step.                      *)
Tell(before, raw) == IF raw = SYN THEN before ELSE Append(before, Report(raw))

Run(events, f, m) ==
  /\ f = [n \in 0 .. m |-> f[n]] /\ f[0] = <<>>
  /\ \A n \in 1 .. m : f[n] = Tell(f[n - 1], events[n])

LEMMA RunExists ==
  ASSUME NEW events, NEW m \in Nat
  PROVE  \E f : Run(events, f, m)
<1> DEFINE S == {k \in Nat : \E f : Run(events, f, k)}
<1>1. 0 \in S
  <2>1. Run(events, [n \in 0 .. 0 |-> <<>>], 0)
    BY DEF Run
  <2> QED  BY <2>1
<1>2. ASSUME NEW k \in Nat, k \in S PROVE k + 1 \in S
  <2>1. PICK f : Run(events, f, k)
    BY <1>2
  <2> DEFINE g == [n \in 0 .. k + 1 |-> IF n = k + 1 THEN Tell(f[k], events[k + 1]) ELSE f[n]]
  <2>2. g = [n \in 0 .. k + 1 |-> g[n]] /\ g[0] = <<>>
    BY <2>1 DEF Run
  <2>3. ASSUME NEW n \in 1 .. k + 1 PROVE g[n] = Tell(g[n - 1], events[n])
    BY <2>1 DEF Run
  <2> HIDE DEF g
  <2>4. Run(events, g, k + 1)
    BY <2>2, <2>3 DEF Run
  <2> QED  BY <2>4
<1> HIDE DEF S
<1>3. Nat \subseteq S
  BY <1>1, <1>2, Induction
<1> QED  BY <1>3 DEF S

Upto(events) ==
  CHOOSE f : f = [n \in 0 .. Len(events) |->
                    IF n = 0 THEN <<>>
                    ELSE IF events[n] = SYN THEN f[n - 1]
                         ELSE Append(f[n - 1], Report(events[n]))]

LEMMA UptoIs ==
  ASSUME NEW events \in Seq(Raws)
  PROVE  Run(events, Upto(events), Len(events)) /\ ReportsOf(events) = Upto(events)[Len(events)]
<1>0. Len(events) \in Nat
  OBVIOUS
<1>1. PICK f : Run(events, f, Len(events))
  BY <1>0, RunExists
<1>2. f = [n \in 0 .. Len(events) |->
                    IF n = 0 THEN <<>>
                    ELSE IF events[n] = SYN THEN f[n - 1]
                         ELSE Append(f[n - 1], Report(events[n]))]
  BY <1>1 DEF Run, Tell
<1> DEFINE g == Upto(events)
<1>3. g = [n \in 0 .. Len(events) |->
                    IF n = 0 THEN <<>>
                    ELSE IF events[n] = SYN THEN g[n - 1]
                         ELSE Append(g[n - 1], Report(events[n]))]
  BY <1>2, Zenon DEF Upto
<1> HIDE DEF g
<1>4. Run(events, g, Len(events))
  <2>1. g = [n \in 0 .. Len(events) |-> g[n]]
    BY <1>3
  <2>2. g[0] = <<>>
    BY <1>0, <1>3
  <2>3. ASSUME NEW n \in 1 .. Len(events)
        PROVE  g[n] = IF events[n] = SYN THEN g[n - 1]
                      ELSE Append(g[n - 1], Report(events[n]))
    <3>1. n \in 0 .. Len(events) /\ n # 0
      BY <1>0
    <3> QED  BY <1>3, <3>1, Zenon
  <2> QED  BY <2>1, <2>2, <2>3 DEF Run, Tell
<1>5. ReportsOf(events) = g[Len(events)]
  BY DEF ReportsOf, Upto, g
<1> QED  BY <1>4, <1>5 DEF g
-----------------------------------------------------------------------------
LEMMA UptoEqs ==
  ASSUME NEW events \in Seq(Raws)
  PROVE  /\ Upto(events)[0] = <<>>
         /\ \A n \in 1 .. Len(events) :
              Upto(events)[n] = Tell(Upto(events)[n - 1], events[n])
         /\ ReportsOf(events) = Upto(events)[Len(events)]
  BY UptoIs DEF Run

LEMMA ReportTyped ==
  ASSUME NEW raw \in Raws, raw # SYN
  PROVE  Report(raw) \in Reports /\ \E c \in KeyCodes, v \in 0 .. 2 : raw = Raw(c, v)
<1>1. PICK c \in KeyCodes, v \in 0 .. 2 : raw = Raw(c, v)
  BY DEF Raws
<1>2. raw[1] = [code |-> c, value |-> v]
  BY <1>1 DEF Raw
<1> QED  BY <1>1, <1>2 DEF Report, Reports

(* The reports of a sequence are reports; no raw event is told of twice.   *)
LEMMA ReportsTyped ==
  ASSUME NEW events \in Seq(Raws)
  PROVE  /\ \A n \in 0 .. Len(events) : Upto(events)[n] \in Seq(Reports)
         /\ ReportsOf(events) \in Seq(Reports)
<1> DEFINE S == {n \in Nat : n <= Len(events) => Upto(events)[n] \in Seq(Reports)}
<1>1. 0 \in S
  <2>1. Upto(events)[0] = <<>>
    BY UptoEqs
  <2>2. <<>> \in Seq(Reports)
    OBVIOUS
  <2> QED  BY <2>1, <2>2
<1>2. ASSUME NEW n \in Nat, n \in S PROVE n + 1 \in S
  <2>1. SUFFICES ASSUME n + 1 <= Len(events) PROVE Upto(events)[n + 1] \in Seq(Reports)
    OBVIOUS
  <2>2. Upto(events)[n] \in Seq(Reports) /\ n + 1 \in 1 .. Len(events)
    BY <1>2, <2>1
  <2>3. Upto(events)[n + 1] = Tell(Upto(events)[n], events[n + 1])
    BY <2>2, UptoEqs
  <2>4. events[n + 1] \in Raws
    BY <2>2
  <2> QED  BY <2>2, <2>3, <2>4, ReportTyped DEF Tell
<1> HIDE DEF S
<1>3. Nat \subseteq S
  BY <1>1, <1>2, Induction
<1>4. Len(events) \in Nat
  OBVIOUS
<1>5. \A n \in 0 .. Len(events) : Upto(events)[n] \in Seq(Reports)
  BY <1>3, <1>4 DEF S
<1> QED  BY <1>4, <1>5, UptoEqs

LEMMA AppendConcat ==
  ASSUME NEW s \in Seq(Reports), NEW t \in Seq(Reports), NEW x \in Reports
  PROVE  Append(s \o t, x) = s \o Append(t, x)
<1> DEFINE u == Append(s \o t, x)  v == s \o Append(t, x)
<1>1. u \in Seq(Reports) /\ v \in Seq(Reports) /\ Len(u) = Len(s) + Len(t) + 1 /\ Len(v) = Len(u)
  OBVIOUS
<1>2. ASSUME NEW i \in 1 .. Len(u) PROVE u[i] = v[i]
  <2>1. CASE i \in 1 .. Len(s)
    BY <1>1, <2>1
  <2>2. CASE i \in Len(s) + 1 .. Len(s) + Len(t)
    BY <1>1, <2>2
  <2>3. CASE i = Len(s) + Len(t) + 1
    BY <1>1, <2>3
  <2>4. Len(s) \in Nat /\ Len(t) \in Nat
    OBVIOUS
  <2> QED  BY <1>1, <2>1, <2>2, <2>3, <2>4
<1> HIDE DEF u, v
<1>3. u = v
  BY <1>1, <1>2
<1> QED  BY <1>3 DEF u, v

(* What follows a sequence is told after it.                               *)
LEMMA ReportsConcat ==
  ASSUME NEW s \in Seq(Raws), NEW t \in Seq(Raws)
  PROVE  ReportsOf(s \o t) = ReportsOf(s) \o ReportsOf(t)
<1> DEFINE st == s \o t
           S == {n \in Nat : n <= Len(s) => Upto(st)[n] = Upto(s)[n]}
           T == {n \in Nat : n <= Len(t) =>
                               Upto(st)[Len(s) + n] = ReportsOf(s) \o Upto(t)[n]}
<1>1. /\ st \in Seq(Raws) /\ Len(st) = Len(s) + Len(t)
      /\ \A n \in 1 .. Len(s) : st[n] = s[n]
      /\ \A n \in 1 .. Len(t) : st[Len(s) + n] = t[n]
      /\ Len(s) \in Nat /\ Len(t) \in Nat
  OBVIOUS
<1> HIDE DEF st
<1>2. 0 \in S
  BY <1>1, UptoEqs
<1>3. ASSUME NEW n \in Nat, n \in S PROVE n + 1 \in S
  <2>1. SUFFICES ASSUME n + 1 <= Len(s) PROVE Upto(st)[n + 1] = Upto(s)[n + 1]
    OBVIOUS
  <2>2. Upto(st)[n] = Upto(s)[n] /\ n + 1 \in 1 .. Len(s) /\ n + 1 \in 1 .. Len(st)
    BY <1>1, <1>3, <2>1
  <2>3. /\ Upto(st)[n + 1] = Tell(Upto(st)[n], st[n + 1])
        /\ Upto(s)[n + 1] = Tell(Upto(s)[n], s[n + 1])
    BY <1>1, <2>2, UptoEqs
  <2> QED  BY <1>1, <2>2, <2>3
<1>4. Upto(st)[Len(s)] = ReportsOf(s)
  <2>1. Nat \subseteq S
    BY <1>2, <1>3, Induction
  <2> QED  BY <1>1, <2>1, UptoEqs
<1>5. 0 \in T
  BY <1>1, <1>4, UptoEqs, ReportsTyped
<1>6. ASSUME NEW n \in Nat, n \in T PROVE n + 1 \in T
  <2>1. SUFFICES ASSUME n + 1 <= Len(t)
                 PROVE  Upto(st)[Len(s) + (n + 1)] = ReportsOf(s) \o Upto(t)[n + 1]
    OBVIOUS
  <2>2. /\ Upto(st)[Len(s) + n] = ReportsOf(s) \o Upto(t)[n]
        /\ n + 1 \in 1 .. Len(t) /\ Len(s) + n + 1 \in 1 .. Len(st)
        /\ n \in 0 .. Len(t)
    BY <1>1, <1>6, <2>1
  <2>3. /\ Upto(st)[Len(s) + n + 1] = Tell(Upto(st)[Len(s) + n], t[n + 1])
        /\ Upto(t)[n + 1] = Tell(Upto(t)[n], t[n + 1])
    <3>1. /\ Upto(st)[Len(s) + n + 1] = Tell(Upto(st)[(Len(s) + n + 1) - 1], st[Len(s) + n + 1])
          /\ Upto(t)[n + 1] = Tell(Upto(t)[(n + 1) - 1], t[n + 1])
      BY <1>1, <2>2, UptoEqs, Zenon
    <3>2. (Len(s) + n + 1) - 1 = Len(s) + n /\ (n + 1) - 1 = n /\ st[Len(s) + n + 1] = t[n + 1]
      BY <1>1, <2>2
    <3> QED  BY <3>1, <3>2
  <2>4. /\ ReportsOf(s) \in Seq(Reports) /\ Upto(t)[n] \in Seq(Reports)
        /\ t[n + 1] # SYN => Report(t[n + 1]) \in Reports
    BY <2>2, ReportsTyped, ReportTyped
  <2>5. Tell(ReportsOf(s) \o Upto(t)[n], t[n + 1]) = ReportsOf(s) \o Tell(Upto(t)[n], t[n + 1])
    <3>1. CASE t[n + 1] = SYN
      BY <3>1 DEF Tell
    <3>2. CASE t[n + 1] # SYN
      <4>1. Append(ReportsOf(s) \o Upto(t)[n], Report(t[n + 1]))
              = ReportsOf(s) \o Append(Upto(t)[n], Report(t[n + 1]))
        <5>2. /\ ReportsOf(s) \in Seq(Reports) /\ Upto(t)[n] \in Seq(Reports)
              /\ Report(t[n + 1]) \in Reports
          BY <2>4, <3>2
        <5> QED  BY <5>2, AppendConcat
      <4> QED  BY <3>2, <4>1 DEF Tell
    <3> QED  BY <3>1, <3>2
  <2> QED  BY <1>1, <2>2, <2>3, <2>5
<1>7. Nat \subseteq T
  BY <1>5, <1>6, Induction
<1>8. Upto(st)[Len(s) + Len(t)] = ReportsOf(s) \o Upto(t)[Len(t)]
  BY <1>1, <1>7
<1>9. ReportsOf(st) = Upto(st)[Len(st)] /\ ReportsOf(t) = Upto(t)[Len(t)]
  BY <1>1, UptoEqs
<1> QED  BY <1>1, <1>8, <1>9 DEF st

(* Ends of frames bring no report; one key brings one.                     *)
LEMMA ReportsSilent ==
  ASSUME NEW events \in Seq(Raws), Readable(events) = {}
  PROVE  ReportsOf(events) = <<>>
<1> DEFINE S == {n \in Nat : n <= Len(events) => Upto(events)[n] = <<>>}
<1>1. 0 \in S
  BY UptoEqs
<1>2. ASSUME NEW n \in Nat, n \in S PROVE n + 1 \in S
  <2>1. SUFFICES ASSUME n + 1 <= Len(events) PROVE Upto(events)[n + 1] = <<>>
    OBVIOUS
  <2>2. n + 1 \in 1 .. Len(events) /\ Upto(events)[n] = <<>>
    BY <1>2, <2>1
  <2>3. Upto(events)[n + 1] = Tell(Upto(events)[n], events[n + 1])
    BY <2>2, UptoEqs
  <2>4. events[n + 1] = SYN
    BY <2>2 DEF Readable
  <2> QED  BY <2>2, <2>3, <2>4 DEF Tell
<1>3. Nat \subseteq S
  BY <1>1, <1>2, Induction
<1> QED  BY <1>3, UptoEqs

LEMMA ReportsOfOne ==
  ASSUME NEW raw \in Raws, raw # SYN
  PROVE  ReportsOf(<<raw>>) = <<Report(raw)>>
<1> DEFINE one == <<raw>>
<1>1. one \in Seq(Raws) /\ Len(one) = 1 /\ one[1] = raw
  OBVIOUS
<1> HIDE DEF one
<1>2. Upto(one)[1] = Tell(<<>>, raw)
  <2>1. 1 \in 1 .. Len(one) /\ 1 - 1 = 0
    BY <1>1
  <2>2. Upto(one)[1] = Tell(Upto(one)[1 - 1], one[1]) /\ Upto(one)[0] = <<>>
    BY <1>1, <2>1, UptoEqs, Zenon
  <2> QED  BY <1>1, <2>1, <2>2
<1>3. ReportsOf(one) = Append(<<>>, Report(raw))
  BY <1>1, <1>2, UptoEqs DEF Tell
<1> QED  BY <1>3 DEF one

-----------------------------------------------------------------------------
(* A sequence is what was taken from its front and the rest.               *)
LEMMA Cut ==
  ASSUME NEW A, NEW s \in Seq(A), NEW k \in 0 .. Len(s)
  PROVE  /\ SubSeq(s, 1, k) \in Seq(A) /\ Len(SubSeq(s, 1, k)) = k
         /\ \A j \in 1 .. k : SubSeq(s, 1, k)[j] = s[j]
         /\ Rest(s, k) \in Seq(A) /\ Len(Rest(s, k)) = Len(s) - k
         /\ s = SubSeq(s, 1, k) \o Rest(s, k)
<1> DEFINE a == SubSeq(s, 1, k)  b == Rest(s, k)
<1>1. a \in Seq(A) /\ Len(a) = k /\ \A j \in 1 .. k : a[j] = s[j]
  OBVIOUS
<1>2. b \in Seq(A) /\ Len(b) = Len(s) - k /\ \A j \in 1 .. Len(s) - k : b[j] = s[k + j]
  BY DEF Rest
<1>3. ASSUME NEW j \in 1 .. Len(s) PROVE s[j] = (a \o b)[j]
  <2>1. CASE j <= k
    BY <1>1, <1>2, <2>1
  <2>2. CASE j > k
    <3>1. j - k \in 1 .. Len(b) /\ Len(a) + (j - k) = j
      BY <1>1, <1>2, <2>2
    <3>2. (a \o b)[j] = b[j - k]
      BY <1>1, <1>2, <2>2, <3>1
    <3> QED  BY <1>2, <3>1, <3>2
  <2>3. k \in Nat /\ j \in Nat
    OBVIOUS
  <2>4. j <= k \/ j > k
    BY <2>3
  <2> QED  BY <2>1, <2>2, <2>4, Zenon
<1> HIDE DEF a, b
<1> DEFINE c == a \o b
<1>4. c \in Seq(A) /\ Len(c) = Len(s)
  BY <1>1, <1>2
<1>5. \A j \in 1 .. Len(s) : s[j] = c[j]
  BY <1>3
<1> HIDE DEF c
<1>6. s = c
  BY <1>4, <1>5
<1> QED  BY <1>1, <1>2, <1>6 DEF a, b, c

LEMMA ConcatFacts ==
  ASSUME NEW A, NEW s \in Seq(A), NEW t \in Seq(A)
  PROVE  /\ s \o t \in Seq(A) /\ Len(s \o t) = Len(s) + Len(t)
         /\ \A i \in 1 .. Len(s) : (s \o t)[i] = s[i]
         /\ \A i \in 1 .. Len(t) : (s \o t)[Len(s) + i] = t[i]
         /\ Len(s) \in Nat /\ Len(t) \in Nat
  OBVIOUS

LEMMA ConcatAssoc ==
  ASSUME NEW A, NEW s \in Seq(A), NEW t \in Seq(A), NEW u \in Seq(A)
  PROVE  (s \o t) \o u = s \o (t \o u)
<1> DEFINE a == (s \o t) \o u  b == s \o (t \o u)
<1>1. a \in Seq(A) /\ b \in Seq(A) /\ Len(a) = Len(s) + Len(t) + Len(u) /\ Len(b) = Len(a)
  OBVIOUS
<1>2. ASSUME NEW i \in 1 .. Len(a) PROVE a[i] = b[i]
  <2>1. CASE i \in 1 .. Len(s)
    BY <1>1, <2>1
  <2>2. CASE i \in Len(s) + 1 .. Len(s) + Len(t)
    BY <1>1, <2>2
  <2>3. CASE i \in Len(s) + Len(t) + 1 .. Len(s) + Len(t) + Len(u)
    BY <1>1, <2>3
  <2>4. Len(s) \in Nat /\ Len(t) \in Nat /\ Len(u) \in Nat
    OBVIOUS
  <2> QED  BY <1>1, <2>1, <2>2, <2>3, <2>4
<1> HIDE DEF a, b
<1>3. a = b
  BY <1>1, <1>2
<1> QED  BY <1>3 DEF a, b

LEMMA AppendTwo ==
  ASSUME NEW A, NEW x \in A, NEW y \in A
  PROVE  Append(<<x, y>>, x) = <<x, y, x>>
<1> DEFINE two == <<x, y>>  a == Append(two, x)  three == <<x, y, x>>
<1>1. two \in Seq(A) /\ Len(two) = 2 /\ two[1] = x /\ two[2] = y
  OBVIOUS
<1>2. /\ three \in Seq(A) /\ Len(three) = 3
      /\ three[1] = x /\ three[2] = y /\ three[3] = x
  OBVIOUS
<1> HIDE DEF two, three
<1>a. /\ a \in Seq(A) /\ Len(a) = Len(two) + 1 /\ a[Len(two) + 1] = x
      /\ \A i \in 1 .. Len(two) : a[i] = two[i]
  <2>1. two \in Seq(A)
    BY <1>1
  <2> QED  BY <2>1
<1> HIDE DEF a
<1>3. /\ a \in Seq(A) /\ Len(a) = 3 /\ a[3] = x
      /\ \A i \in 1 .. Len(two) : a[i] = two[i]
  BY <1>1, <1>a
<1>4. \A i \in 1 .. 3 : a[i] = three[i]
  BY <1>1, <1>2, <1>3
<1>5. a = three
  BY <1>2, <1>3, <1>4
<1> QED  BY <1>5 DEF a, two, three

LEMMA MinIs ==
  ASSUME NEW S, S \subseteq Nat, S # {}
  PROVE  Min(S) \in S /\ \A n \in S : Min(S) <= n
<1>1. \E m \in S : \A n \in S : m <= n
  BY LeastExists
<1> QED  BY <1>1, Zenon DEF Min

-----------------------------------------------------------------------------
(* All the raw events to be looked at yet, in their order.                 *)
All == batch \o kernel

(* What keys_get_event takes off their front: ends of frames, and then at  *)
(* most one key.                                                           *)
Took(taken) ==
  /\ taken \in Seq(Raws) /\ All = taken \o All'
  /\ \/ Readable(taken) = {} /\ UNCHANGED <<pressed, told>>
     \/ LET last == taken[Len(taken)]
            r == Report(last)
        IN  /\ Readable(taken) = {Len(taken)} /\ taken # <<>> /\ last # SYN
            /\ told' = <<r>>
            /\ pressed' = IF r.is_press THEN pressed \cup {r.key} ELSE pressed \ {r.key}

LEMMA BatchFacts ==
  ASSUME TypeOK, NEW events, NEW kern,
         events = IF batch = <<>> THEN ReadBatch ELSE batch,
         kern = IF batch = <<>> THEN Rest(kernel, Len(events)) ELSE kernel
  PROVE  /\ events \in Seq(Raws) /\ Len(events) <= MAX_EVENTS
         /\ kern \in Seq(Raws) /\ Len(kern) <= Len(kernel)
         /\ All = events \o kern
<1>0. kernel \in Seq(Raws) /\ batch \in Seq(Raws) /\ Len(kernel) \in Nat
  BY DEF TypeOK
<1>1. CASE batch = <<>>
  <2> DEFINE n == Min({MAX_EVENTS, Len(kernel)})
  <2>1. n \in 0 .. Len(kernel) /\ n <= MAX_EVENTS
    <3>1. {MAX_EVENTS, Len(kernel)} \subseteq Nat
      BY <1>0, BatchAssumption
    <3>2. n \in {MAX_EVENTS, Len(kernel)} /\ n <= MAX_EVENTS /\ n <= Len(kernel)
      BY <3>1, MinIs
    <3> QED  BY <3>1, <3>2
  <2>2. events = SubSeq(kernel, 1, n) /\ kern = Rest(kernel, Len(events))
    BY <1>1 DEF ReadBatch
  <2> HIDE DEF n
  <2>3. /\ SubSeq(kernel, 1, n) \in Seq(Raws) /\ Len(SubSeq(kernel, 1, n)) = n
        /\ Rest(kernel, n) \in Seq(Raws) /\ Len(Rest(kernel, n)) = Len(kernel) - n
        /\ kernel = SubSeq(kernel, 1, n) \o Rest(kernel, n)
    BY <1>0, <2>1, Cut
  <2>4. All = kernel
    BY <1>0, <1>1 DEF All
  <2>5. Len(events) = n /\ kern = Rest(kernel, n)
    BY <2>2, <2>3
  <2>6. All = events \o kern
    BY <2>2, <2>3, <2>4, <2>5
  <2>7. Len(kern) <= Len(kernel) /\ Len(events) <= MAX_EVENTS
    BY <1>0, <2>1, <2>3, <2>5
  <2>8. events \in Seq(Raws) /\ kern \in Seq(Raws)
    BY <2>2, <2>3, <2>5
  <2> QED  BY <2>6, <2>7, <2>8, Zenon
<1>2. CASE batch # <<>>
  BY <1>0, <1>2, BatchAssumption DEF All, TypeOK
<1> QED  BY <1>1, <1>2

LEMMA GetEventFacts ==
  ASSUME TypeOK, GetEvent
  PROVE  /\ \E taken : Took(taken)
         /\ batch' \in Seq(Raws) /\ Len(batch') < MAX_EVENTS
         /\ kernel' \in Seq(Raws) /\ Len(kernel') <= Len(kernel)
         /\ held' \in BOOLEAN /\ (batch' # <<>> => ~held')
         /\ client' \in {"asleep", "reading"} /\ pressed' \subseteq KeyCodes
         /\ told' = <<>> \/ told'[1] \in Reports
<1> DEFINE events == IF batch = <<>> THEN ReadBatch ELSE batch
<1>1. kernel' = IF batch = <<>> THEN Rest(kernel, Len(events)) ELSE kernel
  BY DEF GetEvent
<1>a. events = IF batch = <<>> THEN ReadBatch ELSE batch
  OBVIOUS
<1>b. /\ Readable(events) = {} =>
           batch' = <<>> /\ held' = TRUE /\ client' = "asleep" /\ UNCHANGED <<pressed, told>>
      /\ Readable(events) # {} =>
           LET i == Min(Readable(events))
               r == Report(events[i])
           IN  /\ batch' = Rest(events, i) /\ held' = FALSE /\ told' = <<r>>
               /\ pressed' = IF r.is_press THEN pressed \cup {r.key} ELSE pressed \ {r.key}
               /\ UNCHANGED client
  BY DEF GetEvent
<1> HIDE DEF events
<1>c. /\ events \in Seq(Raws) /\ Len(events) <= MAX_EVENTS
      /\ kernel' \in Seq(Raws) /\ Len(kernel') <= Len(kernel)
      /\ All = events \o kernel'
  BY <1>1, <1>a, BatchFacts, Zenon
<1>2. /\ events \in Seq(Raws) /\ Len(events) <= MAX_EVENTS /\ Len(events) \in Nat
      /\ kernel' \in Seq(Raws) /\ Len(kernel') <= Len(kernel)
      /\ All = events \o kernel'
  BY <1>c
<1>3. CASE Readable(events) = {}
  <2>1. batch' = <<>> /\ held' = TRUE /\ client' = "asleep" /\ UNCHANGED <<pressed, told>>
    BY <1>3, <1>b
  <2>2. All' = kernel'
    BY <1>2, <2>1 DEF All
  <2>3. Took(events)
    BY <1>2, <1>3, <2>1, <2>2 DEF Took
  <2> QED  BY <1>2, <2>1, <2>3, BatchAssumption DEF TypeOK
<1>4. CASE Readable(events) # {}
  <2> DEFINE i == Min(Readable(events))
             r == Report(events[i])
             taken == SubSeq(events, 1, i)
  <2>1. /\ batch' = Rest(events, i) /\ held' = FALSE /\ told' = <<r>>
        /\ pressed' = IF r.is_press THEN pressed \cup {r.key} ELSE pressed \ {r.key}
        /\ UNCHANGED client
    BY <1>4, <1>b
  <2>2. /\ i \in 1 .. Len(events) /\ events[i] # SYN
        /\ \A j \in 1 .. Len(events) : events[j] # SYN => i <= j
    <3>1. Readable(events) \subseteq Nat
      BY DEF Readable
    <3>2. i \in Readable(events) /\ \A j \in Readable(events) : i <= j
      BY <1>4, <3>1, MinIs
    <3> QED  BY <3>2 DEF Readable
  <2>3. r \in Reports
    BY <1>2, <2>2, ReportTyped
  <2> HIDE DEF i, r
  <2>4. /\ taken \in Seq(Raws) /\ Len(taken) = i /\ \A j \in 1 .. i : taken[j] = events[j]
        /\ Rest(events, i) \in Seq(Raws) /\ Len(Rest(events, i)) = Len(events) - i
        /\ events = taken \o Rest(events, i)
    <3>1. i \in 0 .. Len(events)
      BY <2>2
    <3> QED  BY <1>2, <3>1, Cut
  <2> HIDE DEF taken
  <2>5. All = taken \o All'
    <3>1. All = (taken \o batch') \o kernel'
      BY <1>2, <2>1, <2>4
    <3>2. batch' \in Seq(Raws)
      BY <2>1, <2>4
    <3>3. (taken \o batch') \o kernel' = taken \o (batch' \o kernel')
      <4>1. taken \in Seq(Raws) /\ kernel' \in Seq(Raws)
        BY <1>2, <2>4
      <4> QED  BY <3>2, <4>1, ConcatAssoc
    <3>4. All' = batch' \o kernel'
      BY DEF All
    <3> QED  BY <3>1, <3>3, <3>4, Zenon
  <2>6. Readable(taken) = {i}
    BY <1>2, <2>2, <2>4 DEF Readable
  <2>7. Took(taken)
    <3>1. taken[Len(taken)] = events[i] /\ taken # <<>> /\ Readable(taken) = {Len(taken)}
      BY <1>2, <2>2, <2>4, <2>6
    <3>2. Report(taken[Len(taken)]) = r /\ taken[Len(taken)] # SYN
      BY <2>2, <3>1 DEF r
    <3> QED  BY <2>1, <2>4, <2>5, <3>1, <3>2, Zenon DEF Took
  <2>8. pressed' \subseteq KeyCodes
    BY <2>1, <2>3 DEF TypeOK, Reports
  <2>9. /\ Len(batch') < MAX_EVENTS /\ batch' \in Seq(Raws)
        /\ held' \in BOOLEAN /\ ~held' /\ client' \in {"asleep", "reading"}
    <3>1. Len(batch') = Len(events) - i /\ batch' \in Seq(Raws)
      BY <2>1, <2>4
    <3>2. Len(events) - i < MAX_EVENTS
      BY <1>2, <2>2, BatchAssumption
    <3> QED  BY <2>1, <3>1, <3>2 DEF TypeOK
  <2>10. told'[1] \in Reports
    BY <2>1, <2>3
  <2> QED  BY <1>2, <2>7, <2>8, <2>9, <2>10, Zenon
<1> QED  BY <1>3, <1>4
-----------------------------------------------------------------------------
LEMMA EmptyFits == <<>> \in Seq(Raws) /\ Len(<<>>) < QueueSize /\ Len(<<>>) < MAX_EVENTS
  BY BatchAssumption, QueueAssumption

LEMMA TypeInit == Init => TypeOK
<1> SUFFICES ASSUME Init PROVE TypeOK
  OBVIOUS
<1>1. kernel = <<>> /\ batch = <<>> /\ told = <<>>
  BY DEF Init
<1>2. kernel \in Seq(Raws) /\ batch \in Seq(Raws) /\ Len(kernel) < QueueSize /\ Len(batch) < MAX_EVENTS
  BY <1>1, EmptyFits
<1> QED  BY <1>1, <1>2 DEF Init, TypeOK

LEMMA RawFrame ==
  ASSUME NEW code \in KeyCodes, NEW value \in 0 .. 2
  PROVE  /\ Raw(code, value) \in Raws /\ SYN \in Raws /\ Raw(code, value) # SYN
         /\ Raw(code, value)[1] = [code |-> code, value |-> value]
         /\ <<Raw(code, value), SYN>> \in Seq(Raws)
<1>1. Raw(code, value) \in Raws /\ SYN \in Raws
  BY DEF Raws
<1>2. Raw(code, value) # SYN /\ Raw(code, value)[1] = [code |-> code, value |-> value]
  BY DEF Raw, SYN
<1> HIDE DEF Raw
<1> QED  BY <1>1, <1>2

LEMMA RawCodes ==
  ASSUME NEW code \in KeyCodes, NEW value \in 0 .. 2
  PROVE  /\ Codes(<<>>) = {} /\ Codes(<<SYN, SYN>>) = {}
         /\ Codes(<<Raw(code, value), SYN>>) = {code}
         /\ Codes(<<SYN, Raw(code, value), SYN>>) = {code}
<1> DEFINE raw == Raw(code, value)
<1>0. raw # SYN /\ raw[1] = [code |-> code, value |-> value]
  BY RawFrame
<1>1. raw # SYN /\ raw[1].code = code
  BY <1>0
<1> HIDE DEF raw
<1>2. Readable(<<>>) = {} /\ Readable(<<SYN, SYN>>) = {}
  BY DEF Readable
<1>3. Readable(<<raw, SYN>>) = {1} /\ Readable(<<SYN, raw, SYN>>) = {2}
  BY <1>1 DEF Readable
<1> QED  BY <1>1, <1>2, <1>3 DEF Codes, raw

(* A key moves while the device is open: its frame is queued; or what is   *)
(* in the kernel's buffer is dropped, with the move itself or without it.  *)
Queued(raw)  == Len(kernel) + 2 < QueueSize /\ kernel' = kernel \o <<raw, SYN>>
Dropped(raw) ==
  /\ Len(kernel) + 2 >= QueueSize
  /\ kernel' = <<SYN, raw, SYN>> \/ kernel' = <<SYN, SYN>>

LEMMA KeyFacts ==
  ASSUME TypeOK, NEW code \in KeyCodes, Key(code)
  PROVE  \E value \in 0 .. 2 :
           /\ down' = IF value = 0 THEN down \ {code} ELSE down \cup {code}
           /\ device = "open" =>
                /\ Queued(Raw(code, value)) \/ Dropped(Raw(code, value))
                /\ kernel' \in Seq(Raws) /\ Len(kernel') < QueueSize
                /\ touched' = (touched \cup {code})
                               \ ((Codes(kernel) \cup {code}) \ Codes(kernel'))
           /\ device # "open" => UNCHANGED <<kernel, touched>>
           /\ UNCHANGED <<device, batch, held, client, pressed, told>>
<1>1. PICK value \in IF code \in down THEN {0, 2} ELSE {1} :
        /\ down' = IF value = 0 THEN down \ {code} ELSE down \cup {code}
        /\ IF device = "open"
           THEN /\ kernel' = Push(Push(kernel, Raw(code, value)), SYN)
                /\ touched' = (touched \cup {code})
                               \ ((Codes(kernel) \cup {code}) \ Codes(kernel'))
           ELSE UNCHANGED <<kernel, touched>>
        /\ UNCHANGED <<device, batch, held, client, pressed, told>>
  BY DEF Key
<1>2. value \in 0 .. 2
  BY <1>1
<1>3. ASSUME device = "open"
      PROVE  /\ Queued(Raw(code, value)) \/ Dropped(Raw(code, value))
             /\ kernel' \in Seq(Raws) /\ Len(kernel') < QueueSize
  <2> DEFINE raw == Raw(code, value)
  <2>1. raw \in Raws /\ SYN \in Raws
    BY <1>2, RawFrame
  <2>2. kernel' = Push(Push(kernel, raw), SYN)
    BY <1>1, <1>3
  <2> HIDE DEF raw
  <2>3. kernel \in Seq(Raws) /\ Len(kernel) \in Nat /\ Len(kernel) < QueueSize
    BY DEF TypeOK
  <2>4. CASE Len(kernel) + 1 = QueueSize
    <3>1. Push(kernel, raw) = <<SYN, raw>>
      BY <2>4 DEF Push
    <3>2. kernel' = Push(<<SYN, raw>>, SYN)
      BY <2>2, <3>1
    <3>a. <<SYN, raw>> \in Seq(Raws) /\ Len(<<SYN, raw>>) = 2
      BY <2>1
    <3>b. Push(<<SYN, raw>>, SYN) = Append(<<SYN, raw>>, SYN)
      BY <3>a, QueueAssumption DEF Push
    <3>c. Append(<<SYN, raw>>, SYN) = <<SYN, raw, SYN>>
      BY <2>1, AppendTwo
    <3>3. kernel' = <<SYN, raw, SYN>>
      BY <3>2, <3>b, <3>c
    <3>4. <<SYN, raw, SYN>> \in Seq(Raws) /\ Len(<<SYN, raw, SYN>>) = 3
      BY <2>1
    <3>5. Dropped(raw)
      BY <2>3, <2>4, <3>3, QueueAssumption DEF Dropped
    <3>6. kernel' \in Seq(Raws) /\ Len(kernel') < QueueSize
      BY <3>3, <3>4, QueueAssumption
    <3> QED  BY <3>5, <3>6 DEF raw
  <2>5. CASE Len(kernel) + 1 # QueueSize
    <3>1. /\ Push(kernel, raw) = Append(kernel, raw)
          /\ Append(kernel, raw) \in Seq(Raws) /\ Len(Append(kernel, raw)) = Len(kernel) + 1
      BY <2>1, <2>3, <2>5 DEF Push
    <3>2. CASE Len(kernel) + 2 = QueueSize
      <4>1. kernel' = <<SYN, SYN>>
        BY <2>2, <2>3, <3>1, <3>2 DEF Push
      <4>2. <<SYN, SYN>> \in Seq(Raws) /\ Len(<<SYN, SYN>>) = 2
        BY <2>1
      <4>3. Dropped(raw)
        BY <2>3, <3>2, <4>1, QueueAssumption DEF Dropped
      <4>4. kernel' \in Seq(Raws) /\ Len(kernel') < QueueSize
        BY <4>1, <4>2, QueueAssumption
      <4> QED  BY <4>3, <4>4 DEF raw
    <3>3. CASE Len(kernel) + 2 # QueueSize
      <4>1. kernel' = Append(Append(kernel, raw), SYN)
        BY <2>2, <2>3, <3>1, <3>3 DEF Push
      <4>2. /\ kernel' = kernel \o <<raw, SYN>> /\ kernel' \in Seq(Raws)
            /\ Len(kernel') = Len(kernel) + 2
        BY <2>1, <2>3, <4>1
      <4>3. Len(kernel) + 2 < QueueSize
        BY <2>3, <2>5, <3>3, QueueAssumption
      <4> QED  BY <4>2, <4>3 DEF raw, Queued
    <3> QED  BY <3>2, <3>3
  <2> QED  BY <2>4, <2>5
<1> QED  BY <1>1, <1>2, <1>3

LEMMA TypeStep == TypeOK /\ [Next]_vars => TypeOK'
<1> SUFFICES ASSUME TypeOK, [Next]_vars PROVE TypeOK'
  OBVIOUS
<1>1. CASE Open
  <2>1. kernel' \in Seq(Raws) /\ Len(kernel') < QueueSize /\ told' = <<>>
    BY <1>1, EmptyFits DEF Open
  <2> QED  BY <1>1, <2>1 DEF Open, TypeOK
<1>2. CASE Close
  <2>1. kernel' \in Seq(Raws) /\ Len(kernel') < QueueSize /\ told' = <<>>
    BY <1>2, EmptyFits DEF Close
  <2> QED  BY <1>2, <2>1 DEF Close, TypeOK
<1>3. CASE GetEvent
  <2>1. UNCHANGED <<device, down, touched>>
    BY <1>3 DEF GetEvent
  <2>2. Len(kernel') < QueueSize
    BY <1>3, GetEventFacts, QueueAssumption DEF TypeOK
  <2> QED  BY <1>3, <2>1, <2>2, GetEventFacts DEF TypeOK
<1>4. CASE Wake
  BY <1>4 DEF Wake, TypeOK
<1>5. ASSUME NEW code \in KeyCodes, Key(code) PROVE TypeOK'
  <2>1. PICK value \in 0 .. 2 :
           /\ down' = IF value = 0 THEN down \ {code} ELSE down \cup {code}
           /\ device = "open" =>
                /\ kernel' \in Seq(Raws) /\ Len(kernel') < QueueSize
                /\ touched' \subseteq touched \cup {code}
           /\ device # "open" => UNCHANGED <<kernel, touched>>
           /\ UNCHANGED <<device, batch, held, client, pressed, told>>
    BY <1>5, KeyFacts
  <2>2. down' \subseteq KeyCodes
    BY <2>1 DEF TypeOK
  <2> QED  BY <2>1, <2>2 DEF TypeOK
<1>6. CASE UNCHANGED vars
  BY <1>6 DEF vars, TypeOK
<1> QED  BY <1>1, <1>2, <1>3, <1>4, <1>5, <1>6 DEF Next

(* The shapes of the state: raw_events and the kernel's buffer never hold  *)
(* more than they have room for, and no event is held while a batch is half*)
(* read.                                                                   *)
THEOREM KeysTypeCorrect == Spec => []TypeOK
  BY TypeInit, TypeStep, PTL DEF Spec

-----------------------------------------------------------------------------
(* The raw events of a key; and what has to hold of the last of them: it   *)
(* says whether the key is down, and when there is none the client knows.  *)
Moves(events, code) == {i \in 1 .. Len(events) : events[i] # SYN /\ events[i][1].code = code}

Agrees(code) ==
  /\ \A i \in Moves(All, code) :
       (\A j \in Moves(All, code) : j <= i) => (All[i][1].value # 0 <=> code \in down)
  /\ Moves(All, code) = {} => (code \in pressed <=> code \in down)

HInv ==
  /\ TypeOK
  /\ device = "open" => \A code \in touched : Agrees(code)

LEMMA AllTyped == TypeOK => All \in Seq(Raws)
  BY DEF TypeOK, All

LEMMA TookAgrees ==
  ASSUME NEW taken, Took(taken), TypeOK', UNCHANGED down, NEW code, Agrees(code)
  PROVE  Agrees(code)'
<1> DEFINE rest == All'
<1>1. /\ taken \in Seq(Raws) /\ rest \in Seq(Raws) /\ All = taken \o rest
      /\ Len(taken) \in Nat /\ Len(rest) \in Nat
  <2>1. TypeOK' => All' \in Seq(Raws)
    BY DEF TypeOK, All
  <2> QED  BY <2>1 DEF Took
<1> HIDE DEF rest
<1>2. /\ Len(All) = Len(taken) + Len(rest)
      /\ \A i \in 1 .. Len(taken) : All[i] = taken[i]
      /\ \A i \in 1 .. Len(rest) : All[Len(taken) + i] = rest[i]
  BY <1>1
<1>3. \A i \in Moves(rest, code) : Len(taken) + i \in Moves(All, code) /\ i \in Nat
  BY <1>1, <1>2 DEF Moves
<1>4. \A k \in Moves(All, code) :
        k \in Nat /\ (k > Len(taken) => k - Len(taken) \in Moves(rest, code))
  <2> SUFFICES ASSUME NEW k \in Moves(All, code), k > Len(taken)
               PROVE  k - Len(taken) \in Moves(rest, code)
    BY <1>1, <1>2 DEF Moves
  <2>1. k - Len(taken) \in 1 .. Len(rest) /\ Len(taken) + (k - Len(taken)) = k
    BY <1>1, <1>2 DEF Moves
  <2>2. rest[k - Len(taken)] = All[k]
    BY <1>2, <2>1
  <2> QED  BY <2>1, <2>2 DEF Moves
<1>5. ASSUME NEW i \in Moves(rest, code), \A j \in Moves(rest, code) : j <= i
      PROVE  rest[i][1].value # 0 <=> code \in down
  <2>1. Len(taken) + i \in Moves(All, code) /\ All[Len(taken) + i] = rest[i] /\ i \in Nat
    BY <1>2, <1>3 DEF Moves
  <2>2. ASSUME NEW k \in Moves(All, code) PROVE k <= Len(taken) + i
    <3>1. CASE k > Len(taken)
      <4>1. k - Len(taken) <= i
        BY <1>4, <1>5, <3>1
      <4> QED  BY <1>1, <1>4, <2>1, <4>1
    <3>2. CASE ~(k > Len(taken))
      BY <1>1, <1>4, <2>1, <3>2
    <3> QED  BY <3>1, <3>2
  <2>3. All[Len(taken) + i][1].value # 0 <=> code \in down
    BY <2>1, <2>2 DEF Agrees
  <2> QED  BY <2>1, <2>3
<1>6. ASSUME Moves(rest, code) = {} PROVE code \in pressed' <=> code \in down
  <2>1. \A k \in Moves(All, code) : k \in 1 .. Len(taken) /\ k \in Readable(taken)
    BY <1>1, <1>2, <1>4, <1>6 DEF Moves, Readable
  <2>2. CASE Readable(taken) = {} /\ UNCHANGED <<pressed, told>>
    <3>1. Moves(All, code) = {}
      BY <2>1, <2>2
    <3> QED  BY <2>2, <3>1 DEF Agrees
  <2>3. CASE ~(Readable(taken) = {} /\ UNCHANGED <<pressed, told>>)
    <3> DEFINE n == Len(taken)
               r == Report(taken[n])
    <3>1. /\ Readable(taken) = {n} /\ taken[n] # SYN
          /\ pressed' = IF r.is_press THEN pressed \cup {r.key} ELSE pressed \ {r.key}
      BY <2>3 DEF Took
    <3>2. r.key = taken[n][1].code /\ (r.is_press <=> taken[n][1].value # 0)
      BY DEF Report
    <3>3. n \in 1 .. Len(taken) /\ All[n] = taken[n]
      BY <1>2, <3>1 DEF Readable
    <3> HIDE DEF r
    <3>4. CASE r.key = code
      <4>1. n \in Moves(All, code) /\ \A k \in Moves(All, code) : k <= n
        <5>1. n \in 1 .. Len(All) /\ All[n] # SYN /\ All[n][1].code = code
          BY <1>1, <1>2, <3>1, <3>2, <3>3, <3>4
        <5>2. n \in Moves(All, code)
          BY <5>1 DEF Moves
        <5>3. \A k \in Moves(All, code) : k = n
          BY <2>1, <3>1
        <5> QED  BY <1>1, <5>2, <5>3
      <4>2. All[n][1].value # 0 <=> code \in down
        BY <4>1 DEF Agrees
      <4> QED  BY <3>1, <3>2, <3>3, <3>4, <4>2
    <3>5. CASE r.key # code
      <4>1. Moves(All, code) = {}
        BY <2>1, <3>1, <3>2, <3>3, <3>5 DEF Moves
      <4> QED  BY <3>1, <3>5, <4>1 DEF Agrees
    <3> QED  BY <3>4, <3>5
  <2> QED  BY <2>2, <2>3
<1>7. /\ \A i \in Moves(rest, code) :
            (\A j \in Moves(rest, code) : j <= i) => (rest[i][1].value # 0 <=> code \in down)
      /\ Moves(rest, code) = {} => (code \in pressed' <=> code \in down)
  BY <1>5, <1>6
<1> QED  BY <1>7 DEF Agrees, rest, Moves

(* Behind the same front, what follows is another, and neither tells of    *)
(* the key.                                                                *)
LEMMA OthersAgree ==
  ASSUME NEW s \in Seq(Raws), NEW t \in Seq(Raws), NEW u \in Seq(Raws), UNCHANGED pressed,
         All = s \o t, All' = s \o u, NEW code, code \notin Codes(t), code \notin Codes(u),
         code \in down' <=> code \in down, Agrees(code)
  PROVE  Agrees(code)'
<1> DEFINE all == All'
<1>1. ASSUME NEW v \in Seq(Raws), code \notin Codes(v)
      PROVE  /\ Moves(s \o v, code) = Moves(s, code)
             /\ \A i \in Moves(s, code) : (s \o v)[i] = s[i]
  <2> DEFINE c == s \o v
  <2>1. /\ Len(c) = Len(s) + Len(v) /\ Len(s) \in Nat /\ Len(v) \in Nat
        /\ \A i \in 1 .. Len(s) : c[i] = s[i]
        /\ \A i \in 1 .. Len(v) : c[Len(s) + i] = v[i]
    BY ConcatFacts
  <2> HIDE DEF c
  <2>2. ASSUME NEW i \in Moves(c, code) PROVE i \in Moves(s, code)
    <3>1. i \in 1 .. Len(c) /\ c[i] # SYN /\ c[i][1].code = code
      BY DEF Moves
    <3>2. CASE i <= Len(s)
      BY <2>1, <3>1, <3>2 DEF Moves
    <3>3. CASE i > Len(s)
      <4> DEFINE j == i - Len(s)
      <4>1. j \in 1 .. Len(v) /\ Len(s) + j = i
        BY <2>1, <3>1, <3>3
      <4>2. v[j] = c[i]
        BY <2>1, <4>1
      <4>3. j \in Readable(v) /\ v[j][1].code = code
        BY <3>1, <4>1, <4>2 DEF Readable
      <4>4. code \in Codes(v)
        BY <4>3 DEF Codes
      <4> QED  BY <1>1, <4>4
    <3> QED  BY <2>1, <3>1, <3>2, <3>3
  <2>3. ASSUME NEW i \in Moves(s, code) PROVE i \in Moves(c, code) /\ c[i] = s[i]
    BY <2>1 DEF Moves
  <2> QED  BY <2>2, <2>3 DEF c
<1>2. /\ Moves(All, code) = Moves(s, code) /\ \A i \in Moves(s, code) : All[i] = s[i]
      /\ Moves(all, code) = Moves(s, code) /\ \A i \in Moves(s, code) : all[i] = s[i]
  BY <1>1
<1> HIDE DEF all
<1>3. /\ \A i \in Moves(all, code) :
           (\A j \in Moves(all, code) : j <= i) => (all[i][1].value # 0 <=> code \in down')
      /\ Moves(all, code) = {} => (code \in pressed' <=> code \in down')
  BY <1>2 DEF Agrees
<1> QED  BY <1>3 DEF Agrees, all, Moves

(* A frame that is queued is the key's last, whatever is before it.        *)
LEMMA LastAgrees ==
  ASSUME NEW base \in Seq(Raws), NEW code \in KeyCodes, NEW value \in 0 .. 2,
         All' = base \o <<Raw(code, value), SYN>>,
         down' = IF value = 0 THEN down \ {code} ELSE down \cup {code}
  PROVE  Agrees(code)'
<1> DEFINE all == All'  frame == <<Raw(code, value), SYN>>  n == Len(base) + 1
<1>1. /\ Raw(code, value) # SYN
      /\ Raw(code, value)[1] = [code |-> code, value |-> value]
      /\ frame \in Seq(Raws) /\ Len(frame) = 2
      /\ frame[1] = Raw(code, value) /\ frame[2] = SYN
  BY RawFrame
<1>2. all = base \o frame
  OBVIOUS
<1> HIDE DEF frame, all
<1>3. /\ Len(base) \in Nat /\ Len(all) = Len(base) + 2
      /\ all[Len(base) + 1] = Raw(code, value) /\ all[Len(base) + 2] = SYN
  <2>1. /\ Len(all) = Len(base) + Len(frame) /\ Len(base) \in Nat
        /\ \A i \in 1 .. Len(frame) : all[Len(base) + i] = frame[i]
    <3>1. /\ Len(base \o frame) = Len(base) + Len(frame) /\ Len(base) \in Nat
          /\ \A i \in 1 .. Len(frame) : (base \o frame)[Len(base) + i] = frame[i]
      <4>1. base \in Seq(Raws) /\ frame \in Seq(Raws)
        BY <1>1
      <4> QED  BY <4>1, ConcatFacts
    <3> QED  BY <1>2, <3>1
  <2>2. 1 \in 1 .. Len(frame) /\ 2 \in 1 .. Len(frame)
    BY <1>1
  <2> QED  BY <1>1, <2>1, <2>2
<1>4. /\ all[n][1].code = code /\ all[n][1].value = value /\ n \in 1 .. Len(all)
      /\ all[n] # SYN
  BY <1>1, <1>3
<1>5. n \in Moves(all, code)
  BY <1>4 DEF Moves
<1>6. ASSUME NEW i \in Moves(all, code) PROVE i <= n
  BY <1>3 DEF Moves
<1>7. value # 0 <=> code \in down'
  OBVIOUS
<1>8. ASSUME NEW i \in Moves(all, code), \A j \in Moves(all, code) : j <= i
      PROVE  all[i][1].value # 0 <=> code \in down'
  <2>1. i <= n /\ n <= i
    BY <1>5, <1>6, <1>8
  <2>2. i \in Nat /\ n \in Nat
    BY <1>3 DEF Moves
  <2>3. i = n
    BY <2>1, <2>2
  <2> QED  BY <1>4, <1>7, <2>3
<1> QED  BY <1>5, <1>8 DEF Agrees, all, Moves

LEMMA HInvInit == Init => HInv
  BY TypeInit DEF Init, HInv

(* The frame goes behind all there is, or behind the batch alone; in its   *)
(* place there may be two ends of frames.                                  *)
KeyAll(code, value) ==
  LET frame == <<Raw(code, value), SYN>>
  IN  \/ /\ All' = All \o frame
         /\ touched' = touched \cup {code}
      \/ /\ Len(kernel) + 2 >= QueueSize
         /\ \/ /\ All' = batch \o <<SYN, Raw(code, value), SYN>>
               /\ touched' = (touched \cup {code}) \ (Codes(kernel) \ {code})
            \/ /\ All' = batch \o <<SYN, SYN>>
               /\ touched' = (touched \cup {code}) \ (Codes(kernel) \cup {code})

LEMMA KeyAllFacts ==
  ASSUME TypeOK, NEW code \in KeyCodes, Key(code), device = "open"
  PROVE  \E value \in 0 .. 2 :
           /\ down' = IF value = 0 THEN down \ {code} ELSE down \cup {code}
           /\ KeyAll(code, value)
           /\ UNCHANGED <<device, batch, pressed, told>>
<1>1. PICK value \in 0 .. 2 :
        /\ down' = IF value = 0 THEN down \ {code} ELSE down \cup {code}
        /\ Queued(Raw(code, value)) \/ Dropped(Raw(code, value))
        /\ touched' = (touched \cup {code}) \ ((Codes(kernel) \cup {code}) \ Codes(kernel'))
        /\ UNCHANGED <<device, batch, held, client, pressed, told>>
  BY KeyFacts
<1> DEFINE raw == Raw(code, value)  frame == <<raw, SYN>>
<1>2. batch \in Seq(Raws) /\ kernel \in Seq(Raws) /\ frame \in Seq(Raws)
  BY RawFrame DEF TypeOK
<1>3. /\ Codes(frame) = {code} /\ Codes(<<SYN, raw, SYN>>) = {code}
      /\ Codes(<<SYN, SYN>>) = {}
  BY RawCodes
<1>4. All' = batch \o kernel'
  BY <1>1 DEF All
<1>5. CASE Queued(raw)
  <2>1. kernel' = kernel \o frame
    BY <1>5 DEF Queued
  <2> HIDE DEF frame
  <2>2. (batch \o kernel) \o frame = batch \o (kernel \o frame)
    BY <1>2, ConcatAssoc
  <2>3. All' = All \o frame
    BY <1>4, <2>1, <2>2 DEF All
  <2>4. Codes(kernel) \cup {code} \subseteq Codes(kernel')
    <3>1. /\ Len(kernel') = Len(kernel) + Len(frame) /\ Len(kernel) \in Nat /\ Len(frame) \in Nat
          /\ \A i \in 1 .. Len(kernel) : kernel'[i] = kernel[i]
          /\ \A i \in 1 .. Len(frame) : kernel'[Len(kernel) + i] = frame[i]
      BY <1>2, <2>1, ConcatFacts
    <3>2. \A i \in Readable(kernel) : i \in Readable(kernel') /\ kernel'[i] = kernel[i]
      BY <3>1 DEF Readable
    <3>3. \A i \in Readable(frame) :
            Len(kernel) + i \in Readable(kernel') /\ kernel'[Len(kernel) + i] = frame[i]
      BY <3>1 DEF Readable
    <3>4. Codes(kernel) \subseteq Codes(kernel')
      BY <3>2 DEF Codes
    <3>5. Codes(frame) \subseteq Codes(kernel')
      BY <3>3 DEF Codes
    <3> QED  BY <1>3, <3>4, <3>5
  <2>5. touched' = touched \cup {code}
    BY <1>1, <2>4
  <2> QED  BY <1>1, <2>3, <2>5 DEF frame, KeyAll
<1>6. CASE Dropped(raw)
  <2>1. CASE kernel' = <<SYN, raw, SYN>>
    <3>1. touched' = (touched \cup {code}) \ (Codes(kernel) \ {code})
      BY <1>1, <1>3, <2>1
    <3> QED  BY <1>1, <1>4, <1>6, <2>1, <3>1 DEF Dropped, KeyAll
  <2>2. CASE kernel' = <<SYN, SYN>>
    <3>1. touched' = (touched \cup {code}) \ (Codes(kernel) \cup {code})
      BY <1>1, <1>3, <2>2
    <3> QED  BY <1>1, <1>4, <1>6, <2>2, <3>1 DEF Dropped, KeyAll
  <2> QED  BY <1>6, <2>1, <2>2 DEF Dropped
<1> QED  BY <1>1, <1>5, <1>6

LEMMA HInvStep == HInv /\ [Next]_vars => HInv'
<1> SUFFICES ASSUME HInv, [Next]_vars PROVE HInv'
  OBVIOUS
<1>0. TypeOK /\ TypeOK'
  BY TypeStep DEF HInv
<1>1. CASE Open
  BY <1>0, <1>1 DEF Open, HInv
<1>2. CASE Close
  BY <1>0, <1>2 DEF Close, HInv
<1>3. CASE GetEvent
  <2>1. UNCHANGED <<device, down, touched>> /\ device # "closed"
    BY <1>3 DEF GetEvent
  <2>2. PICK taken : Took(taken)
    BY <1>0, <1>3, GetEventFacts
  <2>3. ASSUME device = "open", NEW code \in touched PROVE Agrees(code)'
    BY <1>0, <2>1, <2>2, <2>3, TookAgrees DEF HInv
  <2> QED  BY <1>0, <2>1, <2>3 DEF HInv
<1>4. CASE Wake
  <2>1. UNCHANGED <<device, batch, kernel, pressed, down, touched>>
    BY <1>4 DEF Wake
  <2>2. \A code : Agrees(code) => Agrees(code)'
    BY <2>1 DEF Agrees, All, Moves
  <2> QED  BY <1>0, <2>1, <2>2 DEF HInv
<1>5. ASSUME NEW moved \in KeyCodes, Key(moved) PROVE HInv'
  <2>1. CASE device = "open"
    <3>1. PICK value \in 0 .. 2 :
           /\ down' = IF value = 0 THEN down \ {moved} ELSE down \cup {moved}
           /\ KeyAll(moved, value)
           /\ UNCHANGED <<device, batch, pressed, told>>
      BY <1>0, <1>5, <2>1, KeyAllFacts
    <3> DEFINE raw == Raw(moved, value)  frame == <<raw, SYN>>
               late == <<SYN, raw, SYN>>  gone == <<SYN, SYN>>
    <3>2. /\ raw \in Raws /\ SYN \in Raws /\ frame \in Seq(Raws)
          /\ late \in Seq(Raws) /\ gone \in Seq(Raws) /\ <<>> \in Seq(Raws)
      <4>1. raw \in Raws /\ SYN \in Raws
        BY RawFrame
      <4> HIDE DEF raw
      <4> QED  BY <4>1
    <3>3. /\ Codes(frame) = {moved} /\ Codes(late) = {moved} /\ Codes(gone) = {}
          /\ Codes(<<>>) = {}
      BY RawCodes
    <3>4. \A code \in touched : Agrees(code)
      BY <2>1 DEF HInv
    <3>5. \A code : code # moved => (code \in down' <=> code \in down)
      BY <3>1
    <3>6. /\ batch \in Seq(Raws) /\ kernel \in Seq(Raws) /\ All \in Seq(Raws)
          /\ All = batch \o kernel /\ All = All \o <<>>
      BY <1>0 DEF TypeOK, All
    <3>7. UNCHANGED pressed
      BY <3>1
    <3> HIDE DEF gone
    <3>8. ASSUME NEW code \in touched' PROVE Agrees(code)'
      <4>1. CASE All' = All \o frame /\ touched' = touched \cup {moved}
        <5>1. CASE code = moved
          BY <3>1, <3>6, <4>1, <5>1, LastAgrees
        <5>2. CASE code # moved
          <6>1. Agrees(code) /\ (code \in down' <=> code \in down) /\ code \notin Codes(frame)
                /\ code \notin Codes(<<>>)
            BY <3>3, <3>4, <3>5, <3>8, <4>1, <5>2
          <6> HIDE DEF frame
          <6> QED  BY <3>2, <3>6, <3>7, <4>1, <6>1, OthersAgree
        <5> QED  BY <5>1, <5>2
      <4>2. CASE /\ All' = batch \o late
                 /\ touched' = (touched \cup {moved}) \ (Codes(kernel) \ {moved})
        <5>1. CASE code = moved
          <6> DEFINE base == batch \o <<SYN>>
          <6>1. base \in Seq(Raws)
            BY <3>2, <3>6
          <6>2. late = <<SYN>> \o frame
            OBVIOUS
          <6>3. <<SYN>> \in Seq(Raws)
            BY <3>2
          <6>4. All' = base \o frame
            <7> HIDE DEF frame, late
            <7> QED  BY <3>2, <3>6, <4>2, <6>2, <6>3, ConcatAssoc
          <6> HIDE DEF base
          <6> QED  BY <3>1, <5>1, <6>1, <6>4, LastAgrees
        <5>2. CASE code # moved
          <6>1. Agrees(code) /\ (code \in down' <=> code \in down) /\ code \notin Codes(late)
                /\ code \notin Codes(kernel)
            BY <3>3, <3>4, <3>5, <3>8, <4>2, <5>2
          <6> HIDE DEF late
          <6> QED  BY <3>2, <3>6, <3>7, <4>2, <6>1, OthersAgree
        <5> QED  BY <5>1, <5>2
      <4>3. CASE /\ All' = batch \o gone
                 /\ touched' = (touched \cup {moved}) \ (Codes(kernel) \cup {moved})
        <5>1. Agrees(code) /\ (code \in down' <=> code \in down) /\ code \notin Codes(gone)
              /\ code \notin Codes(kernel)
          BY <3>3, <3>4, <3>5, <3>8, <4>3
        <5> QED  BY <3>2, <3>6, <3>7, <4>3, <5>1, OthersAgree
      <4> QED  BY <3>1, <4>1, <4>2, <4>3 DEF KeyAll, gone
    <3> QED  BY <1>0, <2>1, <3>1, <3>8 DEF HInv
  <2>2. CASE device # "open"
    BY <1>0, <1>5, <2>2, KeyFacts DEF HInv
  <2> QED  BY <2>1, <2>2
<1>6. CASE UNCHANGED vars
  <2>1. \A code : Agrees(code) => Agrees(code)'
    BY <1>6 DEF vars, Agrees, All, Moves
  <2> QED  BY <1>0, <1>6, <2>1 DEF vars, HInv
<1> QED  BY <1>1, <1>2, <1>3, <1>4, <1>5, <1>6 DEF Next

(* Whatever the batches the raw events were read in, what an earlier device*)
(* left in raw_events and what the kernel dropped, the client that has read*)
(* all there is knows which of the keys that moved are down.               *)
THEOREM KeysHeldKeysAgree == Spec => []HeldKeysAgree
<1>1. HInv => HeldKeysAgree
  <2> SUFFICES ASSUME HInv, batch = <<>>, kernel = <<>>, device = "open", NEW code \in touched
               PROVE  code \in pressed <=> code \in down
    BY DEF HeldKeysAgree
  <2>1. Len(All) = 0
    BY DEF All
  <2>2. Moves(All, code) = {}
    BY <2>1 DEF Moves
  <2> QED  BY <2>2 DEF HInv, Agrees
<1>2. HInv /\ [Next]_vars => HInv'
  BY HInvStep
<1> QED  BY <1>1, <1>2, HInvInit, PTL DEF Spec

-----------------------------------------------------------------------------
(* What is taken makes no report, or the one the client is given.          *)
LEMMA TookReports ==
  ASSUME TypeOK', NEW taken, Took(taken)
  PROVE  \/ ReportsOf(All') = ReportsOf(All) /\ UNCHANGED told
         \/ /\ told' = <<Head(ReportsOf(All))>> /\ ReportsOf(All) # <<>>
            /\ ReportsOf(All') = Tail(ReportsOf(All))
<1> DEFINE rest == All'
<1>1. taken \in Seq(Raws) /\ rest \in Seq(Raws) /\ All = taken \o rest
  <2>1. TypeOK' => All' \in Seq(Raws)
    BY DEF TypeOK, All
  <2> QED  BY <2>1 DEF Took
<1>2. ReportsOf(All) = ReportsOf(taken) \o ReportsOf(rest) /\ ReportsOf(rest) \in Seq(Reports)
  BY <1>1, ReportsConcat, ReportsTyped
<1> HIDE DEF rest
<1>3. CASE Readable(taken) = {} /\ UNCHANGED told
  <2>1. ReportsOf(taken) = <<>>
    BY <1>1, <1>3, ReportsSilent
  <2> QED  BY <1>2, <1>3, <2>1 DEF rest
<1>4. CASE ~(Readable(taken) = {} /\ UNCHANGED told)
  <2> DEFINE n == Len(taken)
             last == taken[n]
             front == SubSeq(taken, 1, n - 1)
  <2>1. /\ Readable(taken) = {n} /\ taken # <<>> /\ last # SYN /\ told' = <<Report(last)>>
    BY <1>4 DEF Took
  <2>2. n \in Nat \ {0} /\ last \in Raws
    BY <1>1, <2>1
  <2>3. front \in Seq(Raws) /\ Len(front) = n - 1 /\ \A i \in 1 .. n - 1 : front[i] = taken[i]
    <3>1. n - 1 \in 0 .. Len(taken)
      BY <2>2
    <3> QED  BY <1>1, <3>1, Cut
  <2>4. Readable(front) = {}
    <3> SUFFICES ASSUME NEW i \in 1 .. n - 1, taken[i] # SYN PROVE FALSE
      BY <2>3 DEF Readable
    <3>1. i \in Readable(taken) /\ i # n
      BY <2>2 DEF Readable
    <3> QED  BY <2>1, <3>1
  <2>5. taken = front \o <<last>>
    BY <1>1, <2>2, <2>3
  <2> HIDE DEF last, front
  <2>6. ReportsOf(taken) = <<Report(last)>>
    <3>1. <<last>> \in Seq(Raws) /\ ReportsOf(<<last>>) = <<Report(last)>>
      BY <2>1, <2>2, ReportsOfOne
    <3>2. ReportsOf(front \o <<last>>) = ReportsOf(front) \o ReportsOf(<<last>>)
      BY <2>3, <3>1, ReportsConcat
    <3>3. ReportsOf(front) = <<>>
      BY <2>3, <2>4, ReportsSilent
    <3> QED  BY <2>5, <3>1, <3>2, <3>3
  <2>7. Report(last) \in Reports
    BY <2>1, <2>2, ReportTyped
  <2> DEFINE r == Report(last)  w == ReportsOf(rest)
  <2>8. ReportsOf(All) = <<r>> \o w /\ w \in Seq(Reports) /\ r \in Reports
    BY <1>2, <2>6, <2>7
  <2> HIDE DEF r, w
  <2>9. Head(<<r>> \o w) = r /\ Tail(<<r>> \o w) = w /\ <<r>> \o w # <<>>
    BY <2>8
  <2> QED  BY <2>1, <2>8, <2>9 DEF r, w, rest
<1> QED  BY <1>3, <1>4

(* A frame makes one report, also behind the end of another.               *)
LEMMA FrameReports ==
  ASSUME NEW code \in KeyCodes, NEW value \in 0 .. 2
  PROVE  LET raw == Raw(code, value)
         IN  /\ raw \in Raws /\ raw # SYN /\ SYN \in Raws /\ Report(raw) \in Reports
             /\ ReportsOf(<<raw, SYN>>) = <<Report(raw)>>
             /\ ReportsOf(<<SYN, SYN>>) = <<>>
             /\ ReportsOf(<<SYN, raw, SYN>>) = <<Report(raw)>>
<1> DEFINE raw == Raw(code, value)
<1>1. raw \in Raws /\ raw # SYN /\ SYN \in Raws /\ Report(raw) \in Reports
  BY RawFrame, ReportTyped
<1> HIDE DEF raw
<1>2. /\ <<raw>> \in Seq(Raws) /\ <<SYN>> \in Seq(Raws) /\ <<raw, SYN>> = <<raw>> \o <<SYN>>
      /\ <<raw, SYN>> \in Seq(Raws) /\ <<SYN, SYN>> \in Seq(Raws)
      /\ <<SYN, raw, SYN>> = <<SYN>> \o <<raw, SYN>>
  BY <1>1
<1>3. ReportsOf(<<SYN>>) = <<>> /\ ReportsOf(<<SYN, SYN>>) = <<>>
  <2>1. Readable(<<SYN>>) = {} /\ Readable(<<SYN, SYN>>) = {}
    BY DEF Readable
  <2> QED  BY <1>2, <2>1, ReportsSilent
<1>4. ReportsOf(<<raw, SYN>>) = <<Report(raw)>>
  <2>1. ReportsOf(<<raw>> \o <<SYN>>) = ReportsOf(<<raw>>) \o ReportsOf(<<SYN>>)
    BY <1>2, ReportsConcat
  <2>2. ReportsOf(<<raw>>) = <<Report(raw)>>
    BY <1>1, ReportsOfOne
  <2>3. <<Report(raw)>> \o <<>> = <<Report(raw)>>
    BY <1>1
  <2> QED  BY <1>2, <1>3, <2>1, <2>2, <2>3
<1>5. ReportsOf(<<SYN, raw, SYN>>) = <<Report(raw)>>
  <2>1. ReportsOf(<<SYN>> \o <<raw, SYN>>) = ReportsOf(<<SYN>>) \o ReportsOf(<<raw, SYN>>)
    BY <1>2, ReportsConcat
  <2>2. <<>> \o <<Report(raw)>> = <<Report(raw)>>
    BY <1>1
  <2> QED  BY <1>2, <1>3, <1>4, <2>1, <2>2
<1> QED  BY <1>1, <1>3, <1>4, <1>5 DEF raw

(* Behind the first two raw events, which may be what the kernel left of   *)
(* those it dropped, no two ends of frames follow each other: half of the  *)
(* others bring reports.                                                   *)
Framed(events) == \A i \in 3 .. Len(events) : events[i] = SYN => events[i - 1] # SYN

LEMMA FramedRoom ==
  ASSUME NEW events \in Seq(Raws), Framed(events)
  PROVE  Len(events) <= 2 * Len(ReportsOf(events)) + 2
<1> DEFINE f == Upto(events)
           S == {n \in Nat : n <= Len(events) =>
                               /\ n <= 2 * Len(f[n]) + 2
                               /\ n > 0 /\ events[n] # SYN => n <= 2 * Len(f[n]) + 1}
<1>0. Len(events) \in Nat
  OBVIOUS
<1>1. /\ f[0] = <<>> /\ ReportsOf(events) = f[Len(events)]
      /\ \A n \in 1 .. Len(events) : f[n] = Tell(f[n - 1], events[n])
      /\ \A n \in 0 .. Len(events) : f[n] \in Seq(Reports)
  BY UptoEqs, ReportsTyped
<1> HIDE DEF f
<1>2. 0 \in S
  BY <1>1
<1>3. ASSUME NEW n \in Nat, n \in S PROVE n + 1 \in S
  <2>1. SUFFICES ASSUME n + 1 <= Len(events)
                 PROVE  /\ n + 1 <= 2 * Len(f[n + 1]) + 2
                        /\ events[n + 1] # SYN => n + 1 <= 2 * Len(f[n + 1]) + 1
    OBVIOUS
  <2>2. /\ n <= 2 * Len(f[n]) + 2 /\ (n > 0 /\ events[n] # SYN => n <= 2 * Len(f[n]) + 1)
        /\ n + 1 \in 1 .. Len(events) /\ (n + 1) - 1 = n /\ n \in 0 .. Len(events)
    BY <1>0, <1>3, <2>1
  <2>3. f[n + 1] = Tell(f[n], events[n + 1]) /\ f[n] \in Seq(Reports)
    BY <1>1, <2>2
  <2>4. CASE events[n + 1] # SYN
    <3>1. events[n + 1] \in Raws
      BY <2>2
    <3>2. Report(events[n + 1]) \in Reports
      BY <2>4, <3>1, ReportTyped
    <3>3. Len(f[n + 1]) = Len(f[n]) + 1 /\ Len(f[n]) \in Nat
      BY <2>3, <2>4, <3>2 DEF Tell
    <3> QED  BY <2>2, <3>3
  <2>5. CASE events[n + 1] = SYN
    <3>1. f[n + 1] = f[n] /\ Len(f[n]) \in Nat
      BY <2>3, <2>5 DEF Tell
    <3>2. CASE n + 1 >= 3
      <4>1. events[n] # SYN
        <5>1. n + 1 \in 3 .. Len(events)
          BY <2>2, <3>2
        <5> QED  BY <2>2, <2>5, <5>1 DEF Framed
      <4> QED  BY <2>2, <2>5, <3>1, <3>2, <4>1
    <3>3. CASE n + 1 < 3
      BY <2>5, <3>1, <3>3
    <3> QED  BY <3>2, <3>3
  <2> QED  BY <2>4, <2>5
<1>4. Nat \subseteq S
  BY <1>2, <1>3, Induction
<1> QED  BY <1>0, <1>1, <1>4

QInv == HInv /\ Framed(kernel)

LEMMA FramedStep == TypeOK /\ Framed(kernel) /\ [Next]_vars => Framed(kernel)'
<1> SUFFICES ASSUME TypeOK, Framed(kernel), [Next]_vars PROVE Framed(kernel')
  BY DEF Framed
<1>0. kernel \in Seq(Raws) /\ Len(kernel) \in Nat
  BY DEF TypeOK
<1>1. Framed(<<>>)
  BY DEF Framed
<1>2. CASE Open \/ Close
  BY <1>1, <1>2 DEF Open, Close
<1>3. CASE GetEvent
  <2>1. CASE UNCHANGED kernel
    BY <2>1
  <2>2. CASE batch = <<>>
    <3> DEFINE n == Len(ReadBatch)
    <3>1. kernel' = Rest(kernel, n)
      BY <1>3, <2>2 DEF GetEvent
    <3>2. n \in 0 .. Len(kernel)
      <4> DEFINE k == Min({MAX_EVENTS, Len(kernel)})
      <4>1. {MAX_EVENTS, Len(kernel)} \subseteq Nat
        BY <1>0, BatchAssumption
      <4>2. k \in {MAX_EVENTS, Len(kernel)} /\ k <= Len(kernel)
        BY <4>1, MinIs
      <4>3. k \in 0 .. Len(kernel)
        BY <4>1, <4>2
      <4>4. ReadBatch = SubSeq(kernel, 1, k)
        BY DEF ReadBatch
      <4> HIDE DEF k
      <4>5. Len(SubSeq(kernel, 1, k)) = k
        BY <1>0, <4>3, Cut
      <4> QED  BY <4>3, <4>4, <4>5
    <3> HIDE DEF n
    <3>3. /\ Len(kernel') = Len(kernel) - n
          /\ \A i \in 1 .. Len(kernel') : kernel'[i] = kernel[n + i]
      BY <1>0, <3>1, <3>2 DEF Rest
    <3>4. ASSUME NEW i \in 3 .. Len(kernel'), kernel'[i] = SYN PROVE kernel'[i - 1] # SYN
      <4>1. n + i \in 3 .. Len(kernel) /\ (n + i) - 1 = n + (i - 1) /\ i - 1 \in 1 .. Len(kernel')
            /\ i \in 1 .. Len(kernel')
        BY <1>0, <3>2, <3>3
      <4>2. kernel[n + i] = SYN => kernel[(n + i) - 1] # SYN
        BY <4>1 DEF Framed
      <4> QED  BY <3>3, <3>4, <4>1, <4>2
    <3> QED  BY <3>4 DEF Framed
  <2> QED  BY <1>3, <2>1, <2>2 DEF GetEvent
<1>4. CASE UNCHANGED kernel
  BY <1>4
<1>5. ASSUME NEW code \in KeyCodes, Key(code) PROVE Framed(kernel')
  <2>1. PICK value \in 0 .. 2 :
          device = "open" => Queued(Raw(code, value)) \/ Dropped(Raw(code, value))
    BY <1>5, KeyFacts
  <2> DEFINE raw == Raw(code, value)
  <2>2. raw \in Raws /\ SYN \in Raws /\ raw # SYN
    BY RawFrame
  <2> HIDE DEF raw
  <2>3. CASE Queued(raw)
    <3> DEFINE frame == <<raw, SYN>>
    <3>1. frame \in Seq(Raws) /\ Len(frame) = 2 /\ frame[1] = raw /\ frame[2] = SYN
      BY <2>2
    <3>2. kernel' = kernel \o frame
      BY <2>3 DEF Queued
    <3> HIDE DEF frame
    <3>3. /\ Len(kernel') = Len(kernel) + 2
          /\ \A i \in 1 .. Len(kernel) : kernel'[i] = kernel[i]
          /\ kernel'[Len(kernel) + 1] = raw /\ kernel'[Len(kernel) + 2] = SYN
      <4>1. /\ Len(kernel') = Len(kernel) + Len(frame)
            /\ \A i \in 1 .. Len(kernel) : kernel'[i] = kernel[i]
            /\ \A i \in 1 .. Len(frame) : kernel'[Len(kernel) + i] = frame[i]
        <5>1. /\ Len(kernel \o frame) = Len(kernel) + Len(frame)
              /\ \A i \in 1 .. Len(kernel) : (kernel \o frame)[i] = kernel[i]
              /\ \A i \in 1 .. Len(frame) : (kernel \o frame)[Len(kernel) + i] = frame[i]
          <6>1. kernel \in Seq(Raws) /\ frame \in Seq(Raws)
            BY <1>0, <3>1
          <6> QED  BY <6>1, ConcatFacts
        <5> QED  BY <3>2, <5>1
      <4>2. 1 \in 1 .. Len(frame) /\ 2 \in 1 .. Len(frame)
        BY <3>1
      <4> QED  BY <3>1, <4>1, <4>2
    <3>4. ASSUME NEW i \in 3 .. Len(kernel'), kernel'[i] = SYN PROVE kernel'[i - 1] # SYN
      <4>1. CASE i <= Len(kernel)
        <5>1. i \in 3 .. Len(kernel) /\ i \in 1 .. Len(kernel) /\ i - 1 \in 1 .. Len(kernel)
          BY <1>0, <4>1
        <5> QED  BY <3>3, <3>4, <5>1 DEF Framed
      <4>2. CASE i = Len(kernel) + 1
        BY <2>2, <3>3, <3>4, <4>2
      <4>3. CASE i = Len(kernel) + 2
        <5>1. i - 1 = Len(kernel) + 1
          BY <1>0, <4>3
        <5> QED  BY <2>2, <3>3, <5>1
      <4>4. i <= Len(kernel) \/ i = Len(kernel) + 1 \/ i = Len(kernel) + 2
        BY <1>0, <3>3
      <4> QED  BY <4>1, <4>2, <4>3, <4>4
    <3> QED  BY <3>4 DEF Framed
  <2>4. CASE Dropped(raw)
    <3>1. Framed(<<SYN, raw, SYN>>) /\ Framed(<<SYN, SYN>>)
      BY <2>2 DEF Framed
    <3> QED  BY <2>4, <3>1 DEF Dropped
  <2>5. CASE device # "open"
    BY <1>5, <2>5, KeyFacts
  <2> QED  BY <2>1, <2>3, <2>4, <2>5 DEF raw
<1> QED  BY <1>2, <1>3, <1>4, <1>5 DEF Next, Wake, vars

LEMMA QInvStep == QInv /\ [Next]_vars => QInv'
  BY HInvStep, FramedStep DEF QInv, HInv

LEMMA QInvInit == Init => QInv
<1>1. Init => kernel = <<>>
  BY DEF Init
<1>2. Framed(<<>>)
  BY DEF Framed
<1> QED  BY <1>1, <1>2, HInvInit DEF QInv

(* What is left when the kernel's events are gone: the reports of the batch*)
LEMMA Front ==
  ASSUME TypeOK
  PROVE  /\ ReportsOf(batch) \in Seq(Reports) /\ ReportsOf(kernel) \in Seq(Reports)
         /\ ReportsOf(All) = ReportsOf(batch) \o ReportsOf(kernel)
         /\ \E n \in 0 .. Len(ReportsOf(All)) :
              ReportsOf(batch) = SubSeq(ReportsOf(All), 1, n)
<1>1. batch \in Seq(Raws) /\ kernel \in Seq(Raws)
  BY DEF TypeOK
<1> DEFINE a == ReportsOf(batch)  b == ReportsOf(kernel)
<1>2. a \in Seq(Reports) /\ b \in Seq(Reports) /\ ReportsOf(All) = a \o b
  BY <1>1, ReportsTyped, ReportsConcat DEF All
<1> HIDE DEF a, b
<1>3. Len(a) \in 0 .. Len(a \o b) /\ a = SubSeq(a \o b, 1, Len(a))
  <2> DEFINE c == a \o b
  <2>1. c \in Seq(Reports) /\ Len(a) \in 0 .. Len(c) /\ \A i \in 1 .. Len(a) : c[i] = a[i]
    BY <1>2
  <2> HIDE DEF c
  <2> DEFINE d == SubSeq(c, 1, Len(a))
  <2>2. d \in Seq(Reports) /\ Len(d) = Len(a) /\ \A i \in 1 .. Len(a) : d[i] = c[i]
    BY <2>1, Cut
  <2> HIDE DEF d
  <2>3. a = d
    BY <1>2, <2>1, <2>2
  <2> QED  BY <2>1, <2>3 DEF c, d
<1> QED  BY <1>2, <1>3 DEF a, b

LEMMA QueueStep ==
  QInv /\ QInv' /\ [Next]_vars => [Queue!Next]_<<ReportsOf(batch \o kernel), told>>
<1> SUFFICES ASSUME QInv, QInv', [Next]_vars
             PROVE  Queue!Next \/ UNCHANGED <<ReportsOf(All), told>>
  BY DEF All
<1>0. TypeOK /\ TypeOK' /\ Framed(kernel)
  BY DEF QInv, HInv
<1>1. CASE Open \/ Close
  <2>1. kernel' = <<>> /\ told' = <<>> /\ UNCHANGED batch
    BY <1>1 DEF Open, Close
  <2>2. All' = batch
    BY <1>0, <2>1 DEF All, TypeOK
  <2>3. Queue!Forget
    BY <1>0, <2>1, <2>2, Front DEF Queue!Forget, All
  <2> QED  BY <2>3 DEF Queue!Next
<1>2. CASE GetEvent
  <2>1. PICK taken : Took(taken)
    BY <1>0, <1>2, GetEventFacts
  <2>2. CASE ReportsOf(All') = ReportsOf(All) /\ UNCHANGED told
    BY <2>2
  <2>3. CASE /\ told' = <<Head(ReportsOf(All))>> /\ ReportsOf(All) # <<>>
             /\ ReportsOf(All') = Tail(ReportsOf(All))
    <3>1. Queue!Tell
      BY <2>3 DEF Queue!Tell, All
    <3> QED  BY <3>1 DEF Queue!Next
  <2> QED  BY <1>0, <2>1, <2>2, <2>3, TookReports
<1>3. CASE Wake
  BY <1>3 DEF Wake, All
<1>4. ASSUME NEW code \in KeyCodes, Key(code)
      PROVE  Queue!Next \/ UNCHANGED <<ReportsOf(All), told>>
  <2>1. CASE device = "open"
    <3>1. PICK value \in 0 .. 2 : KeyAll(code, value) /\ UNCHANGED told
      BY <1>0, <1>4, <2>1, KeyAllFacts
    <3> DEFINE raw == Raw(code, value)  r == Report(raw)  w == ReportsOf(All)
    <3>2. /\ raw \in Raws /\ raw # SYN /\ SYN \in Raws /\ r \in Reports
          /\ ReportsOf(<<raw, SYN>>) = <<r>> /\ ReportsOf(<<SYN, SYN>>) = <<>>
          /\ ReportsOf(<<SYN, raw, SYN>>) = <<r>>
      BY FrameReports
    <3>3. /\ batch \in Seq(Raws) /\ ReportsOf(batch) \in Seq(Reports) /\ w \in Seq(Reports)
          /\ ReportsOf(kernel) \in Seq(Reports) /\ w = ReportsOf(batch) \o ReportsOf(kernel)
      BY <1>0, Front, AllTyped, ReportsTyped DEF TypeOK
    <3>4. PICK n \in 0 .. Len(w) : ReportsOf(batch) = SubSeq(w, 1, n)
      BY <1>0, Front
    <3>5. Len(kernel) + 2 >= QueueSize => Len(w) >= (QueueSize - 3) \div 2
      <4>1. Len(kernel) <= 2 * Len(ReportsOf(kernel)) + 2
        BY <1>0, FramedRoom DEF TypeOK
      <4>2. Len(w) = Len(ReportsOf(batch)) + Len(ReportsOf(kernel))
        BY <3>3
      <4>3. Len(kernel) \in Nat
        BY <1>0 DEF TypeOK
      <4> DEFINE lw == Len(w)  lb == Len(ReportsOf(batch))  lk == Len(ReportsOf(kernel))
      <4>4. lb \in Nat /\ lk \in Nat
        BY <3>3
      <4>5. lw = lb + lk /\ Len(kernel) <= 2 * lk + 2
        BY <4>1, <4>2
      <4> HIDE DEF lw, lb, lk
      <4>6. Len(kernel) + 2 >= QueueSize => lw >= (QueueSize - 3) \div 2
        BY <4>3, <4>4, <4>5, QueueAssumption
      <4> QED  BY <4>6 DEF lw
    <3>6. \A tail \in Seq(Raws) : ReportsOf(batch \o tail) = ReportsOf(batch) \o ReportsOf(tail)
      BY <3>3, ReportsConcat
    <3>7. /\ <<raw, SYN>> \in Seq(Raws) /\ <<SYN, SYN>> \in Seq(Raws)
          /\ <<SYN, raw, SYN>> \in Seq(Raws)
      BY <3>2
    <3>8. CASE All' = All \o <<raw, SYN>>
      <4>1. ReportsOf(All') = w \o <<r>>
        BY <1>0, <3>2, <3>7, <3>8, AllTyped, ReportsConcat
      <4> HIDE DEF r, w
      <4>2. w \o <<r>> = Append(w, r)
        BY <3>2, <3>3
      <4>3. Queue!Happen
        BY <3>1, <3>2, <4>1, <4>2 DEF Queue!Happen, All, w
      <4> QED  BY <4>3 DEF Queue!Next
    <3>9. CASE Len(kernel) + 2 >= QueueSize /\ All' = batch \o <<SYN, raw, SYN>>
      <4>1. ReportsOf(All') = ReportsOf(batch) \o <<r>>
        BY <3>2, <3>6, <3>7, <3>9
      <4> HIDE DEF r, w
      <4>2. ReportsOf(batch) \o <<r>> = Append(ReportsOf(batch), r)
        BY <3>2, <3>3
      <4>3. ReportsOf(All') = Append(SubSeq(w, 1, n), r)
        BY <3>4, <4>1, <4>2
      <4>4. Len(w) >= (QueueSize - 3) \div 2
        BY <3>5, <3>9
      <4>5. Queue!Drop
        BY <3>1, <3>2, <3>4, <4>3, <4>4 DEF Queue!Drop, All, w
      <4> QED  BY <4>5 DEF Queue!Next
    <3>10. CASE Len(kernel) + 2 >= QueueSize /\ All' = batch \o <<SYN, SYN>>
      <4>1. ReportsOf(All') = ReportsOf(batch) \o <<>>
        BY <3>2, <3>6, <3>7, <3>10
      <4>2. ReportsOf(batch) \o <<>> = ReportsOf(batch)
        BY <3>3
      <4>3. ReportsOf(All') = SubSeq(w, 1, n) /\ Len(w) >= (QueueSize - 3) \div 2
        BY <3>4, <3>5, <3>10, <4>1, <4>2
      <4> HIDE DEF w
      <4>4. Queue!Drop
        BY <3>1, <3>4, <4>3 DEF Queue!Drop, All, w
      <4> QED  BY <4>4 DEF Queue!Next
    <3> QED  BY <3>1, <3>8, <3>9, <3>10 DEF KeyAll
  <2>2. CASE device # "open"
    BY <1>0, <1>4, <2>2, KeyFacts DEF All
  <2> QED  BY <2>1, <2>2
<1>5. CASE UNCHANGED vars
  BY <1>5 DEF vars, All
<1> QED  BY <1>1, <1>2, <1>3, <1>4, <1>5 DEF Next

(* Key events are reported each once and in order, whatever the batches,   *)
(* also to the next client of a device closed with a batch half read; the  *)
(* newest are dropped when the kernel's buffer is full, and no others.     *)
THEOREM KeysImplementsQueue == Spec => ImplementsQueue
<1>1. Init => Queue!Init
  <2>1. Readable(<<>>) = {} /\ <<>> \in Seq(Raws) /\ <<>> \o <<>> = <<>>
    BY DEF Readable
  <2>2. ReportsOf(<<>>) = <<>>
    BY <2>1, ReportsSilent
  <2> QED  BY <2>1, <2>2 DEF Init, Queue!Init
<1>2. QInv /\ [Next]_vars => QInv'
  BY QInvStep
<1>3. QInv /\ QInv' /\ [Next]_vars => [Queue!Next]_<<ReportsOf(batch \o kernel), told>>
  BY QueueStep
<1> QED  BY <1>1, <1>2, <1>3, QInvInit, PTL DEF Spec, ImplementsQueue, Queue!Spec
=============================================================================
