-------------------------- MODULE PciConfigProofs --------------------------
(***************************************************************************)
(* Theorems about get_goya_pci_info, for machines with any number of       *)
(* resource descriptors in any number of lists, cut anywhere: the handles  *)
(* of the walk, the descriptors the parser takes, and what is returned.    *)
(***************************************************************************)
EXTENDS PciConfig, ArithmeticLemmas

-----------------------------------------------------------------------------
(***************************************************************************)
(* FlattenSeq, list by list.                                               *)
(***************************************************************************)
\* f joins the first n lists of s.
Joins(f, s, n) ==
    f = [i \in 1 .. n |-> IF i = 1 THEN s[i] ELSE f[i - 1] \o s[i]]

Agree(s, t, n) == \A i \in 1 .. n : s[i] = t[i]

LEMMA JoinsAgree ==
    ASSUME NEW f, NEW g, NEW s, NEW t, NEW n \in Nat, NEW m \in Nat,
           Joins(f, s, n), Joins(g, t, m), n <= m, Agree(s, t, n)
    PROVE  Agree(f, g, n)
<1> DEFINE T == {i \in 1 .. n : f[i] # g[i]}
<1>1. ASSUME NEW i \in 1 .. n
      PROVE  /\ f[i] = IF i = 1 THEN s[i] ELSE f[i - 1] \o s[i]
             /\ g[i] = IF i = 1 THEN s[i] ELSE g[i - 1] \o s[i]
  <2>1. i \in 1 .. m
    OBVIOUS
  <2>2. f[i] = IF i = 1 THEN s[i] ELSE f[i - 1] \o s[i]
    BY Zenon DEF Joins
  <2>3. g[i] = IF i = 1 THEN t[i] ELSE g[i - 1] \o t[i]
    BY <2>1, Zenon DEF Joins
  <2> QED
    BY <2>2, <2>3 DEF Agree
<1>2. ASSUME T # {} PROVE FALSE
  <2>1. T \in SUBSET Nat
    OBVIOUS
  <2>2. PICK x \in T : \A y \in T : x <= y
    BY <1>2, <2>1, Least
  <2>3. x \in 1 .. n /\ f[x] # g[x]
    OBVIOUS
  <2>4. CASE x = 1
    BY <1>1, <2>3, <2>4
  <2>5. CASE x # 1
    <3>1. x - 1 \in 1 .. n /\ ~(x <= x - 1)
      BY <2>3, <2>5
    <3>2. f[x - 1] = g[x - 1]
      BY <2>2, <3>1
    <3> QED
      BY <1>1, <2>3, <2>5, <3>2
  <2> QED
    BY <2>4, <2>5
<1> QED
  BY <1>2 DEF Agree

LEMMA JoinsExist ==
    ASSUME NEW s, NEW n \in Nat
    PROVE  \E f : Joins(f, s, n)
<1> DEFINE T == {m \in Nat : ~ \E f : Joins(f, s, m)}
<1>1. ASSUME T # {} PROVE FALSE
  <2>1. T \in SUBSET Nat
    OBVIOUS
  <2>2. PICK x \in T : \A y \in T : x <= y
    BY <1>1, <2>1, Least
  <2>3. x # 0
    <3>1. Joins([i \in 1 .. 0 |-> 0], s, 0)
      BY DEF Joins
    <3> QED
      BY <3>1
  <2>4. x \in Nat /\ x - 1 \in Nat /\ ~(x <= x - 1)
    BY <2>3
  <2>5. PICK f : Joins(f, s, x - 1)
    BY <2>2, <2>4
  <2> DEFINE g == [i \in 1 .. x |-> IF i < x THEN f[i]
                                   ELSE IF i = 1 THEN s[i] ELSE f[i - 1] \o s[i]]
  <2>6. ASSUME NEW i \in 1 .. x
        PROVE  g[i] = IF i = 1 THEN s[i] ELSE g[i - 1] \o s[i]
    <3>1. CASE i = x
      <4>1. i # 1 => i - 1 \in 1 .. x /\ i - 1 < x
        BY <2>4, <3>1
      <4>2. i # 1 => g[i - 1] = f[i - 1]
        BY <4>1
      <4>3. g[i] = IF i = 1 THEN s[i] ELSE f[i - 1] \o s[i]
        BY <3>1, <2>4
      <4> QED
        BY <4>2, <4>3
    <3>2. CASE i # x
      <4>1. i \in 1 .. x - 1 /\ i < x /\ (i # 1 => i - 1 \in 1 .. x /\ i - 1 < x)
        BY <2>4, <3>2
      <4>2. g[i] = f[i] /\ (i # 1 => g[i - 1] = f[i - 1])
        BY <4>1
      <4>3. f[i] = IF i = 1 THEN s[i] ELSE f[i - 1] \o s[i]
        BY <2>5, <4>1, Zenon DEF Joins
      <4> HIDE DEF g
      <4> QED
        BY <4>2, <4>3
    <3> QED
      BY <3>1, <3>2
  <2>7. g = [i \in 1 .. x |-> g[i]]
    OBVIOUS
  <2> HIDE DEF g
  <2>8. Joins(g, s, x)
    BY <2>6, <2>7, Zenon DEF Joins
  <2> QED
    BY <2>2, <2>8
<1> QED
  BY <1>1

LEMMA FlattenJoins ==
    ASSUME NEW s, Len(s) \in Nat, Len(s) # 0
    PROVE  \E f : Joins(f, s, Len(s)) /\ FlattenSeq(s) = f[Len(s)]
<1> DEFINE J(f) == f = [i \in 1 .. Len(s) |-> IF i = 1 THEN s[i] ELSE f[i - 1] \o s[i]]
           c == CHOOSE f : J(f)
<1>1. \E f : J(f)
  BY JoinsExist DEF Joins
<1>2. J(c)
  BY <1>1, Zenon
<1>3. FlattenSeq(s) = c[Len(s)]
  BY Zenon DEF FlattenSeq
<1>4. Joins(c, s, Len(s))
  BY <1>2, Zenon DEF Joins
<1> HIDE DEF c
<1> QED
  BY <1>3, <1>4

\* The first k lists joined.
FlatTo(s, k) == FlattenSeq(SubSeq(s, 1, k))

LEMMA FirstLists ==
    ASSUME NEW S, NEW s \in Seq(S), NEW k \in 0 .. Len(s)
    PROVE  /\ SubSeq(s, 1, k) \in Seq(S) /\ Len(SubSeq(s, 1, k)) = k
           /\ \A i \in 1 .. k : SubSeq(s, 1, k)[i] = s[i]
OBVIOUS

LEMMA FlatUnfold ==
    ASSUME NEW S, NEW s \in Seq(Seq(S))
    PROVE  /\ FlatTo(s, 0) = << >>
           /\ FlatTo(s, Len(s)) = FlattenSeq(s)
           /\ \A k \in 1 .. Len(s) :
                 k # 1 => FlatTo(s, k) = FlatTo(s, k - 1) \o s[k]
           /\ Len(s) # 0 => FlatTo(s, 1) = s[1]
<1> DEFINE t(k) == SubSeq(s, 1, k)
<1>1. ASSUME NEW k \in 0 .. Len(s)
      PROVE  t(k) \in Seq(Seq(S)) /\ Len(t(k)) = k /\ \A i \in 1 .. k : t(k)[i] = s[i]
  <2>1. s \in Seq(Seq(S))
    OBVIOUS
  <2> QED
    BY <2>1, FirstLists, Zenon
<1>2. FlatTo(s, 0) = << >>
  <2>1. t(0) = << >>
    OBVIOUS
  <2>2. FlattenSeq(<< >>) = << >>
    BY DEF FlattenSeq
  <2> QED
    BY <2>1, <2>2 DEF FlatTo
<1>3. FlatTo(s, Len(s)) = FlattenSeq(s)
  <2>1. t(Len(s)) = s
    OBVIOUS
  <2> QED
    BY <2>1 DEF FlatTo
<1>4. ASSUME NEW k \in 1 .. Len(s)
      PROVE  \E f : Joins(f, t(k), k) /\ FlatTo(s, k) = f[k]
  <2>1. Len(t(k)) = k /\ k \in Nat /\ k # 0
    BY <1>1
  <2> HIDE DEF t
  <2>2. \E f : Joins(f, t(k), Len(t(k))) /\ FlattenSeq(t(k)) = f[Len(t(k))]
    BY <2>1, FlattenJoins
  <2>3. FlatTo(s, k) = FlattenSeq(t(k))
    BY DEF FlatTo, t
  <2> QED
    BY <2>1, <2>2, <2>3
<1>5. ASSUME NEW k \in 1 .. Len(s), k # 1
      PROVE  FlatTo(s, k) = FlatTo(s, k - 1) \o s[k]
  <2>1. k - 1 \in 1 .. Len(s) /\ k \in Nat /\ k - 1 \in Nat /\ k - 1 <= k
        /\ k \in 1 .. k /\ k - 1 \in 1 .. k - 1
    BY <1>5
  <2>2. PICK f : Joins(f, t(k), k) /\ FlatTo(s, k) = f[k]
    BY <1>4
  <2>3. PICK g : Joins(g, t(k - 1), k - 1) /\ FlatTo(s, k - 1) = g[k - 1]
    BY <1>4, <2>1
  <2>4. \A i \in 1 .. k - 1 : t(k - 1)[i] = t(k)[i]
    BY <2>1, <1>1
  <2>5. t(k)[k] = s[k]
    BY <1>1, <2>1
  <2> HIDE DEF t
  <2>6. g[k - 1] = f[k - 1]
    <3> DEFINE a == t(k - 1)
               b == t(k)
               m == k - 1
    <3>2. /\ Joins(g, a, m) /\ Joins(f, b, k) /\ Agree(a, b, m)
          /\ m \in Nat /\ k \in Nat /\ m <= k
      BY <2>1, <2>2, <2>3, <2>4, Zenon DEF Agree
    <3> HIDE DEF a, b, m
    <3>3. Agree(g, f, m)
      BY <3>2, JoinsAgree
    <3>1. \A i \in 1 .. k - 1 : g[i] = f[i]
      BY <3>3 DEF m, Agree
    <3> QED
      BY <2>1, <3>1, Zenon
  <2>7. f[k] = f[k - 1] \o t(k)[k]
    BY <1>5, <2>1, <2>2, Zenon DEF Joins
  <2> QED
    BY <2>2, <2>3, <2>5, <2>6, <2>7
<1>6. ASSUME Len(s) # 0 PROVE FlatTo(s, 1) = s[1]
  <2>1. 1 \in 1 .. Len(s) /\ 1 \in 1 .. 1
    BY <1>6
  <2>2. PICK f : Joins(f, t(1), 1) /\ FlatTo(s, 1) = f[1]
    BY <1>4, <2>1
  <2>3. t(1)[1] = s[1]
    BY <1>1, <2>1
  <2> HIDE DEF t
  <2>4. f[1] = t(1)[1]
    BY <2>1, <2>2, Zenon DEF Joins
  <2> QED
    BY <2>2, <2>3, <2>4
<1> QED
  BY <1>2, <1>3, <1>5, <1>6

\* Each list is appended to the ones before it.
LEMMA FlatStep ==
    ASSUME NEW S, NEW s \in Seq(Seq(S)), NEW k \in 1 .. Len(s)
    PROVE  FlatTo(s, k - 1) \in Seq(S) => FlatTo(s, k) = FlatTo(s, k - 1) \o s[k]
<1>1. s[k] \in Seq(S)
  OBVIOUS
<1>2. << >> \o s[k] = s[k]
  BY <1>1
<1>3. CASE k = 1
  <2>1. FlatTo(s, 0) = << >> /\ FlatTo(s, 1) = s[1]
    <3>1. Len(s) # 0
      OBVIOUS
    <3> QED
      BY <3>1, FlatUnfold, Zenon
  <2>2. k - 1 = 0
    BY <1>3
  <2> QED
    BY <1>2, <1>3, <2>1, <2>2
<1>4. CASE k # 1
  BY <1>4, FlatUnfold, Zenon
<1> QED
  BY <1>3, <1>4

LEMMA FlatType ==
    ASSUME NEW S, NEW s \in Seq(Seq(S))
    PROVE  \A k \in 0 .. Len(s) : FlatTo(s, k) \in Seq(S)
<1> DEFINE T == {k \in 0 .. Len(s) : FlatTo(s, k) \notin Seq(S)}
<1>1. ASSUME T # {} PROVE FALSE
  <2>1. T \in SUBSET Nat
    OBVIOUS
  <2>2. PICK x \in T : \A y \in T : x <= y
    BY <1>1, <2>1, Least
  <2>3. x \in 0 .. Len(s) /\ FlatTo(s, x) \notin Seq(S)
    OBVIOUS
  <2>4. x # 0
    <3>1. FlatTo(s, 0) = << >> /\ << >> \in Seq(S)
      <4>1. FlatTo(s, 0) = << >>
        BY FlatUnfold, Zenon
      <4> QED
        BY <4>1
    <3> QED
      BY <2>3, <3>1
  <2>5. x \in 1 .. Len(s) /\ x - 1 \in 0 .. Len(s) /\ ~(x <= x - 1)
    BY <2>3, <2>4
  <2>6. FlatTo(s, x - 1) \in Seq(S)
    BY <2>2, <2>5
  <2>7. FlatTo(s, x) = FlatTo(s, x - 1) \o s[x] /\ s[x] \in Seq(S)
    <3>1. FlatTo(s, x) = FlatTo(s, x - 1) \o s[x]
      BY <2>5, <2>6, FlatStep, Zenon
    <3>2. s[x] \in Seq(S)
      BY <2>5
    <3> QED
      BY <3>1, <3>2
  <2> QED
    BY <2>3, <2>6, <2>7
<1> QED
  BY <1>1

\* How long the first k lists are together, and where the elements of a list
\* come to stand.
LEMMA FlatPlaces ==
    ASSUME NEW S, NEW s \in Seq(Seq(S))
    PROVE  /\ FlattenSeq(s) \in Seq(S)
           /\ Len(FlatTo(s, 0)) = 0
           /\ Len(FlatTo(s, Len(s))) = Len(FlattenSeq(s))
           /\ \A k \in 0 .. Len(s) : Len(FlatTo(s, k)) \in Nat
           /\ \A k \in 1 .. Len(s) :
                 /\ Len(FlatTo(s, k)) = Len(FlatTo(s, k - 1)) + Len(s[k])
                 /\ Len(FlatTo(s, k)) <= Len(FlattenSeq(s))
                 /\ \A m \in 1 .. Len(s[k]) :
                       FlattenSeq(s)[Len(FlatTo(s, k - 1)) + m] = s[k][m]
<1> DEFINE F(k) == FlatTo(s, k)
           n == Len(s)
<1>1. n \in Nat /\ F(0) = << >> /\ F(n) = FlattenSeq(s)
      /\ \A k \in 0 .. n : F(k) \in Seq(S)
  <2>1. F(0) = << >> /\ F(n) = FlattenSeq(s)
    BY FlatUnfold, Zenon
  <2>2. \A k \in 0 .. n : F(k) \in Seq(S)
    BY FlatType, Zenon
  <2>3. n \in Nat
    OBVIOUS
  <2> QED
    BY <2>1, <2>2, <2>3, Zenon
<1>2. ASSUME NEW k \in 1 .. n
      PROVE  F(k) = F(k - 1) \o s[k] /\ s[k] \in Seq(S) /\ F(k - 1) \in Seq(S) /\ F(k) \in Seq(S)
  <2>1. k - 1 \in 0 .. n /\ k \in 0 .. n /\ s[k] \in Seq(S)
    OBVIOUS
  <2> QED
    BY <1>1, <2>1, FlatStep
<1> HIDE DEF F
\* What was joined stays in its place.
<1>3. \A k \in 0 .. n : /\ Len(F(k)) <= Len(F(n))
                        /\ \A i \in 1 .. Len(F(k)) : F(n)[i] = F(k)[i]
  <2> DEFINE P(k) == /\ Len(F(k)) <= Len(F(n))
                     /\ \A i \in 1 .. Len(F(k)) : F(n)[i] = F(k)[i]
             T == {d \in 0 .. n : ~P(n - d)}
  <2>1. ASSUME T # {} PROVE FALSE
    <3>1. T \in SUBSET Nat
      BY <1>1
    <3>2. PICK x \in T : \A y \in T : x <= y
      BY <2>1, <3>1, Least
    <3>3. x \in 0 .. n /\ ~P(n - x)
      OBVIOUS
    <3>4. x # 0
      <4>1. Len(F(n)) \in Nat
        BY <1>1
      <4>2. P(n)
        BY <4>1
      <4>3. n - 0 = n
        BY <1>1
      <4> QED
        BY <3>3, <4>2, <4>3
    <3> DEFINE k == n - x + 1
    <3>5. /\ k \in 1 .. n /\ k - 1 = n - x /\ x - 1 \in 0 .. n /\ n - (x - 1) = k
          /\ ~(x <= x - 1)
      BY <1>1, <3>3, <3>4
    <3>6. P(k)
      BY <3>2, <3>5
    <3> HIDE DEF k
    <3>7. F(k) = F(k - 1) \o s[k] /\ s[k] \in Seq(S) /\ F(k - 1) \in Seq(S)
      BY <1>2, <3>5
    <3>8. /\ Len(F(k)) = Len(F(k - 1)) + Len(s[k]) /\ Len(F(k - 1)) \in Nat
          /\ Len(s[k]) \in Nat
          /\ \A i \in 1 .. Len(F(k - 1)) : F(k)[i] = F(k - 1)[i]
      BY <3>7
    <3>9. P(k - 1)
      <4>1. Len(F(n)) \in Nat
        BY <1>1
      <4>2. Len(F(k - 1)) <= Len(F(n))
        <5> DEFINE a == Len(F(k - 1))
                   b == Len(F(k))
                   c == Len(F(n))
                   d == Len(s[k])
        <5>1. a \in Nat /\ c \in Nat /\ d \in Nat /\ b = a + d /\ b <= c
          BY <3>6, <3>8, <4>1, Zenon
        <5> HIDE DEF a, b, c, d
        <5>2. a <= c
          BY <5>1
        <5> QED
          BY <5>2 DEF a, c
      <4>3. ASSUME NEW i \in 1 .. Len(F(k - 1)) PROVE F(n)[i] = F(k - 1)[i]
        <5>1. i \in 1 .. Len(F(k))
          <6> DEFINE a == Len(F(k - 1))
                     b == Len(F(k))
                     d == Len(s[k])
          <6>1. a \in Nat /\ d \in Nat /\ b = a + d /\ i \in 1 .. a
            BY <3>8, Zenon
          <6> HIDE DEF a, b, d
          <6>2. i \in 1 .. b
            BY <6>1
          <6> QED
            BY <6>2 DEF b
        <5> QED
          BY <3>6, <3>8, <5>1
      <4> QED
        BY <4>2, <4>3
    <3> QED
      BY <3>3, <3>5, <3>9
  <2>2. ASSUME NEW k \in 0 .. n PROVE P(k)
    <3>1. n - k \in 0 .. n /\ n - (n - k) = k
      BY <1>1
    <3> QED
      BY <2>1, <3>1
  <2> QED
    BY <2>2
<1>4. ASSUME NEW k \in 1 .. n
      PROVE  /\ Len(F(k)) = Len(F(k - 1)) + Len(s[k])
             /\ Len(F(k)) <= Len(F(n))
             /\ \A m \in 1 .. Len(s[k]) : F(n)[Len(F(k - 1)) + m] = s[k][m]
  <2>1. /\ Len(F(k)) = Len(F(k - 1)) + Len(s[k]) /\ Len(F(k - 1)) \in Nat
        /\ Len(s[k]) \in Nat
        /\ \A m \in 1 .. Len(s[k]) : F(k)[Len(F(k - 1)) + m] = s[k][m]
    <3>1. F(k) = F(k - 1) \o s[k] /\ s[k] \in Seq(S) /\ F(k - 1) \in Seq(S)
      BY <1>2, Zenon
    <3> DEFINE a == F(k - 1)
               b == s[k]
    <3> HIDE DEF a, b
    <3>2. a \in Seq(S) /\ b \in Seq(S) /\ F(k) = a \o b
      BY <3>1 DEF a, b
    <3>3. /\ Len(a \o b) = Len(a) + Len(b) /\ Len(a) \in Nat /\ Len(b) \in Nat
          /\ \A m \in 1 .. Len(b) : (a \o b)[Len(a) + m] = b[m]
      BY <3>2
    <3> QED
      BY <3>2, <3>3, Zenon DEF a, b
  <2>2. k \in 0 .. n
    OBVIOUS
  <2>3. ASSUME NEW m \in 1 .. Len(s[k]) PROVE F(n)[Len(F(k - 1)) + m] = s[k][m]
    <3>1. Len(F(k - 1)) + m \in 1 .. Len(F(k))
      BY <2>1
    <3> QED
      BY <1>3, <2>1, <2>2, <3>1
  <2> QED
    BY <1>3, <2>1, <2>2, <2>3
<1>5. Len(F(0)) = 0 /\ F(n) \in Seq(S) /\ \A k \in 0 .. n : Len(F(k)) \in Nat
  BY <1>1
<1> QED
  BY <1>1, <1>4, <1>5 DEF F

-----------------------------------------------------------------------------
(***************************************************************************)
(* What stands where in a resource list.                                   *)
(***************************************************************************)
LEMMA Joined ==
    ASSUME NEW a, NEW b, a \in Seq(Nat), b \in Seq(Nat)
    PROVE  /\ a \o b \in Seq(Nat) /\ Len(a \o b) = Len(a) + Len(b)
           /\ Len(a) \in Nat /\ Len(b) \in Nat
           /\ \A k \in 1 .. Len(a) : (a \o b)[k] = a[k]
           /\ \A k \in 1 .. Len(b) : (a \o b)[Len(a) + k] = b[k]
OBVIOUS

LEMMA PartialCells ==
    ASSUME NEW d \in Descriptor
    PROVE  /\ Partial(d) \in Seq(Nat) /\ Len(Partial(d)) = 4
           /\ Partial(d)[1] = d.type /\ Partial(d)[2] = d.start[1]
           /\ Partial(d)[3] = d.start[2] /\ Partial(d)[4] = d.length
           /\ d.type \in {1, 2, 3} /\ d.start = << d.start[1], d.start[2] >>
           /\ d = [type |-> d.type, start |-> d.start, length |-> d.length]
<1>1. /\ d.type \in {1, 2, 3} /\ d.start \in Nat \X Nat /\ d.length \in Nat
      /\ d = [type |-> d.type, start |-> d.start, length |-> d.length]
  BY DEF Descriptor, Port, Interrupt, Memory
<1>2. d.start[1] \in Nat /\ d.start[2] \in Nat /\ d.start = << d.start[1], d.start[2] >>
  BY <1>1
<1>3. d.type \in Nat
  BY <1>1
<1>4. /\ Partial(d) \in Seq(Nat) /\ Len(Partial(d)) = 4
      /\ Partial(d)[1] = d.type /\ Partial(d)[2] = d.start[1]
      /\ Partial(d)[3] = d.start[2] /\ Partial(d)[4] = d.length
  BY <1>1, <1>2, <1>3 DEF Partial
<1> QED
  BY <1>1, <1>2, <1>4

Partials(l) == [j \in DOMAIN l |-> Partial(l[j])]

LEMMA PartialsType ==
    ASSUME NEW l \in Seq(Descriptor)
    PROVE  /\ Partials(l) \in Seq(Seq(Nat)) /\ Len(Partials(l)) = Len(l)
           /\ \A m \in 1 .. Len(l) :
                 Partials(l)[m] = Partial(l[m]) /\ Len(Partials(l)[m]) = 4
<1>1. DOMAIN l = 1 .. Len(l) /\ Len(l) \in Nat /\ \A m \in 1 .. Len(l) : l[m] \in Descriptor
  OBVIOUS
<1>2. \A m \in 1 .. Len(l) : Partial(l[m]) \in Seq(Nat) /\ Len(Partial(l[m])) = 4
  BY <1>1, PartialCells, Zenon
<1>3. Partials(l) \in [1 .. Len(l) -> Seq(Nat)]
  BY <1>1, <1>2 DEF Partials
<1>4. \A m \in 1 .. Len(l) : Partials(l)[m] = Partial(l[m])
  BY <1>1, Zenon DEF Partials
<1>5. Partials(l) \in Seq(Seq(Nat)) /\ Len(Partials(l)) = Len(l)
  BY <1>1, <1>3
<1> QED
  BY <1>2, <1>4, <1>5

\* Partial descriptors of four cells each.
LEMMA PartialsPlaces ==
    ASSUME NEW l \in Seq(Descriptor)
    PROVE  \A m \in 0 .. Len(l) : Len(FlatTo(Partials(l), m)) = 4 * m
<1> DEFINE s == Partials(l)
           L(m) == Len(FlatTo(s, m))
           T == {m \in 0 .. Len(l) : L(m) # 4 * m}
<1>1. s \in Seq(Seq(Nat)) /\ Len(s) = Len(l) /\ \A m \in 1 .. Len(l) : Len(s[m]) = 4
  BY PartialsType, Zenon
<1> HIDE DEF s
<1>2. /\ L(0) = 0
      /\ \A k \in 1 .. Len(s) : L(k) = L(k - 1) + Len(s[k])
  BY <1>1, FlatPlaces, Zenon
<1> HIDE DEF L
<1>3. ASSUME T # {} PROVE FALSE
  <2>1. T \in SUBSET Nat
    OBVIOUS
  <2>2. PICK x \in T : \A y \in T : x <= y
    BY <1>3, <2>1, Least
  <2>3. x \in 0 .. Len(l) /\ L(x) # 4 * x
    OBVIOUS
  <2>4. x # 0
    BY <1>2, <2>3
  <2>5. x \in 1 .. Len(l) /\ x - 1 \in 0 .. Len(l) /\ ~(x <= x - 1)
    BY <2>3, <2>4
  <2>6. L(x - 1) = 4 * (x - 1)
    BY <2>2, <2>5
  <2>7. L(x) = L(x - 1) + 4
    BY <1>1, <1>2, <2>5
  <2> QED
    BY <2>3, <2>6, <2>7
<1> QED
  BY <1>3 DEF L, s

LEMMA FullCells ==
    ASSUME NEW l \in Seq(Descriptor)
    PROVE  /\ Full(l) \in Seq(Nat) /\ Len(Full(l)) = 4 + 4 * Len(l)
           /\ Full(l)[4] = Len(l)
           /\ \A m \in 1 .. Len(l), c \in 1 .. 4 :
                 Full(l)[4 * m + c] = Partial(l[m])[c]
<1> DEFINE s == Partials(l)
           h == << 5, 0, 1, Len(l) >>
           f == FlattenSeq(s)
<1>1. /\ s \in Seq(Seq(Nat)) /\ Len(s) = Len(l) /\ Len(l) \in Nat
      /\ \A m \in 1 .. Len(l) : s[m] = Partial(l[m]) /\ Len(s[m]) = 4
  <2>1. Len(l) \in Nat
    OBVIOUS
  <2> QED
    BY <2>1, PartialsType, Zenon
<1>2. \A m \in 0 .. Len(l) : Len(FlatTo(s, m)) = 4 * m
  BY PartialsPlaces, Zenon
<1>3. Full(l) = h \o f
  BY DEF Full, Partials
<1> HIDE DEF s
<1>4. /\ f \in Seq(Nat) /\ Len(FlatTo(s, Len(s))) = Len(f)
      /\ \A m \in 1 .. Len(s) : \A c \in 1 .. Len(s[m]) :
            f[Len(FlatTo(s, m - 1)) + c] = s[m][c]
  <2>1. /\ FlattenSeq(s) \in Seq(Nat)
        /\ Len(FlatTo(s, Len(s))) = Len(FlattenSeq(s))
        /\ \A k \in 1 .. Len(s) :
              \A m \in 1 .. Len(s[k]) :
                 FlattenSeq(s)[Len(FlatTo(s, k - 1)) + m] = s[k][m]
    <3>1. s \in Seq(Seq(Nat))
      BY <1>1
    <3> QED
      BY <3>1, FlatPlaces, Zenon
  <2> QED
    BY <2>1
<1> HIDE DEF f
<1>5. Len(f) = 4 * Len(l)
  BY <1>1, <1>2, <1>4
<1>6. h \in Seq(Nat) /\ Len(h) = 4 /\ h[4] = Len(l)
  BY <1>1
<1> HIDE DEF h
<1>j. /\ h \o f \in Seq(Nat) /\ Len(h \o f) = Len(h) + Len(f)
      /\ \A k \in 1 .. Len(h) : (h \o f)[k] = h[k]
      /\ \A k \in 1 .. Len(f) : (h \o f)[Len(h) + k] = f[k]
  <2>1. h \in Seq(Nat) /\ f \in Seq(Nat)
    BY <1>4, <1>6, Zenon
  <2> QED
    BY <2>1, Joined
<1>7. h \o f \in Seq(Nat) /\ Len(h \o f) = 4 + 4 * Len(l)
  BY <1>5, <1>6, <1>j
<1>8. (h \o f)[4] = Len(l)
  BY <1>6, <1>j
<1>9. ASSUME NEW m \in 1 .. Len(l), NEW c \in 1 .. 4
      PROVE  (h \o f)[4 * m + c] = Partial(l[m])[c]
  <2>0. Len(s[m]) = 4 /\ Len(l) \in Nat /\ Len(s) = Len(l)
    BY <1>1, Zenon
  <2>1. m - 1 \in 0 .. Len(l) /\ m \in 1 .. Len(s) /\ c \in 1 .. Len(s[m])
    BY <2>0
  <2>2. f[4 * (m - 1) + c] = Partial(l[m])[c]
    BY <1>1, <1>2, <1>4, <2>1
  <2> DEFINE q == 4 * (m - 1) + c
  <2>3. q \in 1 .. Len(f) /\ 4 * m + c = 4 + q
    BY <1>1, <1>5
  <2> HIDE DEF q
  <2>4. (h \o f)[4 + q] = f[q]
    BY <1>6, <1>j, <2>3
  <2> QED
    BY <2>2, <2>3, <2>4 DEF q
<1> QED
  BY <1>3, <1>7, <1>8, <1>9

\* The descriptors in the first k lists of a value.
Before(v, k) == Len(FlatTo(v.lists, k))

IsValue(v) == v.lists \in Seq(Seq(Descriptor)) /\ v.cut \in Nat

Fulls(v) == [j \in DOMAIN v.lists |-> Full(v.lists[j])]

LEMMA FullsType ==
    ASSUME NEW v, IsValue(v)
    PROVE  /\ Fulls(v) \in Seq(Seq(Nat)) /\ Len(Fulls(v)) = Len(v.lists)
           /\ \A k \in 1 .. Len(v.lists) :
                 /\ v.lists[k] \in Seq(Descriptor)
                 /\ Fulls(v)[k] = Full(v.lists[k])
                 /\ Len(Fulls(v)[k]) = 4 + 4 * Len(v.lists[k])
<1> DEFINE l == v.lists
<1>1. l \in Seq(Seq(Descriptor))
  BY DEF IsValue
<1> HIDE DEF l
<1>2. /\ DOMAIN l = 1 .. Len(l) /\ Len(l) \in Nat
      /\ \A k \in 1 .. Len(l) : l[k] \in Seq(Descriptor)
  BY <1>1
<1>3. \A k \in 1 .. Len(l) :
         Full(l[k]) \in Seq(Nat) /\ Len(Full(l[k])) = 4 + 4 * Len(l[k])
  BY <1>2, FullCells, Zenon
<1> DEFINE f == [j \in DOMAIN l |-> Full(l[j])]
<1>4. f \in [1 .. Len(l) -> Seq(Nat)] /\ \A k \in 1 .. Len(l) : f[k] = Full(l[k])
  BY <1>2, <1>3
<1>5. f = Fulls(v)
  BY DEF Fulls, l
<1> HIDE DEF f
<1>6. f \in Seq(Seq(Nat)) /\ Len(f) = Len(l)
  BY <1>2, <1>4
<1> QED
  BY <1>2, <1>3, <1>4, <1>5, <1>6 DEF l

\* How the lists of a value and its descriptors are numbered.
LEMMA BeforeStep ==
    ASSUME NEW v, IsValue(v)
    PROVE  /\ Len(v.lists) \in Nat /\ FlattenSeq(v.lists) \in Seq(Descriptor)
           /\ Before(v, 0) = 0 /\ Before(v, Len(v.lists)) = Len(FlattenSeq(v.lists))
           /\ \A k \in 0 .. Len(v.lists) : Before(v, k) \in Nat
           /\ \A k \in 1 .. Len(v.lists) :
                 /\ Len(v.lists[k]) \in Nat
                 /\ Before(v, k) = Before(v, k - 1) + Len(v.lists[k])
                 /\ Before(v, k) <= Len(FlattenSeq(v.lists))
                 /\ \A m \in 1 .. Len(v.lists[k]) :
                       FlattenSeq(v.lists)[Before(v, k - 1) + m] = v.lists[k][m]
<1>1. v.lists \in Seq(Seq(Descriptor))
  BY DEF IsValue
<1>2. Len(v.lists) \in Nat /\ \A k \in 1 .. Len(v.lists) : Len(v.lists[k]) \in Nat
  BY <1>1
<1> QED
  BY <1>1, <1>2, FlatPlaces, Zenon DEF Before

\* Where the full descriptors stand.
LEMMA FullsPlaces ==
    ASSUME NEW v, IsValue(v)
    PROVE  \A k \in 0 .. Len(v.lists) :
              Len(FlatTo(Fulls(v), k)) = 4 * k + 4 * Before(v, k)
<1> DEFINE s == Fulls(v)
           n == Len(v.lists)
           L(k) == Len(FlatTo(s, k))
           B(k) == Before(v, k)
           c(k) == Len(v.lists[k])
           T == {k \in 0 .. n : L(k) # 4 * k + 4 * B(k)}
<1>1. /\ s \in Seq(Seq(Nat)) /\ Len(s) = n
      /\ \A k \in 1 .. n : Len(s[k]) = 4 + 4 * c(k)
  BY FullsType, Zenon
<1>2. /\ n \in Nat /\ B(0) = 0 /\ \A k \in 0 .. n : B(k) \in Nat
      /\ \A k \in 1 .. n : B(k) = B(k - 1) + c(k) /\ c(k) \in Nat
  BY BeforeStep, Zenon
<1> HIDE DEF s, n, B, c
<1>3. /\ L(0) = 0
      /\ \A k \in 1 .. Len(s) : L(k) = L(k - 1) + Len(s[k])
  BY <1>1, FlatPlaces, Zenon
<1> HIDE DEF L
<1>4. ASSUME T # {} PROVE FALSE
  <2>1. T \in SUBSET Nat
    OBVIOUS
  <2>2. PICK x \in T : \A y \in T : x <= y
    BY <1>4, <2>1, Least
  <2>3. x \in 0 .. n /\ L(x) # 4 * x + 4 * B(x)
    OBVIOUS
  <2>4. x # 0
    BY <1>2, <1>3, <2>3
  <2>5. x \in 1 .. n /\ x - 1 \in 0 .. n /\ ~(x <= x - 1)
    BY <1>2, <2>3, <2>4
  <2>6. L(x - 1) = 4 * (x - 1) + 4 * B(x - 1)
    BY <2>2, <2>5
  <2>7. L(x) = L(x - 1) + (4 + 4 * c(x))
    BY <1>1, <1>3, <2>5
  <2>8. B(x) = B(x - 1) + c(x) /\ c(x) \in Nat /\ B(x - 1) \in Nat
    BY <1>2, <2>5
  <2> QED
    BY <2>3, <2>5, <2>6, <2>7, <2>8
<1> QED
  BY <1>4 DEF L, s, n, B

\* The cells of a value: the number of its lists, the number of descriptors in
\* the header of each, and the four cells of each descriptor.
LEMMA WholeCells ==
    ASSUME NEW v, IsValue(v)
    PROVE  /\ Whole(v) \in Seq(Nat) /\ Whole(v)[1] = Len(v.lists)
           /\ Len(Whole(v)) = 1 + 4 * Len(v.lists) + 4 * Before(v, Len(v.lists))
           /\ \A k \in 1 .. Len(v.lists) :
                 \A i \in 1 .. 4 + 4 * Len(v.lists[k]) :
                    Whole(v)[1 + 4 * (k - 1) + 4 * Before(v, k - 1) + i]
                    = Full(v.lists[k])[i]
<1> DEFINE s == Fulls(v)
           n == Len(v.lists)
           B(k) == Before(v, k)
           h == << n >>
           f == FlattenSeq(s)
<1>1. /\ s \in Seq(Seq(Nat)) /\ Len(s) = n
      /\ \A k \in 1 .. n : s[k] = Full(v.lists[k]) /\ Len(s[k]) = 4 + 4 * Len(v.lists[k])
  BY FullsType, Zenon
<1>2. n \in Nat /\ \A k \in 0 .. n : B(k) \in Nat
  BY BeforeStep, Zenon
<1>3. \A k \in 0 .. n : Len(FlatTo(s, k)) = 4 * k + 4 * B(k)
  BY FullsPlaces, Zenon
<1>4. Whole(v) = h \o f
  BY DEF Whole, Fulls
<1> HIDE DEF s, n, B
<1>5. /\ f \in Seq(Nat)
      /\ Len(FlatTo(s, Len(s))) = Len(f)
      /\ \A k \in 1 .. Len(s) : Len(FlatTo(s, k)) <= Len(f)
      /\ \A k \in 1 .. Len(s) :
            Len(FlatTo(s, k)) = Len(FlatTo(s, k - 1)) + Len(s[k])
      /\ \A k \in 1 .. Len(s) :
            \A m \in 1 .. Len(s[k]) : f[Len(FlatTo(s, k - 1)) + m] = s[k][m]
  <2>1. s \in Seq(Seq(Nat))
    BY <1>1
  <2>2. \A k \in 1 .. Len(s) :
           /\ Len(FlatTo(s, k)) = Len(FlatTo(s, k - 1)) + Len(s[k])
           /\ Len(FlatTo(s, k)) <= Len(FlattenSeq(s))
           /\ \A m \in 1 .. Len(s[k]) :
                 FlattenSeq(s)[Len(FlatTo(s, k - 1)) + m] = s[k][m]
    BY <2>1, FlatPlaces, Zenon
  <2>3. FlattenSeq(s) \in Seq(Nat) /\ Len(FlatTo(s, Len(s))) = Len(FlattenSeq(s))
    BY <2>1, FlatPlaces, Zenon
  <2> QED
    BY <2>2, <2>3, Zenon
<1> HIDE DEF f
<1>6. h \in Seq(Nat) /\ Len(h) = 1 /\ h[1] = n
  BY <1>2
<1> HIDE DEF h
<1>7. /\ h \o f \in Seq(Nat) /\ Len(h \o f) = Len(h) + Len(f)
      /\ \A k \in 1 .. Len(h) : (h \o f)[k] = h[k]
      /\ \A k \in 1 .. Len(f) : (h \o f)[Len(h) + k] = f[k]
      /\ Len(f) \in Nat
  <2>1. h \in Seq(Nat) /\ f \in Seq(Nat)
    BY <1>5, <1>6, Zenon
  <2> QED
    BY <2>1, Joined
<1>8. (h \o f)[1] = n
  BY <1>6, <1>7
<1>9. Len(h \o f) = 1 + 4 * n + 4 * B(n)
  <2>1. n \in 0 .. n /\ Len(s) = n
    BY <1>1, <1>2
  <2>2. Len(f) = 4 * n + 4 * B(n)
    BY <1>3, <1>5, <2>1
  <2> QED
    BY <1>2, <1>6, <1>7, <2>1, <2>2
<1>10. ASSUME NEW k \in 1 .. n, NEW i \in 1 .. 4 + 4 * Len(v.lists[k])
       PROVE  (h \o f)[1 + 4 * (k - 1) + 4 * B(k - 1) + i] = Full(v.lists[k])[i]
  <2>1. k \in 1 .. Len(s) /\ k - 1 \in 0 .. n /\ k \in 0 .. n /\ i \in 1 .. Len(s[k])
    <3>1. Len(s[k]) = 4 + 4 * Len(v.lists[k]) /\ Len(s) = n
      BY <1>1, Zenon
    <3> QED
      BY <1>2, <3>1
  <2> DEFINE q == Len(FlatTo(s, k - 1))
             r == Len(FlatTo(s, k))
             c == Len(s[k])
             g == Len(f)
             b == B(k - 1)
  <2>2. q = 4 * (k - 1) + 4 * b /\ b \in Nat /\ r = q + c /\ r <= g /\ g \in Nat
        /\ f[q + i] = s[k][i] /\ i \in 1 .. c /\ s[k] = Full(v.lists[k]) /\ s[k] \in Seq(Nat)
    <3>1. s[k] \in Seq(Nat)
      BY <1>1, <2>1
    <3> QED
      BY <1>1, <1>2, <1>3, <1>5, <1>7, <2>1, <3>1, Zenon
  <2>3. c \in Nat
    BY <2>2
  <2> HIDE DEF q, r, c, g, b
  <2>4. q + i \in 1 .. g /\ 1 + (q + i) = 1 + 4 * (k - 1) + 4 * b + i
    BY <2>2, <2>3
  <2>5. (h \o f)[Len(h) + (q + i)] = f[q + i]
    BY <1>7, <2>4, Zenon DEF g
  <2> QED
    BY <1>6, <2>2, <2>4, <2>5 DEF b
<1> QED
  BY <1>4, <1>7, <1>8, <1>9, <1>10 DEF n, B

\* Of a value that was cut short the first cells are left.
LEMMA EncodedCells ==
    ASSUME NEW v, IsValue(v)
    PROVE  /\ Encoded(v) \in Seq(Nat) /\ Len(Encoded(v)) \in Nat
           /\ Len(Encoded(v)) <= Len(Whole(v))
           /\ \A i \in 1 .. Len(Encoded(v)) : Encoded(v)[i] = Whole(v)[i]
<1> DEFINE W == Whole(v)
           m == IF v.cut < Len(W) THEN v.cut ELSE Len(W)
<1>1. W \in Seq(Nat) /\ v.cut \in Nat
  BY WholeCells, Zenon DEF IsValue
<1>2. Encoded(v) = SubSeq(W, 1, m)
  BY DEF Encoded
<1> HIDE DEF W
<1>3. m \in 0 .. Len(W)
  BY <1>1
<1> HIDE DEF m
<1>4. /\ SubSeq(W, 1, m) \in Seq(Nat) /\ Len(SubSeq(W, 1, m)) = m
      /\ \A i \in 1 .. m : SubSeq(W, 1, m)[i] = W[i]
  BY <1>1, <1>3, FirstLists
<1>5. m \in Nat /\ m <= Len(W)
  BY <1>1, <1>3
<1> QED
  BY <1>2, <1>4, <1>5 DEF W

LEMMA FirstCell ==
    ASSUME NEW v, IsValue(v), 1 <= Len(Encoded(v))
    PROVE  Encoded(v)[1] = Len(v.lists)
<1>1. 1 \in 1 .. Len(Encoded(v))
  BY EncodedCells
<1> QED
  BY <1>1, EncodedCells, WholeCells, Zenon

\* The header of the k-th list says how long the list is.
LEMMA HeaderCell ==
    ASSUME NEW v, IsValue(v), NEW k \in 1 .. Len(v.lists), NEW o \in Nat,
           o = 1 + 4 * (k - 1) + 4 * Before(v, k - 1), o + 4 <= Len(Encoded(v))
    PROVE  Encoded(v)[o + 4] = Len(v.lists[k])
<1>1. v.lists[k] \in Seq(Descriptor) /\ Len(v.lists[k]) \in Nat
  BY FullsType, BeforeStep, Zenon
<1>2. Encoded(v)[o + 4] = Whole(v)[o + 4]
  BY EncodedCells
<1>3. 4 \in 1 .. 4 + 4 * Len(v.lists[k])
  BY <1>1
<1>4. Whole(v)[1 + 4 * (k - 1) + 4 * Before(v, k - 1) + 4] = Full(v.lists[k])[4]
  <2>1. \A i \in 1 .. 4 + 4 * Len(v.lists[k]) :
           Whole(v)[1 + 4 * (k - 1) + 4 * Before(v, k - 1) + i] = Full(v.lists[k])[i]
    BY WholeCells, Zenon
  <2> QED
    BY <1>3, <2>1, Zenon
<1>5. Full(v.lists[k])[4] = Len(v.lists[k])
  BY <1>1, FullCells, Zenon
<1> QED
  BY <1>2, <1>4, <1>5

\* Its descriptors stand behind it.
LEMMA DescriptorCells ==
    ASSUME NEW v, IsValue(v), NEW k \in 1 .. Len(v.lists), NEW q \in Nat,
           Before(v, k - 1) <= q, q < Before(v, k),
           NEW o \in Nat, o = 1 + 4 * k + 4 * q, o + 4 <= Len(Encoded(v))
    PROVE  /\ q + 1 \in 1 .. Len(FlattenSeq(v.lists))
           /\ [type |-> Encoded(v)[o + 1],
               start |-> << Encoded(v)[o + 2], Encoded(v)[o + 3] >>,
               length |-> Encoded(v)[o + 4]]
              = FlattenSeq(v.lists)[q + 1]
<1> DEFINE l == v.lists[k]
           b == Before(v, k - 1)
           e == Before(v, k)
           F == FlattenSeq(v.lists)
           E == Encoded(v)
           W == Whole(v)
<1>1. /\ l \in Seq(Descriptor) /\ Len(l) \in Nat /\ F \in Seq(Descriptor)
      /\ e = b + Len(l) /\ e <= Len(F)
      /\ \A m \in 1 .. Len(l) : F[b + m] = l[m]
  BY FullsType, BeforeStep, Zenon
<1>2. b \in Nat
  <2>1. k - 1 \in 0 .. Len(v.lists)
    BY BeforeStep
  <2> QED
    BY <2>1, BeforeStep
<1>3. \A i \in 1 .. 4 + 4 * Len(l) : W[1 + 4 * (k - 1) + 4 * b + i] = Full(l)[i]
  BY WholeCells, Zenon
<1>4. /\ Len(E) \in Nat /\ \A i \in 1 .. Len(E) : E[i] = W[i]
  BY EncodedCells, Zenon
<1>5. b <= q /\ q < e /\ o + 4 <= Len(E)
  OBVIOUS
<1>6. \A m \in 1 .. Len(l), c \in 1 .. 4 : Full(l)[4 * m + c] = Partial(l[m])[c]
  BY <1>1, FullCells, Zenon
<1> HIDE DEF l, b, e, F, E, W
<1> DEFINE m == q - b + 1
<1>7. m \in 1 .. Len(l) /\ b + m = q + 1 /\ q + 1 \in 1 .. Len(F)
  <2> DEFINE x == Len(l)
             y == Len(F)
  <2>1. x \in Nat /\ y \in Nat /\ e = b + x /\ e <= y
    BY <1>1
  <2> HIDE DEF x, y
  <2>2. m \in 1 .. x /\ b + m = q + 1 /\ q + 1 \in 1 .. y
    BY <1>2, <1>5, <2>1
  <2> QED
    BY <2>2 DEF x, y
<1>8. ASSUME NEW c \in 1 .. 4 PROVE E[o + c] = Partial(l[m])[c]
  <2> DEFINE i == 4 * m + c
             x == Len(l)
             y == Len(E)
  <2>1. x \in Nat /\ y \in Nat /\ m \in 1 .. x /\ o + 4 <= y /\ k \in Nat
    BY <1>1, <1>4, <1>5, <1>7
  <2> HIDE DEF x, y
  <2>2. /\ i \in 1 .. 4 + 4 * x /\ o + c \in 1 .. y
        /\ o + c = 1 + 4 * (k - 1) + 4 * b + i
    BY <1>2, <1>7, <2>1
  <2>3. Full(l)[i] = Partial(l[m])[c]
    BY <1>6, <1>7
  <2> HIDE DEF i, m
  <2>4. W[1 + 4 * (k - 1) + 4 * b + i] = Full(l)[i]
    BY <1>3, <2>2 DEF x
  <2>5. E[o + c] = W[o + c]
    BY <1>4, <2>2 DEF y
  <2> QED
    BY <2>2, <2>3, <2>4, <2>5
<1> DEFINE d == l[m]
<1>9. d \in Descriptor /\ F[q + 1] = d
  BY <1>1, <1>7
<1>10. /\ E[o + 1] = Partial(d)[1] /\ E[o + 2] = Partial(d)[2]
       /\ E[o + 3] = Partial(d)[3] /\ E[o + 4] = Partial(d)[4]
  BY <1>8
<1> HIDE DEF d
<1>11. /\ Partial(d)[1] = d.type /\ Partial(d)[2] = d.start[1]
       /\ Partial(d)[3] = d.start[2] /\ Partial(d)[4] = d.length
       /\ d.start = << d.start[1], d.start[2] >>
       /\ d = [type |-> d.type, start |-> d.start, length |-> d.length]
  BY <1>9, PartialCells, Zenon
<1>12. [type |-> E[o + 1], start |-> << E[o + 2], E[o + 3] >>, length |-> E[o + 4]] = d
  BY <1>10, <1>11, Zenon
<1> QED
  BY <1>7, <1>9, <1>12 DEF E, F

-----------------------------------------------------------------------------
(***************************************************************************)
(* Which descriptors are there as a whole.                                 *)
(***************************************************************************)
LEMMA BeforeGrows ==
    ASSUME NEW v, IsValue(v), NEW k \in 0 .. Len(v.lists)
    PROVE  \A i \in 0 .. Len(v.lists) : k <= i => Before(v, k) <= Before(v, i)
<1> DEFINE B(i) == Before(v, i)
           n == Len(v.lists)
           T == {i \in 0 .. n : k <= i /\ ~(B(k) <= B(i))}
<1>1. /\ n \in Nat /\ \A i \in 0 .. n : B(i) \in Nat
      /\ \A i \in 1 .. n : B(i - 1) <= B(i)
  <2>1. /\ n \in Nat /\ \A i \in 0 .. n : B(i) \in Nat
        /\ \A i \in 1 .. n : B(i) = B(i - 1) + Len(v.lists[i]) /\ Len(v.lists[i]) \in Nat
    BY BeforeStep, Zenon
  <2> HIDE DEF n, B
  <2>2. ASSUME NEW i \in 1 .. n PROVE B(i - 1) <= B(i)
    <3> DEFINE x == Len(v.lists[i])
    <3>1. i - 1 \in 0 .. n
      BY <2>1
    <3>2. x \in Nat /\ B(i - 1) \in Nat /\ B(i) = B(i - 1) + x
      BY <2>1, <3>1, Zenon
    <3> HIDE DEF x
    <3> QED
      BY <3>2
  <2> QED
    BY <2>1, <2>2
<1>2. k \in 0 .. n
  OBVIOUS
<1> HIDE DEF B, n
<1>3. ASSUME T # {} PROVE FALSE
  <2>1. T \in SUBSET Nat
    OBVIOUS
  <2>2. PICK x \in T : \A y \in T : x <= y
    BY <1>3, <2>1, Least
  <2>3. x \in 0 .. n /\ k <= x /\ ~(B(k) <= B(x))
    OBVIOUS
  <2>4. x # k
    BY <1>1, <1>2, <2>3
  <2>5. x \in 1 .. n /\ x - 1 \in 0 .. n /\ k <= x - 1 /\ ~(x <= x - 1)
    BY <1>1, <1>2, <2>3, <2>4
  <2>6. B(k) <= B(x - 1)
    BY <2>2, <2>5
  <2> QED
    BY <1>1, <1>2, <2>3, <2>5, <2>6
<1> QED
  BY <1>3 DEF B, n

\* Every descriptor is in one of the lists.
LEMMA ListOf ==
    ASSUME NEW v, IsValue(v), NEW i \in 1 .. Len(FlattenSeq(v.lists))
    PROVE  \E j \in 1 .. Len(v.lists) :
              /\ Before(v, j - 1) < i /\ i <= Before(v, j)
              /\ CellsTo(v, i) = 1 + 4 * j + 4 * i
<1> DEFINE B(j) == Before(v, j)
           n == Len(v.lists)
           T == {j \in 0 .. n : i <= B(j)}
           In(j) == B(j - 1) < i /\ i <= B(j)
<1>1. /\ n \in Nat /\ B(0) = 0 /\ B(n) = Len(FlattenSeq(v.lists))
      /\ \A j \in 0 .. n : B(j) \in Nat
  BY BeforeStep, Zenon
<1>2. DOMAIN v.lists = 1 .. n
  BY DEF IsValue
<1>3. i \in Nat /\ 0 < i /\ i <= Len(FlattenSeq(v.lists))
  <2>1. FlattenSeq(v.lists) \in Seq(Descriptor)
    BY BeforeStep, Zenon
  <2> QED
    BY <2>1
<1>4. CellsTo(v, i) = 1 + 4 * (CHOOSE j \in 1 .. n : In(j)) + 4 * i
  BY <1>2 DEF CellsTo, Before, FlatTo
<1> HIDE DEF B, n
<1>5. \E j \in 1 .. n : In(j)
  <2>1. n \in T /\ T \in SUBSET Nat
    BY <1>1, <1>3
  <2>2. PICK x \in T : \A y \in T : x <= y
    BY <2>1, Least
  <2>3. x \in 0 .. n /\ i <= B(x)
    OBVIOUS
  <2>4. x # 0
    BY <1>1, <1>3, <2>3
  <2>5. x \in 1 .. n /\ x - 1 \in 0 .. n /\ ~(x <= x - 1)
    BY <1>1, <2>3, <2>4
  <2>6. ~(i <= B(x - 1))
    BY <2>2, <2>5
  <2>7. B(x - 1) < i
    BY <1>1, <1>3, <2>5, <2>6
  <2> QED
    BY <2>3, <2>5, <2>7
<1> DEFINE c == CHOOSE j \in 1 .. n : In(j)
<1>6. c \in 1 .. n /\ In(c)
  BY <1>5
<1>7. CellsTo(v, i) = 1 + 4 * c + 4 * i
  BY <1>4
<1> HIDE DEF c
<1> QED
  BY <1>6, <1>7 DEF B, n

Complete(v, L) == {i \in DOMAIN FlattenSeq(v.lists) : CellsTo(v, i) <= L}

\* The parser has come to the k-th list and taken q descriptors of v, the last
\* of them from this list.
Reached(v, k, q) ==
    /\ k \in 0 .. Len(v.lists) /\ q \in Nat
    /\ q <= Before(v, k) /\ (k # 0 => Before(v, k - 1) <= q)

LEMMA CompleteIs ==
    ASSUME NEW v, IsValue(v), NEW L \in Nat, NEW k, NEW q, Reached(v, k, q),
           q = 0 \/ 1 + 4 * k + 4 * q <= L,
           \/ 1 + 4 * k + 4 * q + 4 > L
           \/ k = Len(v.lists) /\ q = Before(v, k)
    PROVE  Complete(v, L) = 1 .. q /\ 1 .. q \subseteq DOMAIN FlattenSeq(v.lists)
<1> DEFINE B(j) == Before(v, j)
           n == Len(v.lists)
           F == FlattenSeq(v.lists)
<1>1. /\ n \in Nat /\ B(0) = 0 /\ B(n) = Len(F) /\ F \in Seq(Descriptor)
      /\ \A j \in 0 .. n : B(j) \in Nat
  BY BeforeStep, Zenon
<1>2. DOMAIN F = 1 .. Len(F) /\ Len(F) \in Nat
  BY <1>1
<1>3. /\ k \in 0 .. n /\ q \in Nat /\ q <= B(k) /\ (k # 0 => B(k - 1) <= q)
  BY DEF Reached
<1>4. \A x, y \in 0 .. n : x <= y => B(x) <= B(y)
  BY BeforeGrows, Zenon
<1>5. \A i \in 1 .. Len(F) :
         \E j \in 1 .. n : B(j - 1) < i /\ i <= B(j) /\ CellsTo(v, i) = 1 + 4 * j + 4 * i
  BY ListOf, Zenon
<1>6. /\ q = 0 \/ 1 + 4 * k + 4 * q <= L
      /\ 1 + 4 * k + 4 * q + 4 > L \/ (k = n /\ q = B(k))
  OBVIOUS
<1>7. Complete(v, L) = {i \in 1 .. Len(F) : CellsTo(v, i) <= L}
  BY <1>2 DEF Complete
<1> DEFINE m == Len(F)
<1>8. B(k) <= m
  BY <1>1, <1>3, <1>4
<1> HIDE DEF B, n, F, m
<1>9. q <= m /\ m \in Nat
  BY <1>1, <1>2, <1>3, <1>8 DEF m
<1>10. ASSUME NEW i \in 1 .. m PROVE CellsTo(v, i) <= L <=> i <= q
  <2>1. PICK j \in 1 .. n : B(j - 1) < i /\ i <= B(j) /\ CellsTo(v, i) = 1 + 4 * j + 4 * i
    BY <1>5 DEF m
  <2>2. j \in Nat /\ i \in Nat /\ k \in Nat /\ j - 1 \in 0 .. n /\ j \in 0 .. n
        /\ B(j) \in Nat /\ B(j - 1) \in Nat /\ B(k) \in Nat
    BY <1>1, <1>3, <1>9
  <2>3. CASE i <= q
    <3>1. j <= k
      <4>1. CASE ~(j <= k)
        <5>1. k <= j - 1
          BY <2>2, <4>1
        <5>2. B(k) <= B(j - 1)
          BY <1>3, <1>4, <2>2, <5>1
        <5> QED
          BY <1>3, <2>1, <2>2, <2>3, <5>2
      <4> QED
        BY <4>1
    <3>2. 1 + 4 * j + 4 * i <= 1 + 4 * k + 4 * q /\ q # 0
      BY <1>3, <2>2, <2>3, <3>1
    <3> QED
      BY <1>3, <1>6, <2>1, <2>2, <2>3, <3>2
  <2>4. CASE i > q
    <3>1. k <= j
      <4>1. CASE ~(k <= j)
        <5>1. k # 0 /\ j <= k - 1 /\ k - 1 \in 0 .. n
          BY <1>1, <1>3, <2>2, <4>1
        <5>2. B(j) <= B(k - 1) /\ B(k - 1) \in Nat
          BY <1>1, <1>4, <2>2, <5>1
        <5> QED
          BY <1>3, <2>1, <2>2, <2>4, <5>1, <5>2
      <4> QED
        BY <4>1
    <3>2. ~(k = n /\ q = B(k))
      BY <1>1, <1>3, <2>2, <2>4 DEF m
    <3>3. 1 + 4 * k + 4 * q + 4 > L
      BY <1>6, <3>2
    <3> QED
      BY <1>3, <2>1, <2>2, <2>4, <3>1, <3>3
  <2> QED
    BY <1>3, <2>2, <2>3, <2>4
<1>11. Complete(v, L) = {i \in 1 .. m : CellsTo(v, i) <= L} /\ DOMAIN F = 1 .. m
  BY <1>2, <1>7 DEF m
<1>12. {i \in 1 .. m : CellsTo(v, i) <= L} = 1 .. q /\ 1 .. q \subseteq 1 .. m
  BY <1>3, <1>9, <1>10
<1> QED
  BY <1>11, <1>12 DEF F

-----------------------------------------------------------------------------
(***************************************************************************)
(* What is counted with one descriptor more.                               *)
(***************************************************************************)
BarPlaces(ds, S) == {k \in S : IsBar(ds[k])}

IntPlaces(ds, S) == {k \in S : ds[k].type = Interrupt}

\* How many places of P are not behind k.
Rank(P, k) == Cardinality({j \in P : j <= k})

LEMMA CountedNone ==
    ASSUME NEW ds PROVE Counted(ds, {}, << >>, 0)
<1>1. Cardinality({}) = 0
  BY FS_EmptySet
<1>2. {k \in {} : IsBar(ds[k])} = {} /\ {k \in {} : ds[k].type = Interrupt} = {}
  OBVIOUS
<1>3. Len(<< >>) = 0
  OBVIOUS
<1> QED
  BY <1>1, <1>2, <1>3 DEF Counted

LEMMA CountedDef ==
    ASSUME NEW ds, NEW S, NEW bs, NEW m
    PROVE  Counted(ds, S, bs, m) <=>
              /\ Len(bs) = Cardinality(BarPlaces(ds, S))
              /\ \A k \in BarPlaces(ds, S) : bs[Rank(BarPlaces(ds, S), k)] = Bar(ds[k])
              /\ m = Cardinality(IntPlaces(ds, S))
BY Zenon DEF Counted, BarPlaces, IntPlaces, Rank

\* The places of a set are numbered from one.
LEMMA RankType ==
    ASSUME NEW P, IsFiniteSet(P), P \subseteq Nat, NEW k \in P
    PROVE  Cardinality(P) \in Nat /\ Rank(P, k) \in 1 .. Cardinality(P)
<1> DEFINE Q == {j \in P : j <= k}
<1>1. Q \subseteq P /\ k \in Q
  OBVIOUS
<1> HIDE DEF Q
<1>2. IsFiniteSet(Q) /\ Cardinality(Q) <= Cardinality(P)
  BY <1>1, FS_Subset
<1>3. Cardinality(Q) \in Nat /\ Cardinality(P) \in Nat
  BY <1>2, FS_CardinalityType
<1>4. Cardinality(Q) # 0
  BY <1>1, <1>2, FS_EmptySet
<1>5. Rank(P, k) = Cardinality(Q)
  BY DEF Rank, Q
<1> QED
  BY <1>2, <1>3, <1>4, <1>5

LEMMA CountedStep ==
    ASSUME NEW ds, NEW S, IsFiniteSet(S), S \subseteq Nat,
           NEW x \in Nat, \A k \in S : k < x,
           Counted(ds, S, bars, ints), NEW T, bars \in Seq(T), Bar(ds[x]) \in T,
           Count(ds[x])
    PROVE  Counted(ds, S \cup {x}, bars', ints')
<1> DEFINE P == BarPlaces(ds, S)
           Q == BarPlaces(ds, S \cup {x})
           I == IntPlaces(ds, S)
           J == IntPlaces(ds, S \cup {x})
           b == Bar(ds[x])
<1>1. /\ Len(bars) = Cardinality(P) /\ ints = Cardinality(I)
      /\ \A k \in P : bars[Rank(P, k)] = Bar(ds[k])
  BY CountedDef, Zenon
<1>2. P \subseteq S /\ I \subseteq S
  BY DEF BarPlaces, IntPlaces
<1>3. x \notin S
  OBVIOUS
<1>4. Q = IF IsBar(ds[x]) THEN P \cup {x} ELSE P
  BY DEF BarPlaces
<1>5. J = IF ds[x].type = Interrupt THEN I \cup {x} ELSE I
  BY DEF IntPlaces
<1>6. /\ bars' = IF IsBar(ds[x]) THEN Append(bars, b) ELSE bars
      /\ ints' = IF ds[x].type = Interrupt THEN ints + 1 ELSE ints
  BY DEF Count
<1> HIDE DEF P, Q, I, J
<1>7. IsFiniteSet(P) /\ IsFiniteSet(I) /\ x \notin P /\ x \notin I
      /\ P \subseteq Nat /\ \A k \in P : k < x
  BY <1>2, <1>3, FS_Subset
<1>8. ints' = Cardinality(J)
  BY <1>1, <1>5, <1>6, <1>7, FS_AddElement
<1>9. Len(bars') = Cardinality(Q)
      /\ \A k \in Q : bars'[Rank(Q, k)] = Bar(ds[k])
  <2>1. CASE ~IsBar(ds[x])
    BY <1>1, <1>4, <1>6, <2>1
  <2>2. CASE IsBar(ds[x])
    <3>1. Q = P \cup {x} /\ bars' = Append(bars, b)
      BY <1>4, <1>6, <2>2
    <3>2. Cardinality(Q) = Cardinality(P) + 1
      BY <1>7, <3>1, FS_AddElement
    <3>3. /\ Len(bars') = Len(bars) + 1 /\ Len(bars) \in Nat
          /\ bars'[Len(bars) + 1] = b
          /\ \A i \in 1 .. Len(bars) : bars'[i] = bars[i]
      BY <3>1
    <3>4. ASSUME NEW k \in P PROVE bars'[Rank(Q, k)] = Bar(ds[k])
      <4>1. k < x /\ k \in Nat
        BY <1>7
      <4>2. {j \in Q : j <= k} = {j \in P : j <= k}
        BY <3>1, <4>1
      <4>3. Rank(Q, k) = Rank(P, k)
        BY <4>2 DEF Rank
      <4>4. Rank(P, k) \in 1 .. Cardinality(P)
        BY <1>7, RankType
      <4> QED
        BY <1>1, <3>3, <4>3, <4>4
    <3>5. bars'[Rank(Q, x)] = b
      <4>1. {j \in Q : j <= x} = Q
        <5>1. ASSUME NEW j \in Q PROVE j <= x
          <6>1. CASE j \in P
            <7>1. j \in Nat /\ j < x
              BY <1>7, <6>1
            <7> QED
              BY <7>1
          <6>2. CASE j = x
            BY <6>2
          <6> QED
            BY <3>1, <6>1, <6>2
        <5> QED
          BY <5>1, Zenon
      <4>2. Rank(Q, x) = Cardinality(Q)
        BY <4>1 DEF Rank
      <4> QED
        BY <1>1, <3>2, <3>3, <4>2
    <3>6. Len(bars') = Cardinality(Q)
      BY <1>1, <3>2, <3>3
    <3>7. ASSUME NEW k \in Q PROVE bars'[Rank(Q, k)] = Bar(ds[k])
      <4>1. k \in P \/ k = x
        BY <3>1
      <4> QED
        BY <3>4, <3>5, <4>1, Zenon
    <3> QED
      BY <3>6, <3>7
  <2> QED
    BY <2>1, <2>2
<1> QED
  BY <1>8, <1>9, CountedDef, Zenon DEF Q, J

\* bars and ints stay what they are said to be.
LEMMA CountType ==
    ASSUME NEW d, d.start \in Nat \X Nat, d.length \in Nat,
           bars \in Seq((Nat \X Nat) \X Nat), ints \in Nat, Count(d)
    PROVE  /\ Bar(d) \in (Nat \X Nat) \X Nat
           /\ bars' \in Seq((Nat \X Nat) \X Nat) /\ ints' \in Nat
<1> DEFINE T == (Nat \X Nat) \X Nat
           b == Bar(d)
<1>1. b \in T
  BY DEF Bar
<1>2. /\ bars' = IF IsBar(d) THEN Append(bars, b) ELSE bars
      /\ ints' = IF d.type = Interrupt THEN ints + 1 ELSE ints
  BY DEF Count
<1>3. bars \in Seq(T)
  OBVIOUS
<1> HIDE DEF T, b
<1>4. bars' \in Seq(T)
  BY <1>1, <1>2, <1>3
<1>5. ints' \in Nat
  BY <1>2
<1> QED
  BY <1>1, <1>4, <1>5 DEF T, b

-----------------------------------------------------------------------------
(***************************************************************************)
(* The walk over the logical configurations: its handles.                  *)
(***************************************************************************)
\* The handles that are open, place by place.
WalkInv ==
    /\ current \in Nat
    /\ pc \in {"next", "last"} => live = {0, current}
    /\ pc \in {"data", "previous"} =>
          new = current + 1 /\ live = {0, current, new}
    /\ pc = "conf" => live = {0}
    /\ pc \notin {"next", "data", "previous", "last", "conf"} => live = {}

Walking == pc \in {"next", "data", "previous", "last", "conf"}

\* Steps that are not part of a walk, before and after.
LEMMA OutsideStep ==
    ASSUME WalkInv, ~Walking, ~Walking', live' = live, current' \in {0, current}
    PROVE  WalkInv'
BY DEF WalkInv, Walking

LEMMA ReturnOutside ==
    ASSUME WalkInv, ~Walking, NEW out, NEW b, NEW n, Return(out, b, n)
    PROVE  WalkInv'
<1>1. ~Walking' /\ live' = live /\ current' = 0
  BY DEF Return, Walking
<1> QED
  BY <1>1, OutsideStep

LEMMA NextSourceOutside ==
    ASSUME WalkInv, ~Walking, NextSource, UNCHANGED walkVars
    PROVE  WalkInv'
<1>1. ~Walking' /\ live' = live /\ current' = current
  BY DEF NextSource, walkVars, Walking
<1> QED
  BY <1>1, OutsideStep

LEMMA WalkStep ==
    ASSUME WalkInv,
           \/ GetFirstLogConf \/ GetNextResDes \/ GetResDesData
           \/ FreePrevious \/ FreeLast \/ FreeLogConf
    PROVE  WalkInv'
<1>1. CASE GetFirstLogConf
  <2>1. pc = "first" /\ live = {} /\ ~Walking
    BY <1>1 DEF GetFirstLogConf, WalkInv, Walking
  <2>2. CASE live' = live \cup {0} /\ current' = 0 /\ pc' = "next"
    BY <2>1, <2>2 DEF WalkInv
  <2>3. CASE NextSource /\ UNCHANGED walkVars
    BY <2>1, <2>3, NextSourceOutside
  <2> QED
    BY <1>1, <2>2, <2>3 DEF GetFirstLogConf
<1>2. CASE GetNextResDes
  <2>1. live = {0, current} /\ current \in Nat /\ current' = current
    BY <1>2 DEF GetNextResDes, WalkInv
  <2>2. CASE new' = current + 1 /\ live' = live \cup {new'} /\ pc' = "data"
    BY <2>1, <2>2 DEF WalkInv
  <2>3. CASE pc' = "last" /\ UNCHANGED << new, live >>
    BY <2>1, <2>3 DEF WalkInv
  <2> QED
    BY <1>2, <2>2, <2>3 DEF GetNextResDes
<1>3. CASE GetResDesData
  BY <1>3 DEF GetResDesData, walkVars, WalkInv
<1>4. CASE FreePrevious
  <2>1. /\ new = current + 1 /\ live = {0, current, new} /\ current \in Nat
        /\ live' = IF current # 0 THEN live \ {current} ELSE live
        /\ current' = new /\ pc' = "next"
    BY <1>4 DEF FreePrevious, WalkInv
  <2>2. live' = {0, new}
    BY <2>1
  <2> QED
    BY <2>1, <2>2 DEF WalkInv
<1>5. CASE FreeLast
  <2>1. /\ live = {0, current} /\ current \in Nat /\ current' = current
        /\ live' = IF current # 0 THEN live \ {current} ELSE live
        /\ pc' = "conf"
    BY <1>5 DEF FreeLast, WalkInv
  <2>2. live' = {0}
    BY <2>1
  <2> QED
    BY <2>1, <2>2 DEF WalkInv
<1>6. CASE FreeLogConf
  BY <1>6 DEF FreeLogConf, WalkInv
<1> QED
  BY <1>1, <1>2, <1>3, <1>4, <1>5, <1>6

\* The parser and the steps between the sources hold no handle.
LEMMA OtherStep ==
    ASSUME WalkInv,
           \/ Call \/ Walked \/ QueryValue \/ FullDescriptor \/ HeaderRaises
           \/ PartialDescriptor \/ ListEnd \/ Parsed
    PROVE  WalkInv'
<1>1. ~Walking
  BY DEF Call, Walked, QueryValue, FullDescriptor, HeaderRaises, Header,
         PartialDescriptor, ListEnd, Parsed, Walking
<1>2. CASE \E out, b, n : Return(out, b, n)
  BY <1>1, <1>2, ReturnOutside
<1>3. CASE NextSource /\ UNCHANGED walkVars
  BY <1>1, <1>3, NextSourceOutside
<1>4. CASE ~Walking' /\ UNCHANGED walkVars
  BY <1>1, <1>4, OutsideStep DEF walkVars
<1>5. NoValue => (NextSource /\ UNCHANGED walkVars) \/ \E out, b, n : Return(out, b, n)
  BY DEF NoValue
<1>6. CASE Call \/ FullDescriptor \/ ListEnd
  BY <1>4, <1>6 DEF Call, FullDescriptor, ListEnd, Walking
<1>7. CASE PartialDescriptor
  <2>1. pc' \in {"partial", "full"} /\ UNCHANGED walkVars
    BY <1>7 DEF PartialDescriptor
  <2> QED
    BY <1>4, <2>1 DEF Walking
<1>8. CASE Walked
  BY <1>2, <1>3, <1>8 DEF Walked
<1>9. CASE HeaderRaises
  BY <1>2, <1>9 DEF HeaderRaises
<1>10. CASE Parsed
  BY <1>2, <1>3, <1>5, <1>10 DEF Parsed
<1>11. CASE QueryValue
  <2>1. CASE pc' = (IF Len(Data) < 1 THEN "parsed" ELSE "full") /\ UNCHANGED walkVars
    BY <1>4, <2>1 DEF Walking
  <2> QED
    BY <1>2, <1>3, <1>5, <1>11, <2>1 DEF QueryValue
<1> QED
  BY <1>6, <1>7, <1>8, <1>9, <1>10, <1>11

LEMMA WalkInvariant == Spec => []WalkInv
<1>1. Init => WalkInv
  BY DEF Init, WalkInv
<1>2. WalkInv /\ [Next]_vars => WalkInv'
  <2>1. ASSUME WalkInv, UNCHANGED vars PROVE WalkInv'
    BY <2>1 DEF vars, walkVars, WalkInv
  <2> QED
    BY <2>1, WalkStep, OtherStep DEF Next, Progress
<1> QED
  BY <1>1, <1>2, PTL DEF Spec

\* However many descriptors a configuration has and whichever calls fail, the
\* loop never uses or frees a handle that is not open.
THEOREM Live == Spec => []HandlesLive
<1>1. WalkInv => HandlesLive
  BY DEF WalkInv, HandlesLive
<1> QED
  BY <1>1, WalkInvariant, PTL

\* And it frees every handle, holding two descriptors at most.
THEOREM Freed == Spec => []HandlesFreed
<1>1. ASSUME WalkInv PROVE HandlesFreed
  <2>1. pc \notin {"next", "data", "previous", "last", "conf"} => live = {}
    BY <1>1 DEF WalkInv
  <2>2. live \ {0} \subseteq {current, new}
    BY <1>1 DEF WalkInv
  <2>3. IsFiniteSet({current, new}) /\ Cardinality({current, new}) <= 2
    <3>1. CASE current = new
      <4>1. {current, new} = {current}
        BY <3>1
      <4>2. IsFiniteSet({current}) /\ Cardinality({current}) = 1
        BY FS_Singleton
      <4>3. IsFiniteSet({current, new}) /\ Cardinality({current, new}) = 1
        BY <4>1, <4>2
      <4> QED
        BY <4>3
    <3>2. CASE current # new
      <4>1. /\ IsFiniteSet({current}) /\ Cardinality({current}) = 1
            /\ {current, new} = {current} \cup {new} /\ new \notin {current}
        BY <3>2, FS_Singleton
      <4>2. /\ IsFiniteSet({current} \cup {new})
            /\ Cardinality({current} \cup {new}) = Cardinality({current}) + 1
        BY <4>1, FS_AddElement
      <4> QED
        BY <4>1, <4>2
    <3> QED
      BY <3>1, <3>2
  <2>4. Cardinality(live \ {0}) <= Cardinality({current, new})
    BY <2>2, <2>3, FS_Subset
  <2>5. /\ Cardinality(live \ {0}) \in Nat /\ Cardinality({current, new}) \in Nat
    BY <2>2, <2>3, FS_Subset, FS_CardinalityType
  <2> QED
    BY <2>1, <2>3, <2>4, <2>5 DEF HandlesFreed
<1>2. WalkInv => HandlesFreed
  BY <1>1
<1> QED
  BY <1>2, WalkInvariant, PTL

-----------------------------------------------------------------------------
(***************************************************************************)
(* Types, and which source is read where.                                  *)
(***************************************************************************)
Barless == {"idle", "first", "value"}

TypeInv ==
    /\ \/ pc = "idle"
       \/ /\ pc \in {"first", "next", "data", "previous", "last", "conf", "walked"}
          /\ source \in InCfgMgr
       \/ /\ pc \in {"value", "full", "partial", "parsed"}
          /\ source \in InRegistry
    /\ source \in 1 .. 4 /\ machine \in Machines
    /\ new \in Nat /\ lists \in Nat /\ parts \in Nat /\ ints \in Nat
    /\ bars \in Seq((Nat \X Nat) \X Nat)
    /\ pc \in Barless => bars = << >>
    /\ ~Walking => current = 0
    /\ Walking => current <= Len(Held)
    /\ pc \in {"data", "previous"} => new <= Len(Held)
    /\ \/ offset \in {0, 1}
       \/ pc \in {"full", "partial", "parsed"} /\ offset \in 0 .. Len(Data)

\* What a source holds.
LEMMA HeldType ==
    ASSUME machine \in Machines
    PROVE  /\ source \in InCfgMgr =>
                 /\ Held \in Seq(Descriptor) /\ Len(Held) \in Nat
                 /\ Descriptors(source) = Held
           /\ source \in InRegistry =>
                 /\ IsValue(Held) /\ Data = Encoded(Held)
                 /\ Descriptors(source) = FlattenSeq(Held.lists)
           /\ Data \in Seq(Nat) /\ Len(Data) \in Nat
<1>1. /\ machine.alloc \in Seq(Descriptor) /\ machine.boot \in Seq(Descriptor)
      /\ IsValue(machine.BootConfig) /\ IsValue(machine.AllocConfig)
  BY MachinesAssumption DEF IsValue
<1>2. /\ Sources[1] = "alloc" /\ Sources[2] = "boot"
      /\ Sources[3] = "BootConfig" /\ Sources[4] = "AllocConfig"
  BY DEF Sources
<1>3. source \in InCfgMgr => Held \in Seq(Descriptor)
  BY <1>1, <1>2 DEF Held, InCfgMgr
<1>4. source \in InRegistry => IsValue(Held) /\ source \notin InCfgMgr
  BY <1>1, <1>2 DEF Held, InRegistry, InCfgMgr
<1>5. /\ source \in InCfgMgr => Descriptors(source) = Held
      /\ source \notin InCfgMgr => Descriptors(source) = FlattenSeq(Held.lists)
  BY DEF Descriptors, Held
<1>6. Held \in Seq(Descriptor) => Len(Held) \in Nat
  OBVIOUS
<1>7. Data = IF source \in InRegistry THEN Encoded(Held) ELSE << >>
  BY DEF Data
<1>8. CASE source \in InRegistry
  <2>1. Encoded(Held) \in Seq(Nat) /\ Len(Encoded(Held)) \in Nat
    BY <1>4, <1>8, EncodedCells
  <2> QED
    BY <1>3, <1>4, <1>5, <1>6, <1>7, <1>8, <2>1
<1>9. CASE source \notin InRegistry
  <2>1. << >> \in Seq(Nat) /\ Len(<< >>) \in Nat
    OBVIOUS
  <2> QED
    BY <1>3, <1>5, <1>6, <1>7, <1>9, <2>1
<1> QED
  BY <1>8, <1>9

LEMMA SameSource ==
    ASSUME machine' = machine, source' = source
    PROVE  Held' = Held /\ Data' = Data
BY DEF Held, Data

LEMMA ReturnTypes ==
    ASSUME TypeInv, NEW out, NEW b, NEW n, Return(out, b, n)
    PROVE  TypeInv'
<1>1. /\ pc' = "idle" /\ source' = 1 /\ machine' = machine /\ bars' = << >> /\ ints' = 0
      /\ current' = 0 /\ new' = 0 /\ offset' = 0 /\ lists' = 0 /\ parts' = 0
  BY DEF Return
<1>2. << >> \in Seq((Nat \X Nat) \X Nat)
  OBVIOUS
<1> QED
  BY <1>1, <1>2 DEF TypeInv, Barless, Walking

LEMMA NextSourceTypes ==
    ASSUME TypeInv, ~Walking, NextSource, UNCHANGED walkVars
    PROVE  TypeInv' /\ pc' \in {"first", "value"}
<1>1. /\ source' = source + 1 /\ source < 4 /\ machine' = machine /\ bars' = << >>
      /\ pc' = IF source' \in InCfgMgr THEN "first" ELSE "value"
      /\ ints' = IF source = 2 THEN 0 ELSE ints
      /\ current' = current /\ new' = new /\ offset' = 0 /\ lists' = 0 /\ parts' = 0
  BY DEF NextSource, Sources, walkVars
<1>2. << >> \in Seq((Nat \X Nat) \X Nat)
  OBVIOUS
<1>3. source \in 1 .. 4 /\ current = 0 /\ ints \in Nat /\ new \in Nat /\ machine \in Machines
  BY DEF TypeInv
<1>4. source' \in 1 .. 4 /\ (source' \in InCfgMgr \/ source' \in InRegistry)
  BY <1>1, <1>3 DEF InCfgMgr, InRegistry
<1> QED
  BY <1>1, <1>2, <1>3, <1>4 DEF TypeInv, Barless, Walking

LEMMA NoValueTypes ==
    ASSUME TypeInv, ~Walking, NoValue
    PROVE  TypeInv' /\ pc' \in Barless
<1>1. CASE NextSource /\ UNCHANGED walkVars
  BY <1>1, NextSourceTypes DEF Barless
<1>2. CASE Return("ok", bars, ints)
  BY <1>2, ReturnTypes DEF Return, Barless
<1> QED
  BY <1>1, <1>2 DEF NoValue

\* The steps of a walk.
LEMMA WalkTypes ==
    ASSUME TypeInv, WalkInv,
           \/ GetFirstLogConf \/ GetNextResDes \/ GetResDesData
           \/ FreePrevious \/ FreeLast \/ FreeLogConf
    PROVE  TypeInv'
<1>1. CASE GetFirstLogConf
  <2>1. pc = "first" /\ ~Walking /\ source \in InCfgMgr
    BY <1>1 DEF GetFirstLogConf, TypeInv, Walking
  <2>2. CASE NextSource /\ UNCHANGED walkVars
    BY <2>1, <2>2, NextSourceTypes
  <2>3. CASE ~(NextSource /\ UNCHANGED walkVars)
    <3>1. /\ current' = 0 /\ pc' = "next" /\ bars' = << >> /\ ints' = 0
          /\ source' = source /\ machine' = machine /\ new' = new
          /\ UNCHANGED parseVars
      BY <1>1, <2>3 DEF GetFirstLogConf, Fresh
    <3>2. << >> \in Seq((Nat \X Nat) \X Nat)
      OBVIOUS
    <3>3. Held' = Held /\ Data' = Data /\ Len(Held) \in Nat
      BY <2>1, <3>1, SameSource, HeldType DEF TypeInv
    <3> QED
      BY <2>1, <3>1, <3>2, <3>3 DEF TypeInv, Barless, Walking, parseVars
  <2> QED
    BY <2>2, <2>3
<1> DEFINE Rest == \/ GetNextResDes \/ GetResDesData
                   \/ FreePrevious \/ FreeLast \/ FreeLogConf
<1>2. CASE Rest
  <2>1. /\ Walking /\ source' = source /\ machine' = machine
        /\ UNCHANGED parseVars
    BY <1>2 DEF GetNextResDes, GetResDesData, FreePrevious, FreeLast,
                FreeLogConf, Walking, walkVars
  <2>2. Held' = Held /\ Data' = Data /\ source \in InCfgMgr
    BY <2>1, SameSource DEF TypeInv, Walking
  <2>3. Len(Held) \in Nat /\ Held \in Seq(Descriptor)
    BY <2>2, HeldType DEF TypeInv
  <2>4. CASE GetNextResDes
    <3>1. /\ pc = "next" /\ current' = current /\ bars' = bars /\ ints' = ints
          /\ \/ current < Len(Held) /\ new' = current + 1 /\ pc' = "data"
             \/ pc' = "last" /\ new' = new
      BY <2>4 DEF GetNextResDes
    <3>2. current \in Nat
      BY DEF WalkInv
    <3> QED
      BY <2>1, <2>2, <2>3, <3>1, <3>2 DEF TypeInv, Barless, Walking, parseVars
  <2>5. CASE GetResDesData
    <3>1. /\ pc = "data" /\ pc' = "previous" /\ current' = current /\ new' = new
          /\ Count(Held[new]) \/ (bars' = bars /\ ints' = ints)
      BY <2>5 DEF GetResDesData, walkVars
    <3>2. new = current + 1 /\ current \in Nat
      BY <3>1 DEF WalkInv
    <3>3. new \in 1 .. Len(Held)
      BY <2>3, <3>1, <3>2 DEF TypeInv
    <3>4. Held[new] \in Descriptor
      BY <2>3, <3>3
    <3>5. bars \in Seq((Nat \X Nat) \X Nat) /\ ints \in Nat
      BY DEF TypeInv
    <3>6. Held[new].start \in Nat \X Nat /\ Held[new].length \in Nat
      BY <3>4 DEF Descriptor
    <3>7. bars' \in Seq((Nat \X Nat) \X Nat) /\ ints' \in Nat
      BY <3>1, <3>5, <3>6, CountType
    <3> QED
      BY <2>1, <2>2, <3>1, <3>7 DEF TypeInv, Barless, Walking, parseVars
  <2>6. CASE FreePrevious
    <3>1. /\ pc = "previous" /\ pc' = "next" /\ current' = new /\ new' = new
          /\ bars' = bars /\ ints' = ints
      BY <2>6 DEF FreePrevious
    <3> QED
      BY <2>1, <2>2, <3>1 DEF TypeInv, Barless, Walking, parseVars
  <2>7. CASE FreeLast
    <3>1. /\ pc = "last" /\ pc' = "conf" /\ current' = current /\ new' = new
          /\ bars' = bars /\ ints' = ints
      BY <2>7 DEF FreeLast
    <3> QED
      BY <2>1, <2>2, <3>1 DEF TypeInv, Barless, Walking, parseVars
  <2>8. CASE FreeLogConf
    <3>1. /\ pc = "conf" /\ pc' = "walked" /\ current' = 0 /\ new' = 0
          /\ bars' = bars /\ ints' = ints
      BY <2>8 DEF FreeLogConf
    <3> QED
      BY <2>1, <2>2, <3>1 DEF TypeInv, Barless, Walking, parseVars
  <2> QED
    BY <1>2, <2>4, <2>5, <2>6, <2>7, <2>8
<1> QED
  BY <1>1, <1>2

\* The steps of the parser, and those between the sources.
LEMMA ParseTypes ==
    ASSUME TypeInv,
           \/ Call \/ Walked \/ QueryValue \/ FullDescriptor \/ HeaderRaises
           \/ PartialDescriptor \/ ListEnd \/ Parsed
    PROVE  TypeInv'
<1> DEFINE D == Data
<1>1. ~Walking
  BY DEF Call, Walked, QueryValue, FullDescriptor, HeaderRaises, Header,
         PartialDescriptor, ListEnd, Parsed, Walking
<1>2. D \in Seq(Nat) /\ Len(D) \in Nat
  BY HeldType DEF TypeInv
<1>3. bars \in Seq((Nat \X Nat) \X Nat) /\ << >> \in Seq((Nat \X Nat) \X Nat)
      /\ ints \in Nat /\ lists \in Nat /\ parts \in Nat
      /\ (offset \in Nat)
  BY <1>2 DEF TypeInv
<1>4. CASE Call
  <2>1. /\ pc = "idle" /\ pc' = "first" /\ source' = 1 /\ machine' = machine
        /\ UNCHANGED << walkVars, parseVars, bars, ints >>
    BY <1>4 DEF Call
  <2> QED
    BY <1>1, <2>1 DEF TypeInv, Barless, Walking, walkVars, parseVars, InCfgMgr
<1>5. CASE Walked
  <2>1. Return("ok", bars, ints) \/ (NextSource /\ UNCHANGED walkVars)
    BY <1>5 DEF Walked
  <2> QED
    BY <1>1, <2>1, ReturnTypes, NextSourceTypes
<1>6. CASE HeaderRaises
  BY <1>6, ReturnTypes DEF HeaderRaises
<1>7. CASE Parsed
  <2>1. Return("ok", bars, ints) \/ NoValue
    BY <1>7 DEF Parsed
  <2> QED
    BY <1>1, <2>1, ReturnTypes, NoValueTypes
<1>8. CASE QueryValue
  <2>1. CASE NoValue \/ Return("ok", bars, ints)
    BY <1>1, <2>1, ReturnTypes, NoValueTypes
  <2>2. CASE ~(NoValue \/ Return("ok", bars, ints))
    <3>1. /\ pc = "value"
          /\ pc' = IF Len(D) < 1 THEN "parsed" ELSE "full"
          /\ lists' = IF Len(D) < 1 THEN 0 ELSE D[1]
          /\ offset' = 1 /\ bars' = << >> /\ ints' = 0
          /\ source' = source /\ machine' = machine /\ parts' = parts
          /\ UNCHANGED walkVars
      BY <1>8, <2>2 DEF QueryValue
    <3> HIDE DEF D
    <3>2. lists' \in Nat
      BY <1>2, <3>1
    <3> QED
      BY <1>1, <1>3, <3>1, <3>2 DEF TypeInv, Barless, Walking, walkVars
  <2> QED
    BY <2>1, <2>2
<1>9. CASE FullDescriptor
  <2>1. /\ pc = "full" /\ lists > 0 /\ offset + 4 <= Len(D)
        /\ parts' = D[offset + 4] /\ lists' = lists - 1 /\ offset' = offset + 4
        /\ pc' = "partial" /\ source' = source /\ machine' = machine
        /\ UNCHANGED << walkVars, bars, ints >>
    BY <1>9 DEF FullDescriptor, Header, HeaderCells
  <2>2. Held' = Held /\ Data' = D
    BY <2>1, SameSource
  <2> HIDE DEF D
  <2>3. parts' \in Nat /\ lists' \in Nat /\ offset' \in 0 .. Len(D)
    BY <1>2, <1>3, <2>1
  <2> QED
    BY <1>1, <1>3, <2>1, <2>2, <2>3 DEF TypeInv, Barless, Walking, walkVars
<1>10. CASE PartialDescriptor
  <2>1. /\ pc = "partial" /\ source' = source /\ machine' = machine
        /\ UNCHANGED walkVars
    BY <1>10 DEF PartialDescriptor
  <2>2. Held' = Held /\ Data' = D
    BY <2>1, SameSource
  <2>3. CASE pc' = "full"
    <3>1. parts' = 0 /\ UNCHANGED << offset, lists, bars, ints >>
      BY <1>10, <2>1, <2>3 DEF PartialDescriptor
    <3> QED
      BY <1>1, <1>3, <2>1, <2>2, <2>3, <3>1 DEF TypeInv, Barless, Walking, walkVars
  <2>4. CASE pc' # "full"
    <3> DEFINE o == offset
               d == [type |-> D[o + 1], start |-> << D[o + 2], D[o + 3] >>,
                     length |-> D[o + 4]]
    <3>1. /\ pc' = "partial" /\ lists' = lists /\ parts > 0 /\ o + 4 <= Len(D)
          /\ offset' = o + 4 /\ parts' = parts - 1 /\ Count(d)
      BY <1>10, <2>1, <2>4, Zenon DEF PartialDescriptor, Room
    <3> HIDE DEF D
    <3>2. o + 2 \in 1 .. Len(D) /\ o + 3 \in 1 .. Len(D) /\ o + 4 \in 1 .. Len(D)
      BY <1>2, <1>3, <3>1
    <3>3. D[o + 2] \in Nat /\ D[o + 3] \in Nat /\ D[o + 4] \in Nat
      BY <1>2, <3>2
    <3>4. d.start \in Nat \X Nat /\ d.length \in Nat
      BY <3>3
    <3> HIDE DEF d
    <3>5. bars' \in Seq((Nat \X Nat) \X Nat) /\ ints' \in Nat
      BY <1>3, <3>1, <3>4, CountType
    <3>6. parts' \in Nat /\ offset' \in 0 .. Len(D)
      BY <1>2, <1>3, <3>1, <3>2
    <3> QED
      BY <1>1, <1>3, <2>1, <2>2, <3>1, <3>5, <3>6
      DEF TypeInv, Barless, Walking, walkVars
  <2> QED
    BY <2>3, <2>4
<1>11. CASE ListEnd
  <2>1. /\ pc = "full" /\ pc' = "parsed" /\ source' = source /\ machine' = machine
        /\ UNCHANGED << walkVars, parseVars, bars, ints >>
    BY <1>11 DEF ListEnd
  <2>2. Held' = Held /\ Data' = Data
    BY <2>1, SameSource
  <2> QED
    BY <1>1, <2>1, <2>2 DEF TypeInv, Barless, Walking, walkVars, parseVars
<1> QED
  BY <1>4, <1>5, <1>6, <1>7, <1>8, <1>9, <1>10, <1>11

-----------------------------------------------------------------------------
(***************************************************************************)
(* What has been counted.                                                  *)
(***************************************************************************)
\* On the walk: some of the descriptors it has come to.
WalkCount ==
    pc \in {"next", "data", "previous", "last", "conf", "walked"} =>
        \E S \in SUBSET (1 .. Len(Held)) :
           /\ pc \in {"next", "data"} => \A k \in S : k <= current
           /\ pc = "previous" => \A k \in S : k <= new
           /\ Counted(Held, S, bars, ints)

\* In the parser: the first q descriptors.  It stands behind them and the
\* headers of k lists, or it has come to the end of the data.
ParserAt(k, q) ==
    /\ Reached(Held, k, q)
    /\ lists = Len(Held.lists) - k
    /\ offset = 1 + 4 * k + 4 * q /\ offset <= Len(Data)
    /\ Counted(FlattenSeq(Held.lists), 1 .. q, bars, ints)
    /\ pc = "full" => q = Before(Held, k) \/ offset + 4 > Len(Data)
    /\ pc = "partial" => k # 0 /\ parts = Before(Held, k) - q

ParseCount ==
    /\ pc \in {"full", "partial"} => \E k, q : ParserAt(k, q)
    /\ pc = "parsed" =>
          Counted(FlattenSeq(Held.lists), Complete(Held, Len(Data)), bars, ints)

LEMMA WalkCountStep ==
    ASSUME TypeInv, WalkInv, WalkCount, [Next]_vars
    PROVE  WalkCount'
<1>1. CASE pc' \notin {"next", "data", "previous", "last", "conf", "walked"}
  BY <1>1 DEF WalkCount
<1>2. CASE pc' \in {"next", "data", "previous", "last", "conf", "walked"}
  <2>1. CASE UNCHANGED vars
    <3>1. /\ pc' = pc /\ machine' = machine /\ source' = source /\ bars' = bars
          /\ ints' = ints /\ current' = current /\ new' = new
      BY <2>1 DEF vars, walkVars
    <3>2. Held' = Held
      BY <3>1, SameSource
    <3> QED
      BY <3>1, <3>2 DEF WalkCount
  <2>2. CASE GetFirstLogConf
    <3>1. pc' # "next" => pc' \in {"first", "value"}
      BY <2>2 DEF GetFirstLogConf, NextSource
    <3>2. bars' = << >> /\ ints' = 0 /\ pc' = "next"
      BY <1>2, <2>2, <3>1 DEF GetFirstLogConf, NextSource, Fresh
    <3>3. Counted(Held', {}, bars', ints')
      BY <3>2, CountedNone
    <3>4. {} \in SUBSET (1 .. Len(Held')) /\ \A k \in {} : k <= current'
      OBVIOUS
    <3> QED
      BY <3>2, <3>3, <3>4 DEF WalkCount
  <2>3. CASE \/ GetNextResDes \/ GetResDesData
             \/ FreePrevious \/ FreeLast \/ FreeLogConf
    <3>1. /\ source' = source /\ machine' = machine
          /\ pc \in {"next", "data", "previous", "last", "conf"}
      BY <2>3 DEF GetNextResDes, GetResDesData, FreePrevious, FreeLast, FreeLogConf
    <3>2. Held' = Held
      BY <3>1, SameSource
    <3>3. Held \in Seq(Descriptor) /\ Len(Held) \in Nat
      BY <3>1, HeldType DEF TypeInv
    <3>4. PICK S \in SUBSET (1 .. Len(Held)) :
             /\ pc \in {"next", "data"} => \A k \in S : k <= current
             /\ pc = "previous" => \A k \in S : k <= new
             /\ Counted(Held, S, bars, ints)
      BY <3>1 DEF WalkCount
    <3>5. CASE bars' = bars /\ ints' = ints /\ pc # "data"
      <4>1. pc' = "previous" => FALSE
        BY <2>3, <3>5 DEF GetNextResDes, GetResDesData, FreePrevious, FreeLast, FreeLogConf
      <4>2. ASSUME pc' \in {"next", "data"} PROVE \A k \in S : k <= current'
        BY <2>3, <3>4, <3>5, <4>2
        DEF GetNextResDes, GetResDesData, FreePrevious, FreeLast, FreeLogConf
      <4> QED
        BY <3>2, <3>4, <3>5, <4>1, <4>2 DEF WalkCount
    <3>6. CASE pc = "data"
      <4>1. /\ GetResDesData /\ pc' = "previous" /\ new' = new
            /\ Count(Held[new]) \/ (bars' = bars /\ ints' = ints)
        BY <2>3, <3>6
        DEF GetNextResDes, GetResDesData, FreePrevious, FreeLast, FreeLogConf, walkVars
      <4>2. /\ new = current + 1 /\ current \in Nat /\ new <= Len(Held)
            /\ bars \in Seq((Nat \X Nat) \X Nat) /\ ints \in Nat
        BY <3>6 DEF WalkInv, TypeInv
      <4>3. /\ S \subseteq Nat /\ new \in Nat /\ \A k \in S : k < new
            /\ new \in 1 .. Len(Held)
        <5>1. \A k \in S : k \in Nat /\ k <= current
          BY <3>4, <3>6
        <5> QED
          BY <3>3, <4>2, <5>1
      <4>4. IsFiniteSet(S)
        <5>1. IsFiniteSet(1 .. Len(Held))
          BY <3>3, FS_Interval
        <5> QED
          BY <3>4, <5>1, FS_Subset
      <4>5. CASE Count(Held[new])
        <5>1. Held[new] \in Descriptor
          BY <3>3, <4>3
        <5>2. Held[new].start \in Nat \X Nat /\ Held[new].length \in Nat
          BY <5>1 DEF Descriptor
        <5>3. Bar(Held[new]) \in (Nat \X Nat) \X Nat
          BY <4>2, <4>5, <5>2, CountType
        <5>4. Counted(Held, S \cup {new}, bars', ints')
          BY <3>4, <4>2, <4>3, <4>4, <4>5, <5>3, CountedStep
        <5>5. /\ S \cup {new} \in SUBSET (1 .. Len(Held))
              /\ \A k \in S \cup {new} : k <= new
          <6>1. \A k \in S : k \in Nat /\ k < new
            BY <4>3
          <6>2. \A k \in S : k <= new
            BY <4>3, <6>1
          <6>3. new <= new
            BY <4>3
          <6> QED
            BY <3>4, <4>3, <6>2, <6>3
        <5> QED
          BY <3>2, <4>1, <5>4, <5>5 DEF WalkCount
      <4>6. CASE bars' = bars /\ ints' = ints
        <5>1. \A k \in S : k <= new
          <6>1. \A k \in S : k \in Nat /\ k < new
            BY <4>3
          <6> QED
            BY <4>3, <6>1
        <5> QED
          BY <3>2, <3>4, <4>1, <4>6, <5>1 DEF WalkCount
      <4> QED
        BY <4>1, <4>5, <4>6
    <3>7. pc # "data" => bars' = bars /\ ints' = ints
      BY <2>3 DEF GetNextResDes, GetResDesData, FreePrevious, FreeLast, FreeLogConf
    <3> QED
      BY <3>5, <3>6, <3>7
  <2>4. CASE \/ Call \/ Walked \/ QueryValue \/ FullDescriptor \/ HeaderRaises
             \/ PartialDescriptor \/ ListEnd \/ Parsed
    <3>1. pc' \in {"idle", "first", "value", "full", "partial", "parsed"}
      BY <2>4 DEF Call, Walked, QueryValue, FullDescriptor, HeaderRaises,
                  PartialDescriptor, ListEnd, Parsed, NoValue, NextSource, Return
    <3> QED
      BY <1>2, <3>1
  <2> QED
    BY <2>1, <2>2, <2>3, <2>4 DEF Next, Progress
<1> QED
  BY <1>1, <1>2

\* The cells behind offset are those of the descriptor after the first q.
LEMMA NextDescriptor ==
    ASSUME TypeInv, pc = "partial", NEW k, NEW q, ParserAt(k, q),
           parts > 0, offset + 4 <= Len(Data)
    PROVE  /\ q + 1 \in 1 .. Len(FlattenSeq(Held.lists))
           /\ [type |-> Data[offset + 1],
               start |-> << Data[offset + 2], Data[offset + 3] >>,
               length |-> Data[offset + 4]]
              = FlattenSeq(Held.lists)[q + 1]
<1> DEFINE v == Held
           b == Before(v, k - 1)
           e == Before(v, k)
<1>1. IsValue(v) /\ Data = Encoded(v)
  BY HeldType DEF TypeInv
<1>2. /\ k \in 0 .. Len(v.lists) /\ q \in Nat /\ q <= e /\ (k # 0 => b <= q)
      /\ offset = 1 + 4 * k + 4 * q /\ k # 0 /\ parts = e - q
  BY DEF ParserAt, Reached
<1>3. /\ Len(v.lists) \in Nat /\ \A i \in 0 .. Len(v.lists) : Before(v, i) \in Nat
  BY <1>1, BeforeStep
<1> HIDE DEF v
<1>4. k \in 1 .. Len(v.lists) /\ offset \in Nat /\ e \in Nat
  BY <1>2, <1>3
<1>5. b <= q /\ q < e
  <2> HIDE DEF b, e
  <2> QED
    BY <1>2, <1>4
<1>6. offset + 4 <= Len(Encoded(v))
  BY <1>1
<1>7. /\ q + 1 \in 1 .. Len(FlattenSeq(v.lists))
      /\ [type |-> Encoded(v)[offset + 1],
          start |-> << Encoded(v)[offset + 2], Encoded(v)[offset + 3] >>,
          length |-> Encoded(v)[offset + 4]]
         = FlattenSeq(v.lists)[q + 1]
  BY <1>1, <1>2, <1>4, <1>5, <1>6, DescriptorCells
<1> QED
  BY <1>1, <1>7, Zenon DEF v

LEMMA ParseCountStep ==
    ASSUME TypeInv, ParseCount, [Next]_vars
    PROVE  ParseCount'
<1> DEFINE v == Held
           F == FlattenSeq(v.lists)
           D == Data
<1>1. CASE pc' \notin {"full", "partial", "parsed"}
  BY <1>1 DEF ParseCount
<1>2. CASE UNCHANGED vars
  <2>1. /\ pc' = pc /\ machine' = machine /\ source' = source /\ bars' = bars
        /\ ints' = ints /\ UNCHANGED parseVars
    BY <1>2 DEF vars
  <2>2. Held' = Held /\ Data' = Data
    BY <2>1, SameSource
  <2> QED
    BY <2>1, <2>2 DEF ParseCount, ParserAt, parseVars
<1>3. CASE \/ Call \/ GetFirstLogConf \/ GetNextResDes \/ GetResDesData
           \/ FreePrevious \/ FreeLast \/ FreeLogConf \/ Walked \/ HeaderRaises
           \/ Parsed
  <2>1. pc' \notin {"full", "partial", "parsed"}
    BY <1>3 DEF Call, GetFirstLogConf, GetNextResDes, GetResDesData, FreePrevious,
                FreeLast, FreeLogConf, Walked, HeaderRaises, Parsed, NoValue,
                NextSource, Return
  <2> QED
    BY <1>1, <2>1
<1>4. CASE /\ QueryValue \/ FullDescriptor \/ PartialDescriptor \/ ListEnd
           /\ pc' \in {"full", "partial", "parsed"}
  <2>1. /\ source' = source /\ machine' = machine
        /\ pc \in {"value", "full", "partial"}
    BY <1>4 DEF QueryValue, FullDescriptor, Header, PartialDescriptor, ListEnd, NoValue,
                NextSource, Return
  <2>2. Held' = v /\ Data' = D
    BY <2>1, SameSource
  <2>3. IsValue(v) /\ D = Encoded(v) /\ D \in Seq(Nat) /\ Len(D) \in Nat
    BY <2>1, HeldType DEF TypeInv
  <2>4. /\ Len(v.lists) \in Nat /\ Before(v, 0) = 0 /\ F \in Seq(Descriptor)
        /\ \A k \in 0 .. Len(v.lists) : Before(v, k) \in Nat
        /\ \A k \in 1 .. Len(v.lists) :
              /\ Len(v.lists[k]) \in Nat
              /\ Before(v, k) = Before(v, k - 1) + Len(v.lists[k])
    BY <2>3, BeforeStep, Zenon
  <2>5. bars \in Seq((Nat \X Nat) \X Nat) /\ ints \in Nat
    BY DEF TypeInv
  <2>6. CASE QueryValue
    <3>1. /\ pc' = IF Len(D) < 1 THEN "parsed" ELSE "full"
          /\ lists' = IF Len(D) < 1 THEN 0 ELSE D[1]
          /\ offset' = 1 /\ bars' = << >> /\ ints' = 0
      BY <1>4, <2>6 DEF QueryValue, NoValue, NextSource, Return
    <3> HIDE DEF v, F, D
    <3>2. Reached(v, 0, 0) /\ 1 .. 0 = {}
      BY <2>4 DEF Reached
    <3>3. Counted(F, 1 .. 0, bars', ints')
      BY <3>1, <3>2, CountedNone
    <3>4. CASE Len(D) < 1
      <4>1. Complete(v, Len(D)) = 1 .. 0
        <5>1. 1 + 4 * 0 + 4 * 0 + 4 > Len(D)
          BY <2>3, <3>4
        <5> QED
          BY <2>3, <3>2, <5>1, CompleteIs
      <4> QED
        BY <2>2, <3>1, <3>3, <3>4, <4>1 DEF ParseCount, F
    <3>5. CASE ~(Len(D) < 1)
      <4>1. 1 <= Len(D) /\ D[1] = Len(v.lists)
        BY <2>3, <3>5, FirstCell
      <4>2. lists' = Len(v.lists) - 0 /\ offset' = 1 + 4 * 0 + 4 * 0 /\ offset' <= Len(D)
            /\ pc' = "full"
        BY <2>4, <3>1, <3>5, <4>1
      <4>3. ParserAt(0, 0)'
        BY <2>2, <2>4, <3>2, <3>3, <4>2, Zenon DEF ParserAt, F
      <4> QED
        BY <4>2, <4>3 DEF ParseCount
    <3> QED
      BY <3>4, <3>5
  <2>7. CASE ~QueryValue
    <3>1. pc \in {"full", "partial"}
      BY <1>4, <2>7 DEF FullDescriptor, Header, PartialDescriptor, ListEnd
    <3>2. PICK k, q : ParserAt(k, q)
      BY <3>1 DEF ParseCount
    <3>3. /\ Reached(v, k, q) /\ k \in 0 .. Len(v.lists) /\ q \in Nat
          /\ q <= Before(v, k) /\ (k # 0 => Before(v, k - 1) <= q)
          /\ lists = Len(v.lists) - k
          /\ offset = 1 + 4 * k + 4 * q /\ offset <= Len(D)
          /\ Counted(F, 1 .. q, bars, ints)
          /\ pc = "full" => q = Before(v, k) \/ offset + 4 > Len(D)
          /\ pc = "partial" => k # 0 /\ parts = Before(v, k) - q
      BY <3>2 DEF ParserAt, Reached
    <3>4. CASE FullDescriptor
      <4>1. /\ pc = "full" /\ lists > 0 /\ offset + 4 <= Len(D)
            /\ parts' = D[offset + 4] /\ lists' = lists - 1 /\ offset' = offset + 4
            /\ pc' = "partial" /\ bars' = bars /\ ints' = ints
        BY <3>4 DEF FullDescriptor, Header, HeaderCells
      <4> HIDE DEF v, F, D
      <4>2. offset \in Nat
        BY <3>3
      <4>3. q = Before(v, k)
        BY <2>3, <3>3, <4>1, <4>2
      <4>4. /\ k + 1 \in 1 .. Len(v.lists) /\ (k + 1) - 1 = k
            /\ k + 1 \in 0 .. Len(v.lists) /\ k + 1 # 0
        BY <2>4, <3>3, <4>1
      <4> DEFINE l == Len(v.lists[k + 1])
                 e == Before(v, k + 1)
      <4>5. e = Before(v, k) + l /\ l \in Nat
        BY <2>4, <4>4
      <4>6. D[offset + 4] = l
        <5>1. offset = 1 + 4 * ((k + 1) - 1) + 4 * Before(v, (k + 1) - 1)
          BY <3>3, <4>3, <4>4
        <5> QED
          BY <2>3, <4>1, <4>2, <4>4, <5>1, HeaderCell
      <4> HIDE DEF l, e
      <4>7. parts' = e - q /\ q <= e
        <5>1. parts' = l /\ e = q + l /\ l \in Nat /\ q \in Nat
          BY <3>3, <4>1, <4>3, <4>5, <4>6, Zenon
        <5> QED
          BY <5>1
      <4>8. Reached(v, k + 1, q)
        BY <3>3, <4>3, <4>4, <4>7 DEF Reached, e
      <4>9. /\ lists' = Len(v.lists) - (k + 1) /\ offset' = 1 + 4 * (k + 1) + 4 * q
            /\ offset' <= Len(D)
        BY <2>4, <3>3, <4>1
      <4>10. ParserAt(k + 1, q)'
        BY <2>2, <3>3, <4>1, <4>4, <4>7, <4>8, <4>9 DEF ParserAt, F, e
      <4> QED
        BY <4>1, <4>10 DEF ParseCount
    <3>5. CASE PartialDescriptor /\ pc' = "full"
      <4>1. /\ pc = "partial" /\ (parts = 0 \/ ~Room(offset))
            /\ UNCHANGED << offset, lists, bars, ints >>
        BY <3>5 DEF PartialDescriptor
      <4>2. pc = "partial"
        BY <3>5 DEF PartialDescriptor
      <4> HIDE DEF v, F, D
      <4>3. q = Before(v, k) \/ offset + 4 > Len(D)
        <5>1. CASE parts = 0
          <6>1. Before(v, k) \in Nat
            BY <2>4, <3>3
          <6> QED
            BY <3>3, <4>2, <5>1, <6>1
        <5>2. CASE ~Room(offset)
          BY <2>3, <3>3, <5>2 DEF Room, D
        <5> QED
          BY <4>1, <5>1, <5>2
      <4>4. ParserAt(k, q)'
        BY <2>2, <3>3, <3>5, <4>1, <4>3 DEF ParserAt, F
      <4> QED
        BY <3>5, <4>4 DEF ParseCount
    <3>6. CASE PartialDescriptor /\ pc' # "full"
      <4> DEFINE d == [type |-> D[offset + 1],
                       start |-> << D[offset + 2], D[offset + 3] >>,
                       length |-> D[offset + 4]]
      <4>1. /\ pc = "partial" /\ pc' = "partial" /\ lists' = lists /\ parts > 0
            /\ offset + 4 <= Len(D)
            /\ offset' = offset + 4 /\ parts' = parts - 1 /\ Count(d)
        BY <3>6, Zenon DEF PartialDescriptor, Room
      <4>2. q + 1 \in 1 .. Len(F) /\ d = F[q + 1]
        BY <3>2, <4>1, NextDescriptor
      <4> HIDE DEF v, F, D, d
      <4>3. d \in Descriptor
        BY <2>4, <4>2
      <4>4. d.start \in Nat \X Nat /\ d.length \in Nat
        BY <4>3 DEF Descriptor
      <4>5. Bar(d) \in (Nat \X Nat) \X Nat
        BY <2>5, <4>1, <4>4, CountType
      <4>6. /\ q + 1 \in Nat /\ 1 .. q \subseteq Nat
            /\ \A i \in 1 .. q : i < q + 1
            /\ (1 .. q) \cup {q + 1} = 1 .. q + 1
        BY <3>3
      <4>7. IsFiniteSet(1 .. q)
        BY <3>3, FS_Interval
      <4>8. Counted(F, 1 .. q + 1, bars', ints')
        <5>1. Counted(F, (1 .. q) \cup {q + 1}, bars', ints')
          BY <2>5, <3>3, <4>1, <4>2, <4>5, <4>6, <4>7, CountedStep
        <5> QED
          BY <4>6, <5>1
      <4> DEFINE e == Before(v, k)
      <4>9. e \in Nat /\ k # 0 /\ parts = e - q
        BY <2>4, <3>3, <4>1
      <4>10. k # 0 => Before(v, k - 1) <= q + 1
        <5>1. k - 1 \in 0 .. Len(v.lists) /\ Before(v, k - 1) <= q
          BY <2>4, <3>3, <4>9
        <5>2. Before(v, k - 1) \in Nat
          BY <2>4, <5>1
        <5> QED
          BY <3>3, <5>1, <5>2
      <4> HIDE DEF e
      <4>11. q + 1 <= e /\ parts' = e - (q + 1)
        BY <3>3, <4>1, <4>9
      <4>12. Reached(v, k, q + 1)
        BY <3>3, <4>6, <4>10, <4>11 DEF Reached, e
      <4>13. /\ lists' = Len(v.lists) - k /\ offset' = 1 + 4 * k + 4 * (q + 1)
             /\ offset' <= Len(D)
        BY <3>3, <4>1
      <4>14. ParserAt(k, q + 1)'
        BY <2>2, <4>1, <4>8, <4>9, <4>11, <4>12, <4>13 DEF ParserAt, F, e
      <4> QED
        BY <4>1, <4>14 DEF ParseCount
    <3>7. CASE ListEnd
      <4>1. /\ pc = "full" /\ (lists = 0 \/ offset + 3 > Len(D))
            /\ pc' = "parsed" /\ bars' = bars /\ ints' = ints
        BY <3>7 DEF ListEnd
      <4>2. pc = "full"
        BY <3>7 DEF ListEnd
      <4> HIDE DEF v, F, D
      <4>3. \/ 1 + 4 * k + 4 * q + 4 > Len(D)
            \/ k = Len(v.lists) /\ q = Before(v, k)
        BY <2>3, <2>4, <3>3, <4>1, <4>2
      <4>4. 1 + 4 * k + 4 * q <= Len(D)
        BY <3>3
      <4>5. Complete(v, Len(D)) = 1 .. q
        BY <2>3, <3>3, <4>3, <4>4, CompleteIs
      <4> QED
        BY <2>2, <3>3, <4>1, <4>5 DEF ParseCount, F
    <3> QED
      BY <1>4, <2>7, <3>4, <3>5, <3>6, <3>7
  <2> QED
    BY <2>6, <2>7
<1> QED
  BY <1>1, <1>2, <1>3, <1>4 DEF Next, Progress

-----------------------------------------------------------------------------
(***************************************************************************)
(* What is returned.                                                       *)
(***************************************************************************)
LEMMA ReturnCounted ==
    ASSUME Return("ok", bars, ints),
           bars # << >> =>
              \E S \in SUBSET (DOMAIN Descriptors(source)) :
                 Counted(Descriptors(source), S, bars, ints)
    PROVE  FromOneSource'
<1>1. result' = [out |-> "ok", source |-> source, bars |-> bars, ints |-> ints]
      /\ machine' = machine
  BY DEF Return
<1>2. /\ result'.source = source /\ result'.bars = bars /\ result'.ints = ints
  BY <1>1
<1>3. Descriptors(result.source)' = Descriptors(source)
  BY <1>1, <1>2 DEF Descriptors
<1> QED
  BY <1>2, <1>3, Zenon DEF FromOneSource

LEMMA ResultStep ==
    ASSUME TypeInv, WalkCount, ParseCount, FromOneSource, [Next]_vars
    PROVE  FromOneSource'
<1>1. CASE result' = result /\ machine' = machine
  BY <1>1 DEF FromOneSource, Descriptors
<1>2. CASE Call
  BY <1>2 DEF Call, NoResult, FromOneSource
<1>3. CASE Return("struct.error", << >>, 0)
  <2>1. result'.out = "struct.error"
    BY <1>3 DEF Return
  <2> QED
    BY <2>1 DEF FromOneSource
<1>4. CASE Return("ok", bars, ints) /\ (Walked \/ QueryValue \/ Parsed)
  <2>1. CASE pc = "walked"
    <3>1. source \in InCfgMgr
      BY <2>1 DEF TypeInv
    <3>2. Descriptors(source) = Held /\ DOMAIN Held = 1 .. Len(Held)
      BY <3>1, HeldType DEF TypeInv
    <3>3. \E S \in SUBSET (1 .. Len(Held)) : Counted(Held, S, bars, ints)
      BY <2>1, Zenon DEF WalkCount
    <3> QED
      BY <1>4, <3>2, <3>3, ReturnCounted
  <2>2. CASE pc = "parsed"
    <3>1. source \in InRegistry
      BY <2>2 DEF TypeInv
    <3>2. Descriptors(source) = FlattenSeq(Held.lists)
      BY <3>1, HeldType DEF TypeInv
    <3>3. Counted(FlattenSeq(Held.lists), Complete(Held, Len(Data)), bars, ints)
      BY <2>2 DEF ParseCount
    <3>4. Complete(Held, Len(Data)) \in SUBSET (DOMAIN FlattenSeq(Held.lists))
      BY DEF Complete
    <3> QED
      BY <1>4, <3>2, <3>3, <3>4, ReturnCounted
  <2>3. CASE pc = "value"
    <3>1. bars = << >>
      BY <2>3 DEF TypeInv, Barless
    <3> QED
      BY <1>4, <3>1, ReturnCounted
  <2> QED
    BY <1>4, <2>1, <2>2, <2>3 DEF Walked, QueryValue, Parsed
<1>5. NoValue => \/ Return("ok", bars, ints)
                 \/ result' = result /\ machine' = machine
  BY DEF NoValue, NextSource
<1>6. CASE Walked
  <2>1. Return("ok", bars, ints) \/ (result' = result /\ machine' = machine)
    BY <1>6 DEF Walked, NextSource
  <2> QED
    BY <1>1, <1>4, <1>6, <2>1
<1>7. CASE QueryValue
  <2>1. Return("ok", bars, ints) \/ (result' = result /\ machine' = machine)
    BY <1>5, <1>7 DEF QueryValue
  <2> QED
    BY <1>1, <1>4, <1>7, <2>1
<1>8. CASE Parsed
  <2>1. Return("ok", bars, ints) \/ (result' = result /\ machine' = machine)
    BY <1>5, <1>8 DEF Parsed
  <2> QED
    BY <1>1, <1>4, <1>8, <2>1
<1>9. CASE \/ GetFirstLogConf \/ GetNextResDes \/ GetResDesData \/ FreePrevious
           \/ FreeLast \/ FreeLogConf \/ FullDescriptor \/ PartialDescriptor \/ ListEnd
  <2>1. result' = result /\ machine' = machine
    BY <1>9 DEF GetFirstLogConf, GetNextResDes, GetResDesData, FreePrevious, FreeLast,
                FreeLogConf, FullDescriptor, PartialDescriptor, ListEnd, NextSource
  <2> QED
    BY <1>1, <2>1
<1>10. CASE UNCHANGED vars
  BY <1>1, <1>10 DEF vars
<1>11. HeaderRaises => Return("struct.error", << >>, 0)
  BY DEF HeaderRaises
<1> QED
  BY <1>2, <1>3, <1>6, <1>7, <1>8, <1>9, <1>10, <1>11 DEF Next, Progress

-----------------------------------------------------------------------------
ParseInv == TypeInv /\ WalkInv /\ WalkCount /\ ParseCount /\ FromOneSource

LEMMA ParseInvariant == Spec => []ParseInv
<1>1. Init => ParseInv
  <2>1. ASSUME Init PROVE TypeInv
    <3>1. << >> \in Seq((Nat \X Nat) \X Nat)
      OBVIOUS
    <3> QED
      BY <2>1, <3>1 DEF Init, TypeInv, Barless, Walking
  <2>2. Init => WalkInv /\ WalkCount /\ ParseCount
    BY DEF Init, WalkInv, WalkCount, ParseCount
  <2>3. Init => FromOneSource
    BY DEF Init, NoResult, FromOneSource
  <2> QED
    BY <2>1, <2>2, <2>3 DEF ParseInv
<1>2. ParseInv /\ [Next]_vars => ParseInv'
  <2> SUFFICES ASSUME TypeInv, WalkInv, WalkCount, ParseCount, FromOneSource,
                      [Next]_vars
               PROVE  ParseInv'
    BY DEF ParseInv
  <2>1. TypeInv'
    <3>1. CASE UNCHANGED vars
      <4>1. /\ pc' = pc /\ machine' = machine /\ source' = source
            /\ UNCHANGED << walkVars, parseVars, bars, ints >>
        BY <3>1 DEF vars
      <4>2. Held' = Held /\ Data' = Data
        BY <4>1, SameSource
      <4> QED
        BY <4>1, <4>2 DEF TypeInv, Barless, Walking, walkVars, parseVars
    <3> QED
      BY <3>1, WalkTypes, ParseTypes DEF Next, Progress
  <2>2. WalkInv'
    <3>1. CASE UNCHANGED vars
      BY <3>1 DEF vars, walkVars, WalkInv
    <3> QED
      BY <3>1, WalkStep, OtherStep DEF Next, Progress
  <2> QED
    BY <2>1, <2>2, WalkCountStep, ParseCountStep, ResultStep DEF ParseInv
<1> QED
  BY <1>1, <1>2, PTL DEF Spec

\* The type invariant, whatever the four sources hold.
THEOREM TypeCorrect == Spec => []TypeOK
<1>1. ASSUME ParseInv PROVE TypeOK
  <2>1. TypeInv /\ WalkInv
    BY <1>1 DEF ParseInv
  <2>2. /\ pc \in {"idle", "first", "next", "data", "previous", "last", "conf",
                  "walked", "value", "full", "partial", "parsed"}
        /\ source \in 1 .. 4 /\ machine \in Machines
        /\ new \in Nat /\ lists \in Nat /\ parts \in Nat /\ ints \in Nat
        /\ bars \in Seq((Nat \X Nat) \X Nat)
        /\ offset \in {0, 1} \/ offset \in 0 .. Len(Data)
    BY <2>1 DEF TypeInv
  <2>3. DOMAIN Sources = 1 .. 4
    BY DEF Sources
  <2>4. live \subseteq Handles /\ current \in Handles \cup {0}
    <3>1. CASE Walking
      <4>1. source \in InCfgMgr
        BY <2>1, <3>1 DEF TypeInv, Walking
      <4>2. Len(Held) \in Nat /\ Handles = 0 .. Len(Held)
        BY <2>2, <4>1, HeldType DEF Handles
      <4>3. current \in Nat /\ current <= Len(Held)
            /\ (pc \in {"data", "previous"} => new <= Len(Held))
        BY <2>1, <3>1 DEF TypeInv, WalkInv
      <4> QED
        BY <2>1, <2>2, <3>1, <4>2, <4>3 DEF WalkInv, Walking
    <3>2. CASE ~Walking
      BY <2>1, <3>2 DEF WalkInv, TypeInv, Walking
    <3> QED
      BY <3>1, <3>2
  <2> QED
    BY <2>2, <2>3, <2>4 DEF TypeOK
<1>2. ParseInv => TypeOK
  BY <1>1
<1> QED
  BY <1>2, ParseInvariant, PTL

\* However many lists a value has and however long they are, and wherever it
\* was cut: the parser takes exactly the descriptors that are there as a whole.
THEOREM ParsesWhole == Spec => []ParsesWholeDescriptors
<1>1. ParseInv => ParsesWholeDescriptors
  BY DEF ParseInv, ParseCount, ParsesWholeDescriptors, Complete
<1> QED
  BY <1>1, ParseInvariant, PTL

\* BARs and interrupts that are returned together come from one source, in
\* its order.
THEOREM OneSource == Spec => []FromOneSource
<1>1. ParseInv => FromOneSource
  BY DEF ParseInv
<1> QED
  BY <1>1, ParseInvariant, PTL

-----------------------------------------------------------------------------
(***************************************************************************)
(* The search goes forward.                                                *)
(***************************************************************************)
Forward ==
    \/ pc' = "idle"
    \/ source' > source
    \/ source' = source /\ StepsLeft' \in 0 .. StepsLeft - 1

LEMMA NextSourceForward ==
    ASSUME TypeInv, NextSource
    PROVE  Forward
BY DEF TypeInv, NextSource, Forward

LEMMA NoValueForward ==
    ASSUME TypeInv, NoValue
    PROVE  Forward
<1>1. Return("ok", bars, ints) => pc' = "idle"
  BY DEF Return
<1> QED
  BY <1>1, NextSourceForward DEF NoValue, Forward

LEMMA WalkForward ==
    ASSUME TypeInv, WalkInv,
           \/ GetFirstLogConf \/ GetNextResDes \/ GetResDesData
           \/ FreePrevious \/ FreeLast \/ FreeLogConf
    PROVE  Forward
<1>1. CASE GetFirstLogConf /\ NextSource
  BY <1>1, NextSourceForward
<1>2. CASE ~(GetFirstLogConf /\ NextSource)
  <2>1. /\ source' = source /\ machine' = machine
        /\ pc \in {"first", "next", "data", "previous", "last", "conf"}
    BY <1>2 DEF GetFirstLogConf, GetNextResDes, GetResDesData, FreePrevious, FreeLast,
                FreeLogConf
  <2>2. Held' = Held
    BY <2>1, SameSource
  <2> DEFINE n == Len(Held)
  <2>3. /\ n \in Nat /\ current \in Nat /\ new \in Nat
        /\ Walking => current <= n
        /\ pc \in {"data", "previous"} => new = current + 1 /\ new <= n
    BY <2>1, HeldType DEF TypeInv, WalkInv
  <2>4. CASE pc = "first"
    <3>1. pc' = "next" /\ current' = 0
      BY <1>2, <2>4 DEF GetFirstLogConf, GetNextResDes, GetResDesData, FreePrevious,
                        FreeLast, FreeLogConf
    <3>2. StepsLeft = 3 * n + 5 /\ StepsLeft' = 3 * (n - 0) + 4
      BY <2>2, <2>4, <3>1 DEF StepsLeft
    <3> QED
      BY <2>1, <2>3, <3>2 DEF Forward
  <2>5. CASE pc = "next"
    <3>1. /\ pc' \in {"data", "last"} /\ current' = current
          /\ pc' = "data" => current < n
      BY <1>2, <2>5 DEF GetFirstLogConf, GetNextResDes, GetResDesData, FreePrevious,
                        FreeLast, FreeLogConf
    <3>2. /\ StepsLeft = 3 * (n - current) + 4
          /\ pc' = "data" => StepsLeft' = 3 * (n - current) + 3
          /\ pc' = "last" => StepsLeft' = 3
      BY <2>2, <2>5, <3>1 DEF StepsLeft
    <3>3. current <= n
      BY <2>3, <2>5 DEF Walking
    <3> QED
      BY <2>1, <2>3, <3>1, <3>2, <3>3 DEF Forward
  <2>6. CASE pc = "data"
    <3>1. pc' = "previous" /\ current' = current
      BY <1>2, <2>6 DEF GetFirstLogConf, GetNextResDes, GetResDesData, FreePrevious,
                        FreeLast, FreeLogConf, walkVars
    <3>2. /\ StepsLeft = 3 * (n - current) + 3
          /\ StepsLeft' = 3 * (n - current) + 2
      BY <2>2, <2>6, <3>1 DEF StepsLeft
    <3>3. current <= n
      BY <2>3, <2>6 DEF Walking
    <3> QED
      BY <2>1, <2>3, <3>2, <3>3 DEF Forward
  <2>7. CASE pc = "previous"
    <3>1. pc' = "next" /\ current' = current + 1 /\ current + 1 <= n
      BY <1>2, <2>3, <2>7 DEF GetFirstLogConf, GetNextResDes, GetResDesData, FreePrevious,
                              FreeLast, FreeLogConf
    <3>2. /\ StepsLeft = 3 * (n - current) + 2
          /\ StepsLeft' = 3 * (n - (current + 1)) + 4
      BY <2>2, <2>7, <3>1 DEF StepsLeft
    <3> QED
      BY <2>1, <2>3, <3>1, <3>2 DEF Forward
  <2>8. CASE pc \in {"last", "conf"}
    <3>1. \/ pc = "last" /\ pc' = "conf" /\ StepsLeft = 3 /\ StepsLeft' = 2
          \/ pc = "conf" /\ pc' = "walked" /\ StepsLeft = 2 /\ StepsLeft' = 1
      BY <1>2, <2>8 DEF GetFirstLogConf, GetNextResDes, GetResDesData, FreePrevious,
                        FreeLast, FreeLogConf, StepsLeft
    <3> QED
      BY <2>1, <3>1 DEF Forward
  <2> QED
    BY <2>1, <2>4, <2>5, <2>6, <2>7, <2>8
<1> QED
  BY <1>1, <1>2

LEMMA ParseForward ==
    ASSUME TypeInv, ParseCount,
           \/ Walked \/ QueryValue \/ FullDescriptor \/ HeaderRaises
           \/ PartialDescriptor \/ ListEnd \/ Parsed
    PROVE  Forward
<1> DEFINE L == Len(Data)
<1>1. CASE NextSource \/ NoValue \/ pc' = "idle"
  BY <1>1, NextSourceForward, NoValueForward DEF Forward
<1>2. CASE ~(NextSource \/ NoValue \/ pc' = "idle")
  <2>1. /\ QueryValue \/ FullDescriptor \/ PartialDescriptor \/ ListEnd
        /\ source' = source /\ machine' = machine
        /\ pc \in {"value", "full", "partial"}
    BY <1>2 DEF Walked, QueryValue, FullDescriptor, HeaderRaises, Header,
                PartialDescriptor, ListEnd, Parsed, Return
  <2>2. Data' = Data
    BY <2>1, SameSource
  <2>3. L \in Nat
    BY HeldType DEF TypeInv
  <2>4. pc \in {"full", "partial"} => offset \in Nat /\ offset <= L
    <3>1. ASSUME pc \in {"full", "partial"} PROVE offset \in Nat /\ offset <= L
      <4>1. PICK k, q : ParserAt(k, q)
        BY <3>1 DEF ParseCount
      <4> QED
        BY <2>3, <4>1 DEF ParserAt, TypeInv
    <3> QED
      BY <3>1
  <2>5. CASE QueryValue
    <3>1. /\ pc = "value" /\ offset' = 1
          /\ pc' = IF L < 1 THEN "parsed" ELSE "full"
      BY <1>2, <2>5 DEF QueryValue, Return
    <3>2. /\ StepsLeft = 2 * L + 2
          /\ pc' = "parsed" => StepsLeft' = 1
          /\ pc' = "full" => StepsLeft' = 2 * (L - 1) + 2
      BY <2>2, <3>1 DEF StepsLeft
    <3> QED
      BY <2>1, <2>3, <3>1, <3>2 DEF Forward
  <2>6. CASE FullDescriptor
    <3>1. pc = "full" /\ pc' = "partial" /\ offset' = offset + 4 /\ offset + 4 <= L
      BY <2>6 DEF FullDescriptor, Header, HeaderCells
    <3>2. StepsLeft = 2 * (L - offset) + 2 /\ StepsLeft' = 2 * (L - (offset + 4)) + 3
      BY <2>2, <3>1 DEF StepsLeft
    <3> QED
      BY <2>1, <2>3, <2>4, <3>1, <3>2 DEF Forward
  <2>7. CASE PartialDescriptor
    <3>1. /\ pc = "partial"
          /\ \/ pc' = "partial" /\ offset' = offset + 4 /\ offset + 4 <= L
             \/ pc' = "full" /\ offset' = offset
      BY <2>7 DEF PartialDescriptor, Room
    <3>2. /\ StepsLeft = 2 * (L - offset) + 3
          /\ pc' = "partial" => StepsLeft' = 2 * (L - offset') + 3
          /\ pc' = "full" => StepsLeft' = 2 * (L - offset') + 2
      BY <2>2, <3>1 DEF StepsLeft
    <3> QED
      BY <2>1, <2>3, <2>4, <3>1, <3>2 DEF Forward
  <2>8. CASE ListEnd
    <3>1. pc = "full" /\ pc' = "parsed"
      BY <2>8 DEF ListEnd
    <3>2. StepsLeft = 2 * (L - offset) + 2 /\ StepsLeft' = 1
      BY <3>1 DEF StepsLeft
    <3> QED
      BY <2>1, <2>3, <2>4, <3>1, <3>2 DEF Forward
  <2> QED
    BY <2>1, <2>5, <2>6, <2>7, <2>8
<1> QED
  BY <1>1, <1>2

\* Whatever fails and whatever the counts in a value claim, each step of the
\* search brings its end nearer.
THEOREM Advances == Spec => SearchAdvances
<1>1. ParseInv /\ [Next]_vars => [pc # "idle" => Forward]_vars
  <2>1. ASSUME ParseInv, Next, pc # "idle" PROVE Forward
    <3>1. ~Call
      BY <2>1 DEF Call
    <3> QED
      BY <2>1, <3>1, WalkForward, ParseForward DEF ParseInv, Next, Progress
  <2> QED
    BY <2>1
<1>2. [pc # "idle" => Forward]_vars
      => [pc # "idle" =>
             \/ pc' = "idle"
             \/ source' > source
             \/ source' = source /\ StepsLeft' \in 0 .. StepsLeft - 1]_vars
  BY DEF Forward
<1> QED
  BY <1>1, <1>2, ParseInvariant, PTL DEF Spec, SearchAdvances
=============================================================================
