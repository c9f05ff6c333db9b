-------------------------- MODULE ArithmeticLemmas --------------------------
(***************************************************************************)
(* Lemmas the other proofs share: the least element of a set of numbers,   *)
(* division, and numbers as sets of bits.                                  *)
(***************************************************************************)
EXTENDS Integers, BitWords, FiniteSetTheorems, TLAPS

\* A nonempty set of natural numbers has a least element: the induction these
\* proofs use.
LEMMA Least ==
    ASSUME NEW T \in SUBSET Nat, T # {}
    PROVE  \E x \in T : \A y \in T : x <= y
<1> DEFINE U == {0 .. n : n \in T}
<1>1. U \subseteq FiniteSubsetsOf(Nat)
  <2>1. ASSUME NEW n \in T PROVE IsFiniteSet(0 .. n) /\ 0 .. n \in SUBSET Nat
    <3>1. 0 \in Int /\ n \in Int
      OBVIOUS
    <3> QED
      BY <3>1, FS_Interval
  <2> QED
    BY <2>1 DEF FiniteSubsetsOf
<1>2. U # {}
  OBVIOUS
<1>3. IsWellFoundedOn(StrictSubsetOrdering(Nat), FiniteSubsetsOf(Nat))
  BY FS_StrictSubsetOrderingWellFounded
<1> HIDE DEF U
<1>4. PICK u \in U : \A w \in U : ~(<< w, u >> \in StrictSubsetOrdering(Nat))
  BY <1>1, <1>2, <1>3, WFMin
<1>5. PICK x \in T : u = 0 .. x
  BY DEF U
<1>6. ASSUME NEW y \in T, y < x PROVE FALSE
  <2>1. 0 .. y \in U /\ x \in 0 .. x /\ x \notin 0 .. y
    BY <1>6 DEF U
  <2>2. 0 .. y \subseteq 0 .. x /\ 0 .. y \subseteq Nat /\ 0 .. x \subseteq Nat
    BY <1>6
  <2>3. 0 .. y # 0 .. x
    BY <2>1
  <2>4. << 0 .. y, 0 .. x >> \in StrictSubsetOrdering(Nat)
    BY <2>2, <2>3 DEF StrictSubsetOrdering
  <2> QED
    BY <1>4, <1>5, <2>1, <2>4
<1> QED
  BY <1>6

-----------------------------------------------------------------------------
(***************************************************************************)
(* Division.                                                               *)
(***************************************************************************)
LEMMA DivUnique ==
    ASSUME NEW b \in Nat, NEW q \in Nat, NEW r \in Nat, r < b
    PROVE  (r + b * q) \div b = q /\ (r + b * q) % b = r
BY Z3

LEMMA DivChain ==
    ASSUME NEW x \in Nat, NEW a \in Nat \ {0}, NEW b \in Nat \ {0}
    PROVE  x \div (a * b) = (x \div a) \div b
BY Z3

LEMMA DivMod ==
    ASSUME NEW x \in Nat, NEW b \in Nat \ {0}
    PROVE  /\ x \div b \in Nat /\ x % b \in 0 .. b - 1
           /\ x = (x % b) + b * (x \div b)
BY Z3

LEMMA DivideSum ==
    ASSUME NEW p \in Nat \ {0}, NEW s \in Nat, NEW t \in Nat, t < p
    PROVE  (t + p * s) \div p = s
BY DivUnique

\* The lower digits of a number do not depend on the upper ones.
LEMMA LowerBits ==
    ASSUME NEW x \in Nat, NEW p \in Nat \ {0}, NEW c \in Nat \ {0}
    PROVE  ((x % (p * (2 * c))) \div p) % 2 = (x \div p) % 2
<1> DEFINE w == p * (2 * c)
           r == x % w
           q == x \div w
           s == r \div p
           t == r % p
<1>1. 2 * c \in Nat \ {0} /\ w \in Nat \ {0}
  BY Z3
<1> HIDE DEF w
<1>2. r \in Nat /\ q \in Nat /\ x = r + w * q
  BY <1>1, DivMod
<1> HIDE DEF r, q
<1>3. s \in Nat /\ t \in Nat /\ t < p /\ r = t + p * s
  <2>1. s \in Nat /\ t \in 0 .. p - 1 /\ r = t + p * s
    BY <1>2, DivMod, Zenon
  <2> QED
    BY <2>1
<1> HIDE DEF s, t
<1>4. c * q \in Nat
  BY <1>2, Z3
<1>5. w * q = p * (2 * (c * q))
  BY <1>2, Z3 DEF w
<1>6. p * s + p * (2 * (c * q)) = p * (s + 2 * (c * q))
  BY <1>3, <1>4, Z3
<1>7. x = t + p * (s + 2 * (c * q))
  <2>1. p * s \in Nat /\ p * (2 * (c * q)) \in Nat
    BY <1>3, <1>4, Z3
  <2> QED
    BY <1>2, <1>3, <1>5, <1>6, <2>1
<1>8. s + 2 * (c * q) \in Nat
  BY <1>3, <1>4
<1>9. x \div p = s + 2 * (c * q)
  BY <1>3, <1>7, <1>8, DivideSum
<1>10. (s + 2 * (c * q)) % 2 = s % 2
  BY <1>3, <1>4
<1> QED
  BY <1>9, <1>10 DEF s, r, w

-----------------------------------------------------------------------------
(***************************************************************************)
(* Numbers as sets of bits.                                                *)
(***************************************************************************)
\* 2^b as a function: the prover knows a power only of a number it is given.
Power == [b \in 0 .. 32 |-> 2^b]
LEMMA PowerTable ==
    /\ Power[0] = 1
    /\ Power[1] = 2
    /\ Power[2] = 4
    /\ Power[3] = 8
    /\ Power[4] = 16
    /\ Power[5] = 32
    /\ Power[6] = 64
    /\ Power[7] = 128
    /\ Power[8] = 256
    /\ Power[9] = 512
    /\ Power[10] = 1024
    /\ Power[11] = 2048
    /\ Power[12] = 4096
    /\ Power[13] = 8192
    /\ Power[14] = 16384
    /\ Power[15] = 32768
    /\ Power[16] = 65536
    /\ Power[17] = 131072
    /\ Power[18] = 262144
    /\ Power[19] = 524288
    /\ Power[20] = 1048576
    /\ Power[21] = 2097152
    /\ Power[22] = 4194304
    /\ Power[23] = 8388608
    /\ Power[24] = 16777216
    /\ Power[25] = 33554432
    /\ Power[26] = 67108864
    /\ Power[27] = 134217728
    /\ Power[28] = 268435456
    /\ Power[29] = 536870912
    /\ Power[30] = 1073741824
    /\ Power[31] = 2147483648
    /\ Power[32] = 4294967296
BY DEF Power
LEMMA PowerStep ==
    ASSUME NEW b \in 0 .. 31
    PROVE  Power[b] \in Nat \ {0} /\ Power[b + 1] = 2 * Power[b]
BY PowerTable

\* Adding exponents.
LEMMA PowerSum ==
    ASSUME NEW a \in 0 .. 31, NEW c \in 0 .. 31, a + c <= 32
    PROVE  Power[a + c] = Power[a] * Power[c]
<1> DEFINE T == {b \in 0 .. 31 : a + b <= 32 /\ Power[a + b] # Power[a] * Power[b]}
<1>1. ASSUME T # {} PROVE FALSE
  <2>1. T \in SUBSET Nat
    OBVIOUS
  <2>2. PICK x \in T : \A y \in T : x <= y
    BY <1>1, <2>1, Least
  <2>3. x # 0
    <3>1. a + 0 = a /\ Power[0] = 1 /\ Power[a] \in Nat
      BY PowerTable, PowerStep
    <3>2. Power[a] * 1 = Power[a]
      BY <3>1
    <3> QED
      BY <3>1, <3>2
  <2> DEFINE b == x - 1
  <2>4. b \in 0 .. 30 /\ x = b + 1 /\ a + b \in 0 .. 31 /\ a + x = (a + b) + 1 /\ b \notin T
    BY <2>2, <2>3
  <2> HIDE DEF b
  <2>5. Power[a + b] = Power[a] * Power[b]
    BY <2>4
  <2>6. /\ Power[x] = 2 * Power[b] /\ Power[a + x] = 2 * Power[a + b]
        /\ Power[a] \in Nat /\ Power[b] \in Nat
    BY <2>4, PowerStep
  <2>7. \A p, q \in Nat : 2 * (p * q) = p * (2 * q)
    BY Z3
  <2>8. Power[a + x] = Power[a] * Power[x]
    BY <2>5, <2>6, <2>7
  <2> QED
    BY <2>8
<1> QED
  BY <1>1

\* The bits of a number, with the powers as constants.
LEMMA BitsDef ==
    ASSUME NEW x \in Nat
    PROVE  /\ Bits(x) \subseteq 0 .. 30
           /\ \A b \in 0 .. 30 : b \in Bits(x) <=> (x \div Power[b]) % 2 = 1
<1>1. \A b \in 0 .. 30 : Power[b] = 2^b
  <2>1. \A b \in 0 .. 30 : b \in 0 .. 32
    OBVIOUS
  <2> QED
    BY <2>1, Zenon DEF Power
<1>2. Bits(x) = {b \in 0 .. 30 : (x \div Power[b]) % 2 = 1}
  BY <1>1 DEF Bits
<1> QED
  BY <1>2

\* Cutting a number to its low k bits is taking the rest modulo 2^k.
LEMMA BitsCut ==
    ASSUME NEW x \in Nat, NEW k \in 0 .. 16
    PROVE  Low(Bits(x), k) = Bits(x % Power[k])
<1> DEFINE r == x % Power[k]
<1>1. Power[k] \in Nat \ {0}
  BY PowerStep
<1>2. r \in Nat /\ r < Power[k]
  <2>1. r \in 0 .. Power[k] - 1
    BY <1>1, DivMod, Zenon
  <2> QED
    BY <1>1, <2>1
<1>3. Bits(x) \subseteq 0 .. 30 /\ Bits(r) \subseteq 0 .. 30
  BY <1>2, BitsDef
<1>4. ASSUME NEW b \in 0 .. 30 PROVE b \in Bits(r) <=> b < k /\ b \in Bits(x)
  <2>1. Power[b] \in Nat \ {0}
    BY PowerStep
  <2>2. CASE b < k
    <3> DEFINE c == k - (b + 1)
    <3>1. c \in 0 .. 31 /\ b + 1 \in 0 .. 31 /\ k = b + (c + 1) /\ c + 1 \in 0 .. 31
      BY <2>2
    <3> HIDE DEF c
    <3>2. b \in 0 .. 31 /\ b + (c + 1) <= 32
      BY <2>2, <3>1
    <3>3. Power[b + (c + 1)] = Power[b] * Power[c + 1]
      BY <3>1, <3>2, PowerSum, Zenon
    <3>4. Power[c + 1] = 2 * Power[c] /\ Power[c] \in Nat \ {0}
      BY <3>1, PowerStep
    <3>5. Power[k] = Power[b] * (2 * Power[c])
      BY <3>1, <3>3, <3>4, Zenon
    <3>6. (r \div Power[b]) % 2 = (x \div Power[b]) % 2
      <4>1. ((x % (Power[b] * (2 * Power[c]))) \div Power[b]) % 2
              = (x \div Power[b]) % 2
        BY <2>1, <3>4, LowerBits, Zenon
      <4> QED
        BY <3>5, <4>1, Zenon
    <3> QED
      BY <1>2, <2>2, <3>6, BitsDef
  <2>3. CASE ~(b < k)
    <3> DEFINE c == b - k
    <3>1. c \in 0 .. 31 /\ b = k + c
      BY <2>3
    <3> HIDE DEF c
    <3>6. k \in 0 .. 31 /\ k + c <= 32
      BY <3>1
    <3>7. Power[b] = Power[k] * Power[c]
      BY <3>1, <3>6, PowerSum, Zenon
    <3>2. Power[b] = Power[k] * Power[c] /\ Power[c] \in Nat \ {0}
      BY <3>1, <3>7, PowerStep
    <3>3. Power[k] <= Power[b]
      BY <1>1, <3>2, Z3
    <3>4. r = r + Power[b] * 0 /\ r < Power[b]
      BY <1>1, <1>2, <2>1, <3>3
    <3>5. r \div Power[b] = 0
      BY <1>2, <2>1, <3>4, DivUnique
    <3> QED
      BY <1>2, <2>3, <3>5, BitsDef
  <2> QED
    BY <2>2, <2>3
<1> HIDE DEF r
<1>5. Low(Bits(x), k) = Bits(r)
  BY <1>3, <1>4 DEF Low
<1> QED
  BY <1>5 DEF r

\* Dividing by 2^a moves the bits down.
LEMMA BitsShift ==
    ASSUME NEW x \in Nat, NEW a \in 0 .. 30, NEW b \in 0 .. 30, a + b <= 30
    PROVE  b + a \in Bits(x) <=> b \in Bits(x \div Power[a])
<1>1. /\ Power[a] \in Nat \ {0} /\ Power[b] \in Nat \ {0}
      /\ Power[a + b] = Power[a] * Power[b]
  <2>1. a \in 0 .. 31 /\ b \in 0 .. 31 /\ a + b <= 32
    OBVIOUS
  <2>2. Power[a + b] = Power[a] * Power[b]
    BY <2>1, PowerSum, Zenon
  <2> QED
    BY <2>1, <2>2, PowerStep, Zenon
<1>2. x \div Power[a] \in Nat
  BY <1>1, DivMod
<1>3. x \div Power[a + b] = (x \div Power[a]) \div Power[b]
  <2>1. x \div (Power[a] * Power[b]) = (x \div Power[a]) \div Power[b]
    BY <1>1, DivChain, Zenon
  <2> QED
    BY <1>1, <2>1, Zenon
<1>4. a + b = b + a /\ b + a \in 0 .. 30
  OBVIOUS
<1> QED
  BY <1>2, <1>3, <1>4, BitsDef
=============================================================================
