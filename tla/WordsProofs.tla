---------------------------- MODULE WordsProofs ----------------------------
(***************************************************************************)
(* Theorems about the words and packets the package builds, for arguments  *)
(* of any width, descriptors and packets of any number, and about the      *)
(* reading of status words over a link that may be lost.                   *)
(***************************************************************************)
EXTENDS MCWords, BarMemoryProofs

-----------------------------------------------------------------------------
(***************************************************************************)
(* The header builder.                                                     *)
(***************************************************************************)
\* Field f has the n bits from lo on, in all three tables.
Row(f, lo, n) ==
    Shift[f] = lo /\ Width[f] = n /\ Mask[f] = lo .. lo + n - 1

\* The layout of the header.
LEMMA Layout ==
    /\ Row("signal_mask", 0, 5)
    /\ Row("signal_en", 5, 1)
    /\ Row("trans_a", 6, 1)
    /\ Row("lower_a", 7, 1)
    /\ Row("accum_mask", 8, 4)
    /\ Row("load_bias", 12, 1)
    /\ Row("load_cin", 13, 1)
    /\ Row("store_out", 15, 1)
    /\ Row("advance_a", 17, 1)
    /\ Row("advance_b", 18, 1)
    /\ Row("ab_data_type", 24, 2)
    /\ Row("cin_data_type", 26, 3)
    /\ Row("cout_data_type", 29, 3)
<1>1. Row("signal_mask", 0, 5)
  BY DEF Row, Shift, Width, Mask
<1>2. Row("signal_en", 5, 1)
  BY DEF Row, Shift, Width, Mask
<1>3. Row("trans_a", 6, 1)
  BY DEF Row, Shift, Width, Mask
<1>4. Row("lower_a", 7, 1)
  BY DEF Row, Shift, Width, Mask
<1>5. Row("accum_mask", 8, 4)
  BY DEF Row, Shift, Width, Mask
<1>6. Row("load_bias", 12, 1)
  BY DEF Row, Shift, Width, Mask
<1>7. Row("load_cin", 13, 1)
  BY DEF Row, Shift, Width, Mask
<1>8. Row("store_out", 15, 1)
  BY DEF Row, Shift, Width, Mask
<1>9. Row("advance_a", 17, 1)
  BY DEF Row, Shift, Width, Mask
<1>10. Row("advance_b", 18, 1)
  BY DEF Row, Shift, Width, Mask
<1>11. Row("ab_data_type", 24, 2)
  BY DEF Row, Shift, Width, Mask
<1>12. Row("cin_data_type", 26, 3)
  BY DEF Row, Shift, Width, Mask
<1>13. Row("cout_data_type", 29, 3)
  BY DEF Row, Shift, Width, Mask
<1> QED
  BY <1>1, <1>2, <1>3, <1>4, <1>5, <1>6, <1>7, <1>8, <1>9, <1>10, <1>11, <1>12, <1>13

\* A field lies inside the word, and two fields lie apart.
LEMMA FieldsApart ==
    /\ \A f \in HeaderFields :
          /\ Width[f] \in Nat /\ Shift[f] \in Nat
          /\ Mask[f] = Shift[f] .. Shift[f] + Width[f] - 1
          /\ Shift[f] + Width[f] <= 32
    /\ \A f, g \in HeaderFields :
          f # g => \/ Shift[f] + Width[f] <= Shift[g]
                   \/ Shift[g] + Width[g] <= Shift[f]
<1>1. ASSUME NEW f \in HeaderFields
      PROVE  /\ Width[f] \in 1 .. 5 /\ Shift[f] \in 0 .. 29
             /\ Mask[f] = Shift[f] .. Shift[f] + Width[f] - 1
             /\ Shift[f] + Width[f] <= 32
  <2>1. f \in HeaderFields => \E lo \in 0 .. 29, n \in 1 .. 5 : Row(f, lo, n) /\ lo + n <= 32
    BY Layout, 0 \in 0 .. 29 DEF HeaderFields
  <2> QED
    BY <2>1 DEF Row
<1>2. ASSUME NEW f \in HeaderFields, NEW g \in HeaderFields, f # g
      PROVE  Shift[f] + Width[f] <= Shift[g] \/ Shift[g] + Width[g] <= Shift[f]
  <2>1. CASE f \in {"signal_mask", "signal_en", "trans_a", "lower_a"}
    BY <1>2, <2>1, Layout DEF HeaderFields, Row
  <2>2. CASE f \in {"accum_mask", "load_bias", "load_cin"}
    BY <1>2, <2>2, Layout DEF HeaderFields, Row
  <2>3. CASE f \in {"store_out", "advance_a", "advance_b"}
    BY <1>2, <2>3, Layout DEF HeaderFields, Row
  <2>4. CASE f \in {"ab_data_type", "cin_data_type", "cout_data_type"}
    BY <1>2, <2>4, Layout DEF HeaderFields, Row
  <2> QED
    BY <2>1, <2>2, <2>3, <2>4 DEF HeaderFields
<1>3. ASSUME NEW f \in HeaderFields PROVE Width[f] \in Nat /\ Shift[f] \in Nat
  <2>1. Width[f] \in 1 .. 5 /\ Shift[f] \in 0 .. 29
    BY <1>1
  <2> QED
    BY <2>1
<1> QED
  BY <1>1, <1>2, <1>3

\* An argument, however wide, is placed within its field.
LEMMA PlaceInMask ==
    ASSUME NEW f \in HeaderFields, NEW x \in SUBSET Nat
    PROVE  Place(f, x) \subseteq Mask[f] /\ Place(f, x) \subseteq AllOnes
<1> DEFINE n == Width[f]
           s == Shift[f]
<1>1. n \in Nat /\ s \in Nat /\ Mask[f] = s .. s + n - 1 /\ s + n <= 32
  BY FieldsApart
<1>2. Place(f, x) = {b + s : b \in x \cap 0 .. n - 1}
  BY DEF Place, Low, Shl
<1> HIDE DEF n, s
<1>3. ASSUME NEW c \in Place(f, x) PROVE c \in s .. s + n - 1 /\ c \in 0 .. 31
  <2>1. PICK b \in x \cap 0 .. n - 1 : c = b + s
    BY <1>2
  <2> QED
    BY <1>1, <2>1
<1> QED
  BY <1>1, <1>3 DEF AllOnes

\* Two fields have no position in common.
LEMMA MasksDisjoint ==
    ASSUME NEW f \in HeaderFields, NEW g \in HeaderFields, f # g,
           NEW b \in Mask[f]
    PROVE  b \notin Mask[g]
<1>1. /\ Width[f] \in Nat /\ Shift[f] \in Nat
      /\ Width[g] \in Nat /\ Shift[g] \in Nat
      /\ Mask[f] = Shift[f] .. Shift[f] + Width[f] - 1
      /\ Mask[g] = Shift[g] .. Shift[g] + Width[g] - 1
  BY FieldsApart
<1>2. Shift[f] + Width[f] <= Shift[g] \/ Shift[g] + Width[g] <= Shift[f]
  BY FieldsApart
<1>3. b \in Shift[f] .. Shift[f] + Width[f] - 1
  BY <1>1
<1>4. b \notin Shift[g] .. Shift[g] + Width[g] - 1
  BY <1>1, <1>2, <1>3
<1> QED
  BY <1>1, <1>4

\* Arguments the setters are called with.
LEMMA ArgumentsType ==
    ASSUME NEW f \in HeaderFields, NEW x \in Arguments(f)
    PROVE  x \in SUBSET Nat
<1>1. CASE Width[f] = 1
  <2>1. x = {} \/ x = {0}
    BY <1>1 DEF Arguments
  <2> QED
    BY <2>1
<1>2. CASE Width[f] # 1
  <2>1. x \in FieldValues
    BY <1>2 DEF Arguments
  <2> QED
    BY <2>1, FieldValuesAssumption
<1> QED
  BY <1>1, <1>2

HeaderInv == HeaderTypeOK /\ HeaderIsItsFields

\* A setter replaces its own field and keeps the others.
LEMMA SetterStep ==
    ASSUME HeaderInv, NEW f \in HeaderFields, NEW x \in Arguments(f), Set(f, x)
    PROVE  HeaderInv'
<1>1. x \in SUBSET Nat
  BY ArgumentsType
<1>2. set \in [HeaderFields -> SUBSET Nat] /\ set' = [set EXCEPT ![f] = x]
  BY DEF HeaderInv, HeaderTypeOK, Set
<1>3. set' \in [HeaderFields -> SUBSET Nat]
  BY <1>1, <1>2
<1>4. header' = (header \ Mask[f]) \cup Place(f, x)
  BY DEF Set, With
<1>5. header' \subseteq AllOnes
  BY <1>1, <1>4, PlaceInMask DEF HeaderInv, HeaderTypeOK
<1>6. ASSUME NEW b \in header'
      PROVE  \E g \in HeaderFields : b \in Place(g, set'[g])
  <2>1. CASE b \in Place(f, x)
    BY <1>2, <2>1
  <2>2. CASE b \in header /\ b \notin Mask[f]
    <3>1. PICK g \in HeaderFields : b \in Place(g, set[g])
      BY <2>2 DEF HeaderInv, HeaderIsItsFields
    <3>2. set[g] \in SUBSET Nat /\ set[f] \in SUBSET Nat
      BY <1>2
    <3>3. g # f
      BY <2>2, <3>1, <3>2, PlaceInMask
    <3> QED
      BY <1>2, <3>1, <3>3
  <2> QED
    BY <1>4, <1>6, <2>1, <2>2
<1>7. ASSUME NEW g \in HeaderFields, NEW b \in Place(g, set'[g])
      PROVE  b \in header'
  <2>1. CASE g = f
    BY <1>2, <1>4, <1>7, <2>1
  <2>2. CASE g # f
    <3>1. b \in Place(g, set[g]) /\ set[g] \in SUBSET Nat
      BY <1>2, <1>7, <2>2
    <3>2. b \in header
      BY <3>1 DEF HeaderInv, HeaderIsItsFields
    <3>3. b \notin Mask[f]
      BY <2>2, <3>1, PlaceInMask, MasksDisjoint
    <3> QED
      BY <1>4, <3>2, <3>3
  <2> QED
    BY <2>1, <2>2
<1>8. header' = UNION {Place(g, set'[g]) : g \in HeaderFields}
  BY <1>6, <1>7
<1> QED
  BY <1>3, <1>5, <1>8 DEF HeaderInv, HeaderTypeOK, HeaderIsItsFields

LEMMA HeaderInvariant == HeaderSpec => []HeaderInv
<1>1. HeaderInit => HeaderInv
  <2> SUFFICES ASSUME HeaderInit PROVE HeaderInv
    OBVIOUS
  <2>1. \A f \in HeaderFields : Place(f, set[f]) = {}
    BY DEF HeaderInit, Place, Low, Shl
  <2>2. HeaderTypeOK
    BY DEF HeaderInit, HeaderTypeOK
  <2> QED
    BY <2>1, <2>2 DEF HeaderInit, HeaderInv, HeaderIsItsFields
<1>2. HeaderInv /\ [HeaderNext]_headerVars => HeaderInv'
  <2>1. ASSUME HeaderInv, UNCHANGED headerVars PROVE HeaderInv'
    BY <2>1 DEF headerVars, HeaderInv, HeaderTypeOK, HeaderIsItsFields
  <2> QED
    BY <2>1, SetterStep DEF HeaderNext
<1> QED
  BY <1>1, <1>2, PTL DEF HeaderSpec

\* A header never holds more than 32 bits, whatever the setters are given.
THEOREM HeaderTyped == HeaderSpec => []HeaderTypeOK
<1>1. HeaderInv => HeaderTypeOK
  BY DEF HeaderInv
<1> QED
  BY <1>1, HeaderInvariant, PTL

\* However often and in whatever order the setters are called, the header
\* consists of each field's last argument, cut to the field.
THEOREM HeaderExact == HeaderSpec => []HeaderIsItsFields
<1>1. HeaderInv => HeaderIsItsFields
  BY DEF HeaderInv
<1> QED
  BY <1>1, HeaderInvariant, PTL

-----------------------------------------------------------------------------
(***************************************************************************)
(* GEMM descriptors.                                                       *)
(***************************************************************************)
LEMMA InLow ==
    ASSUME NEW v, NEW n, NEW b
    PROVE  b \in Low(v, n) <=> b \in v /\ b \in 0 .. n - 1
BY DEF Low

LEMMA InShift ==
    ASSUME NEW v \in SUBSET Nat, NEW n \in Nat, NEW b \in Nat
    PROVE  /\ b \in Shl(v, n) <=> b >= n /\ b - n \in v
           /\ b \in Shr(v, n) <=> b + n \in v
           /\ Shl(v, n) \subseteq Nat /\ Shr(v, n) \subseteq Nat
<1>1. b \in Shl(v, n) <=> b >= n /\ b - n \in v
  BY DEF Shl
<1>2. ASSUME b + n \in v PROVE b \in Shr(v, n)
  <2>1. b + n \in {c \in v : c >= n} /\ (b + n) - n = b
    BY <1>2
  <2> QED
    BY <2>1 DEF Shr
<1>3. ASSUME b \in Shr(v, n) PROVE b + n \in v
  BY <1>3 DEF Shr
<1>4. Shl(v, n) \subseteq Nat /\ Shr(v, n) \subseteq Nat
  BY DEF Shl, Shr
<1> QED
  BY <1>1, <1>2, <1>3, <1>4

\* The two halves of an address make its low 64 bits.
LEMMA AddressWhole ==
    ASSUME NEW v \in SUBSET Nat
    PROVE  Shl(Low(Shr(v, 32), 32), 32) \cup Low(v, 32) = Low(v, 64)
<1>1. Low(Shr(v, 32), 32) \in SUBSET Nat /\ Shr(v, 32) \in SUBSET Nat
  BY 0 \in Nat, 32 \in Nat, InShift DEF Low
<1>2. Shl(Low(Shr(v, 32), 32), 32) \subseteq Nat
  BY <1>1, 0 \in Nat, 32 \in Nat, InShift
<1>3. ASSUME NEW b \in Nat
      PROVE  b \in Shl(Low(Shr(v, 32), 32), 32) <=> b \in v /\ b \in 32 .. 63
  <2>1. b \in Shl(Low(Shr(v, 32), 32), 32)
          <=> b >= 32 /\ b - 32 \in Low(Shr(v, 32), 32)
    BY <1>1, 32 \in Nat, InShift
  <2>2. ASSUME b >= 32 PROVE b - 32 \in Shr(v, 32) <=> b \in v
    <3>1. b - 32 \in Nat /\ (b - 32) + 32 = b
      BY <2>2
    <3>2. b - 32 \in Shr(v, 32) <=> (b - 32) + 32 \in v
      BY <3>1, 32 \in Nat, InShift, Zenon
    <3> QED
      BY <3>1, <3>2
  <2> QED
    BY <2>1, <2>2, InLow
<1>4. \A b \in Nat : b \in 0 .. 63 <=> b \in 0 .. 31 \/ b \in 32 .. 63
  OBVIOUS
<1> QED
  BY <1>2, <1>3, <1>4 DEF Low

\* What the MME reads in field f of a header.
FieldOf(w, f) == Low(Shr(w, Shift[f]), Width[f])

LEMMA InField ==
    ASSUME NEW w \in SUBSET Nat, NEW f \in HeaderFields, NEW b
    PROVE  b \in FieldOf(w, f) <=> b \in 0 .. Width[f] - 1 /\ b + Shift[f] \in w
<1>1. Width[f] \in Nat /\ Shift[f] \in Nat
  BY FieldsApart
<1>2. b \in 0 .. Width[f] - 1 => b \in Nat
  BY <1>1
<1> QED
  BY <1>1, <1>2, InShift, InLow DEF FieldOf

\* A setter puts its argument into its field and keeps the other fields.
LEMMA SetterFields ==
    ASSUME NEW w \in SUBSET AllOnes, NEW f \in HeaderFields, NEW x \in SUBSET Nat
    PROVE  /\ With(w, f, x) \in SUBSET AllOnes
           /\ FieldOf(With(w, f, x), f) = Low(x, Width[f])
           /\ \A g \in HeaderFields :
                 g # f => FieldOf(With(w, f, x), g) = FieldOf(w, g)
<1> DEFINE v == With(w, f, x)
<1>1. v = (w \ Mask[f]) \cup Place(f, x)
  BY DEF With
<1>2. v \in SUBSET AllOnes /\ v \in SUBSET Nat /\ w \in SUBSET Nat
  BY <1>1, PlaceInMask DEF AllOnes
<1> HIDE DEF v
<1>3. ASSUME NEW g \in HeaderFields, NEW b \in 0 .. Width[g] - 1
      PROVE  b + Shift[g] \in Mask[g]
  BY FieldsApart
<1>4. FieldOf(v, f) = Low(x, Width[f])
  <2>1. ASSUME NEW b \in 0 .. Width[f] - 1
        PROVE  b + Shift[f] \in Place(f, x) <=> b \in x
    <3>1. Width[f] \in Nat /\ Shift[f] \in Nat /\ b \in Nat
      BY FieldsApart
    <3>2. b + Shift[f] \in Nat /\ (b + Shift[f]) - Shift[f] = b /\ b + Shift[f] >= Shift[f]
      BY <3>1
    <3>3. Low(x, Width[f]) \in SUBSET Nat
      BY DEF Low
    <3>4. b + Shift[f] \in Place(f, x)
            <=> b + Shift[f] >= Shift[f] /\ (b + Shift[f]) - Shift[f] \in Low(x, Width[f])
      BY <3>1, <3>2, <3>3, InShift, Zenon DEF Place
    <3>5. b \in Low(x, Width[f]) <=> b \in x
      BY InLow
    <3> QED
      BY <3>2, <3>4, <3>5
  <2>2. ASSUME NEW b \in 0 .. Width[f] - 1
        PROVE  b + Shift[f] \in v <=> b \in x
    BY <1>1, <1>3, <2>1
  <2>3. \A b : b \in FieldOf(v, f) <=> b \in Low(x, Width[f])
    BY <1>2, <2>2, InField, InLow
  <2> QED
    BY <2>3
<1>5. ASSUME NEW g \in HeaderFields, g # f
      PROVE  FieldOf(v, g) = FieldOf(w, g)
  <2>1. ASSUME NEW b \in 0 .. Width[g] - 1
        PROVE  b + Shift[g] \in v <=> b + Shift[g] \in w
    <3>1. b + Shift[g] \notin Mask[f]
      BY <1>3, <1>5, MasksDisjoint
    <3> QED
      BY <1>1, <3>1, PlaceInMask
  <2>2. \A b : b \in FieldOf(v, g) <=> b \in FieldOf(w, g)
    BY <1>2, <2>1, InField
  <2> QED
    BY <2>2
<1> QED
  BY <1>2, <1>4, <1>5 DEF v

\* The fields of the header of a descriptor.
LEMMA HeaderFieldsOf ==
    ASSUME NEW d \in Descriptors
    PROVE  LET w == header_value(d)
           IN  /\ w \in SUBSET AllOnes
               /\ FieldOf(w, "signal_en") = Low(Bool(d.signal_en), 1)
               /\ FieldOf(w, "trans_a") = Low(Bool(d.transpose_a), 1)
               /\ FieldOf(w, "store_out") = Low({0}, 1)
               /\ FieldOf(w, "load_cin") = Low(Bool(d.load_cin), 1)
               /\ FieldOf(w, "load_bias") = Low(Bool(d.load_bias), 1)
               /\ FieldOf(w, "ab_data_type") = Low(d.dtype, 2)
               /\ FieldOf(w, "cout_data_type") = Low(d.out_dtype, 3)
<1> DEFINE w1 == With({}, "signal_mask", {0})
           w2 == With(w1, "signal_en", Bool(d.signal_en))
           w3 == With(w2, "trans_a", Bool(d.transpose_a))
           w4 == With(w3, "store_out", {0})
           w5 == With(w4, "load_cin", Bool(d.load_cin))
           w6 == With(w5, "load_bias", Bool(d.load_bias))
           w7 == With(w6, "ab_data_type", d.dtype)
           w8 == With(w7, "cout_data_type", d.out_dtype)
<1>1. d.dtype \in SUBSET Nat /\ d.out_dtype \in SUBSET Nat
  BY DescriptorsAssumption
<1>2. \A b : Bool(b) \in SUBSET Nat
  BY DEF Bool
<1>3. {} \in SUBSET AllOnes /\ {0} \in SUBSET Nat
  OBVIOUS
<1> DEFINE F == {"signal_mask", "signal_en", "trans_a", "store_out", "load_cin",
                 "load_bias", "ab_data_type", "cout_data_type"}
           Step(w, f, x, v) ==
               /\ v \in SUBSET AllOnes
               /\ FieldOf(v, f) = Low(x, Width[f])
               /\ \A g \in F : g # f => FieldOf(v, g) = FieldOf(w, g)
<1>4. ASSUME NEW w \in SUBSET AllOnes, NEW f \in F, NEW x \in SUBSET Nat
      PROVE  Step(w, f, x, With(w, f, x))
  BY SetterFields, F \subseteq HeaderFields DEF HeaderFields
<1> HIDE DEF Step
<1>11. Step({}, "signal_mask", {0}, w1)
  BY <1>3, <1>4
<1>12. Step(w1, "signal_en", Bool(d.signal_en), w2)
  <2> HIDE DEF w1
  <2> QED
    BY <1>2, <1>4, <1>11 DEF Step
<1>13. Step(w2, "trans_a", Bool(d.transpose_a), w3)
  <2> HIDE DEF w2
  <2> QED
    BY <1>2, <1>4, <1>12 DEF Step
<1>14. Step(w3, "store_out", {0}, w4)
  <2> HIDE DEF w3
  <2> QED
    BY <1>3, <1>4, <1>13 DEF Step
<1>15. Step(w4, "load_cin", Bool(d.load_cin), w5)
  <2> HIDE DEF w4
  <2> QED
    BY <1>2, <1>4, <1>14 DEF Step
<1>16. Step(w5, "load_bias", Bool(d.load_bias), w6)
  <2> HIDE DEF w5
  <2> QED
    BY <1>2, <1>4, <1>15 DEF Step
<1>17. Step(w6, "ab_data_type", d.dtype, w7)
  <2> HIDE DEF w6
  <2> QED
    BY <1>1, <1>4, <1>16 DEF Step
<1>18. Step(w7, "cout_data_type", d.out_dtype, w8)
  <2> HIDE DEF w7
  <2> QED
    BY <1>1, <1>4, <1>17 DEF Step
<1>19. header_value(d) = w8
  BY DEF header_value
<1> HIDE DEF w1, w2, w3, w4, w5, w6, w7, w8
<1>20. /\ Width["signal_en"] = 1 /\ Width["trans_a"] = 1 /\ Width["store_out"] = 1
       /\ Width["load_cin"] = 1 /\ Width["load_bias"] = 1
       /\ Width["ab_data_type"] = 2 /\ Width["cout_data_type"] = 3
  BY DEF Width
<1> QED
  BY <1>11, <1>12, <1>13, <1>14, <1>15, <1>16, <1>17, <1>18, <1>19, <1>20 DEF Step

LEMMA Flags ==
    ASSUME NEW b \in BOOLEAN
    PROVE  Low(Bool(b), 1) = {0} <=> b
BY DEF Low, Bool

\* The low 16 bits of a dimension are those of its rest modulo 2^16.
LEMMA Dimension ==
    ASSUME NEW x \in Nat
    PROVE  Low(Bits(x), 16) = Bits(x % 65536)
<1>1. Power[16] = 65536
  BY PowerTable
<1> QED
  BY <1>1, BitsCut

LEMMA BitsNat ==
    ASSUME NEW x \in Nat
    PROVE  Bits(x) \in SUBSET Nat
BY DEF Bits

LEMMA Dimensions ==
    ASSUME NEW x \in SUBSET Nat, NEW y \in SUBSET Nat
    PROVE  LET w == Low(x, 16) \cup Shl(Low(y, 16), 16)
           IN  /\ w \in SUBSET AllOnes
               /\ Low(w, 16) = Low(x, 16)
               /\ Shr(w, 16) = Low(y, 16)
<1> DEFINE w == Low(x, 16) \cup Shl(Low(y, 16), 16)
<1>1. Low(y, 16) \in SUBSET Nat /\ 16 \in Nat
  BY DEF Low
<1>2. \A b \in Nat : b \in w <=> (b \in x /\ b \in 0 .. 15)
                        \/ (b >= 16 /\ b - 16 \in y /\ b - 16 \in 0 .. 15)
  <2> SUFFICES ASSUME NEW b \in Nat
               PROVE  b \in w <=> (b \in x /\ b \in 0 .. 15)
                        \/ (b >= 16 /\ b - 16 \in y /\ b - 16 \in 0 .. 15)
    OBVIOUS
  <2>1. b \in Shl(Low(y, 16), 16) <=> b >= 16 /\ b - 16 \in Low(y, 16)
    BY <1>1, InShift, Zenon
  <2>2. b - 16 \in Low(y, 16) <=> b - 16 \in y /\ b - 16 \in 0 .. 15
    BY DEF Low
  <2>3. b \in Low(x, 16) <=> b \in x /\ b \in 0 .. 15
    BY DEF Low
  <2> QED
    BY <2>1, <2>2, <2>3
<1>3. w \in SUBSET Nat
  BY <1>1, InShift DEF Low
<1> HIDE DEF w
<1>4. \A b \in Nat : b \in w => b \in 0 .. 31
  BY <1>2
<1>5. ASSUME NEW b \in 0 .. 15 PROVE b \in w <=> b \in x
  BY <1>2
<1>6. \A b \in Nat : b + 16 \in w <=> b \in y /\ b \in 0 .. 15
  <2> SUFFICES ASSUME NEW b \in Nat
               PROVE  b + 16 \in w <=> b \in y /\ b \in 0 .. 15
    OBVIOUS
  <2>1. b + 16 \in Nat /\ b + 16 >= 16 /\ (b + 16) - 16 = b /\ b + 16 \notin 0 .. 15
    OBVIOUS
  <2> QED
    BY <1>2, <2>1
<1>7. Low(w, 16) = Low(x, 16)
  BY <1>3, <1>5 DEF Low
<1>8. \A b \in Nat : b \in Shr(w, 16) <=> b \in Low(y, 16)
  <2> SUFFICES ASSUME NEW b \in Nat
               PROVE  b \in Shr(w, 16) <=> b \in Low(y, 16)
    OBVIOUS
  <2>1. b \in Shr(w, 16) <=> b + 16 \in w
    BY <1>1, <1>3, InShift, Zenon
  <2>2. b \in Low(y, 16) <=> b \in y /\ b \in 0 .. 15
    BY DEF Low
  <2> QED
    BY <1>6, <2>1, <2>2
<1>9. Shr(w, 16) = Low(y, 16)
  BY <1>1, <1>3, <1>8, InShift, 0 \in Nat
<1>10. w \in SUBSET AllOnes
  BY <1>3, <1>4 DEF AllOnes
<1> QED
  BY <1>7, <1>9, <1>10 DEF w

\* What a descriptor is made of.
LEMMA DescriptorType ==
    ASSUME NEW d \in Descriptors
    PROVE  /\ d.a_addr \in SUBSET Nat /\ d.b_addr \in SUBSET Nat
           /\ d.cout_addr \in SUBSET Nat /\ d.cin_addr \in SUBSET Nat
           /\ d.bias_addr \in SUBSET Nat
           /\ d.m \in Nat /\ d.n \in Nat /\ d.k \in Nat
           /\ d.transpose_a \in BOOLEAN /\ d.signal_en \in BOOLEAN
           /\ d.load_cin \in BOOLEAN /\ d.load_bias \in BOOLEAN
           /\ d.relu \in BOOLEAN
BY DescriptorsAssumption

LEMMA WordsForType ==
    ASSUME NEW d \in Descriptors
    PROVE  WordsFor(d) \in [MmeRegs -> SUBSET AllOnes]
<1>1. \A v : High(v) \in SUBSET AllOnes /\ LowWord(v) \in SUBSET AllOnes
  BY DEF High, LowWord, Low, AllOnes
<1>2. \A x \in Nat : Bits(x) \in SUBSET Nat
  BY BitsNat
<1>3. associated_dims_0(d) \in SUBSET AllOnes
  BY <1>2, DescriptorType, Dimensions DEF associated_dims_0
<1>4. associated_dims_1(d) \in SUBSET AllOnes /\ {} \in SUBSET AllOnes
  BY DEF associated_dims_1, Low, AllOnes
<1>5. gemmlowp_zp_value(d) \in SUBSET AllOnes
  BY DEF gemmlowp_zp_value, AllOnes
<1>6. header_value(d) \in SUBSET AllOnes
  BY HeaderFieldsOf
<1> QED
  BY <1>1, <1>3, <1>4, <1>5, <1>6 DEF WordsFor, MmeRegs, Optional

DescriptorInv ==
    /\ WordsOK
    /\ \/ wanted = << >>
       \/ /\ wanted \in Descriptors
          /\ \A r \in Written(wanted) : words[r] = WordsFor(wanted)[r]

LEMMA DescriptorInvInit == DescriptorInit => DescriptorInv
BY DEF DescriptorInit, DescriptorInv, WordsOK

LEMMA DescriptorInvStep ==
    DescriptorInv /\ [DescriptorNext]_descriptorVars => DescriptorInv'
<1>1. ASSUME DescriptorInv, NEW d \in Descriptors, WriteDescriptor(d)
      PROVE  DescriptorInv'
  <2>1. WordsFor(d) \in [MmeRegs -> SUBSET AllOnes]
    BY WordsForType
  <2>2. words' = [r \in MmeRegs |-> IF r \in Written(d) THEN WordsFor(d)[r]
                                   ELSE words[r]]
    BY <1>1 DEF WriteDescriptor
  <2>3. WordsOK'
    BY <1>1, <2>1, <2>2 DEF DescriptorInv, WordsOK
  <2>4. Written(d) \subseteq MmeRegs
    BY DEF Written, MmeRegs, Optional
  <2>5. \A r \in Written(d) : words'[r] = WordsFor(d)[r]
    BY <2>2, <2>4
  <2> QED
    BY <1>1, <2>3, <2>5 DEF WriteDescriptor, DescriptorInv
<1>2. ASSUME DescriptorInv, UNCHANGED descriptorVars PROVE DescriptorInv'
  BY <1>2 DEF descriptorVars, DescriptorInv, WordsOK
<1> QED
  BY <1>1, <1>2 DEF DescriptorNext

\* The MME finds in its registers the descriptor written last.
LEMMA DescriptorRead == DescriptorInv => DescriptorArrives
<1> SUFFICES ASSUME DescriptorInv, wanted # << >>
             PROVE  Decoded = Truncated(wanted)
  BY DEF DescriptorArrives
<1> DEFINE d == wanted
<1>1. d \in Descriptors /\ \A r \in Written(d) : words[r] = WordsFor(d)[r]
  BY DEF DescriptorInv
<1> HIDE DEF d
<1>2. \A f : Field(f) = FieldOf(words["HEADER"], f)
  BY DEF Field, FieldOf
<1>3. /\ words["A_HIGH"] = High(d.a_addr) /\ words["A_LOW"] = LowWord(d.a_addr)
      /\ words["B_HIGH"] = High(d.b_addr) /\ words["B_LOW"] = LowWord(d.b_addr)
      /\ words["COUT_HIGH"] = High(d.cout_addr)
      /\ words["COUT_LOW"] = LowWord(d.cout_addr)
      /\ words["ASSOCIATED_DIMS_0"] = associated_dims_0(d)
      /\ words["ASSOCIATED_DIMS_1"] = associated_dims_1(d)
      /\ words["GEMMLOWP_ZP"] = gemmlowp_zp_value(d)
      /\ words["HEADER"] = header_value(d)
  BY <1>1 DEF Written, MmeRegs, Optional, WordsFor
<1>4. d.load_cin => /\ words["CIN_HIGH"] = High(d.cin_addr)
                    /\ words["CIN_LOW"] = LowWord(d.cin_addr)
  BY <1>1 DEF Written, WritesCin, WordsFor
<1>5. d.load_bias => /\ words["BIAS_HIGH"] = High(d.bias_addr)
                     /\ words["BIAS_LOW"] = LowWord(d.bias_addr)
  BY <1>1 DEF Written, WordsFor
<1>6. \A v \in SUBSET Nat : Shl(High(v), 32) \cup LowWord(v) = Low(v, 64)
  BY AddressWhole DEF High, LowWord
<1>7. /\ Field("signal_en") = Low(Bool(d.signal_en), 1)
      /\ Field("trans_a") = Low(Bool(d.transpose_a), 1)
      /\ Field("store_out") = Low({0}, 1)
      /\ Field("load_cin") = Low(Bool(d.load_cin), 1)
      /\ Field("load_bias") = Low(Bool(d.load_bias), 1)
      /\ Field("ab_data_type") = Low(d.dtype, 2)
      /\ Field("cout_data_type") = Low(d.out_dtype, 3)
  BY <1>1, <1>2, <1>3, HeaderFieldsOf
<1>8. /\ Flag("signal_en") = d.signal_en /\ Flag("trans_a") = d.transpose_a
      /\ Flag("load_cin") = d.load_cin /\ Flag("load_bias") = d.load_bias
      /\ Flag("store_out") = TRUE
  <2>1. Low({0}, 1) = {0}
    BY DEF Low
  <2>2. /\ Flag("signal_en") <=> d.signal_en
        /\ Flag("trans_a") <=> d.transpose_a
        /\ Flag("load_cin") <=> d.load_cin
        /\ Flag("load_bias") <=> d.load_bias
        /\ Flag("store_out") <=> TRUE
    BY <1>1, <1>7, <2>1, DescriptorType, Flags DEF Flag
  <2>3. \A f : Flag(f) \in BOOLEAN
    BY DEF Flag
  <2> QED
    BY <1>1, <2>2, <2>3, DescriptorType
<1>9. /\ AddressRead("A_HIGH", "A_LOW") = Low(d.a_addr, 64)
      /\ AddressRead("B_HIGH", "B_LOW") = Low(d.b_addr, 64)
      /\ AddressRead("COUT_HIGH", "COUT_LOW") = Low(d.cout_addr, 64)
  BY <1>1, <1>3, <1>6, DescriptorType DEF AddressRead
<1>10. /\ IfFlag("load_cin", "CIN_HIGH", "CIN_LOW")
            = IF d.load_cin THEN Low(d.cin_addr, 64) ELSE {}
       /\ IfFlag("load_bias", "BIAS_HIGH", "BIAS_LOW")
            = IF d.load_bias THEN Low(d.bias_addr, 64) ELSE {}
  BY <1>1, <1>4, <1>5, <1>6, <1>8, DescriptorType DEF IfFlag, AddressRead
<1>11. /\ Low(words["ASSOCIATED_DIMS_0"], 16) = Bits(d.m % 65536)
       /\ Shr(words["ASSOCIATED_DIMS_0"], 16) = Bits(d.n % 65536)
       /\ words["ASSOCIATED_DIMS_1"] = Bits(d.k % 65536)
  <2>1. d.m \in Nat /\ d.n \in Nat /\ d.k \in Nat
    BY <1>1, DescriptorType
  <2>2. Bits(d.m) \in SUBSET Nat /\ Bits(d.n) \in SUBSET Nat
    BY <2>1, BitsNat
  <2>3. /\ Low(associated_dims_0(d), 16) = Low(Bits(d.m), 16)
        /\ Shr(associated_dims_0(d), 16) = Low(Bits(d.n), 16)
    BY <2>2, Dimensions DEF associated_dims_0
  <2> QED
    BY <1>3, <2>1, <2>3, Dimension DEF associated_dims_1
<1>12. (words["GEMMLOWP_ZP"] = {30}) = d.relu
  BY <1>1, <1>3, DescriptorType DEF gemmlowp_zp_value
<1>13. wanted = d
  BY DEF d
<1> DEFINE Fields(a, b, cout, cin, bias, m, n, k, types, flags) ==
               [a |-> a, b |-> b, cout |-> cout, cin |-> cin, bias |-> bias,
                m |-> m, n |-> n, k |-> k, types |-> types, flags |-> flags]
           cinGiven == IF d.load_cin THEN Low(d.cin_addr, 64) ELSE {}
           biasGiven == IF d.load_bias THEN Low(d.bias_addr, 64) ELSE {}
           typesRead == << Field("ab_data_type"), Field("cout_data_type") >>
           typesGiven == << Low(d.dtype, 2), Low(d.out_dtype, 3) >>
           flagsRead == << Flag("trans_a"), Flag("signal_en"), Flag("store_out"),
                           words["GEMMLOWP_ZP"] = {30} >>
           flagsGiven == << d.transpose_a, d.signal_en, TRUE, d.relu >>
<1>14. Decoded =
         Fields(AddressRead("A_HIGH", "A_LOW"), AddressRead("B_HIGH", "B_LOW"),
                AddressRead("COUT_HIGH", "COUT_LOW"),
                IfFlag("load_cin", "CIN_HIGH", "CIN_LOW"),
                IfFlag("load_bias", "BIAS_HIGH", "BIAS_LOW"),
                Low(words["ASSOCIATED_DIMS_0"], 16),
                Shr(words["ASSOCIATED_DIMS_0"], 16), words["ASSOCIATED_DIMS_1"],
                typesRead, flagsRead)
  BY DEF Decoded
<1>15. Truncated(d) =
         Fields(Low(d.a_addr, 64), Low(d.b_addr, 64), Low(d.cout_addr, 64),
                cinGiven, biasGiven, Bits(d.m % 65536), Bits(d.n % 65536),
                Bits(d.k % 65536), typesGiven, flagsGiven)
  BY DEF Truncated
<1>16. flagsRead = flagsGiven
  BY <1>8, <1>12, Zenon
<1>17. typesRead = typesGiven
  BY <1>7
<1>18. /\ IfFlag("load_cin", "CIN_HIGH", "CIN_LOW") = cinGiven
       /\ IfFlag("load_bias", "BIAS_HIGH", "BIAS_LOW") = biasGiven
  BY <1>10
<1> HIDE DEF Fields, cinGiven, biasGiven, typesRead, typesGiven, flagsRead, flagsGiven
<1>19. Decoded = Truncated(d)
  BY <1>9, <1>11, <1>14, <1>15, <1>16, <1>17, <1>18
<1> QED
  BY <1>13, <1>19

\* The MME finds the descriptor it was given, whatever was in its registers and
\* however wide addresses, dimensions and types are.
THEOREM DescriptorFound == DescriptorSpec => []DescriptorArrives
BY DescriptorInvInit, DescriptorInvStep, DescriptorRead, PTL DEF DescriptorSpec

-----------------------------------------------------------------------------
(***************************************************************************)
(* The probe.                                                              *)
(***************************************************************************)
\* The status registers are read only of a Goya, and an MME that is reported
\* idle had its ports and its sync manager idle.
ProbeInv ==
    /\ info \in [is_goya : BOOLEAN, idle : BOOLEAN, errors : BOOLEAN]
    /\ probePc \in {"status", "errors"} => info.is_goya
    /\ info.idle <=> info.is_goya /\ restThen
    /\ probePc \in {"vid_did", "status"} => ~restThen
    /\ link \in BOOLEAN

\* A word of ones is no idle MME, and an idle status has no port busy and
\* SM_IDLE set, whatever its other bits.
LEMMA IdleStatus ==
    /\ ~mme_is_idle(AllOnes)
    /\ \A w : mme_is_idle(w) <=> w \cap Ports = {} /\ SmIdle \in w
<1>1. 0 \in Low(AllOnes, 7)
  BY DEF Low, AllOnes
<1>2. \A w : Low(w, 7) = w \cap Ports
  BY DEF Low, Ports
<1> QED
  BY <1>1, <1>2 DEF mme_is_idle

\* The report calls the MME idle exactly for a live Goya whose ports and sync
\* manager were idle when the status was read, also over a link that is lost
\* and whatever the score buffers hold.
THEOREM ProbeExact == ProbeSpec => []IdleMeansPortsAndSyncRest
<1>1. ProbeInit => ProbeInv
  BY DEF ProbeInit, ProbeInv, NoInfo
<1>2. ProbeInv /\ [ProbeNext]_probeVars => ProbeInv'
  <2> SUFFICES ASSUME ProbeInv, [ProbeNext]_probeVars PROVE ProbeInv'
    OBVIOUS
  <2>1. CASE ReadId
    <3>1. PICK b \in BOOLEAN : b = IsGoya(Answer(VendorDevice))
      BY Zenon DEF IsGoya
    <3>2. info' = [info EXCEPT !.is_goya = b]
      BY <2>1, <3>1, Zenon DEF ReadId
    <3> QED
      BY <2>1, <3>2 DEF ProbeInv, ReadId
  <2>2. CASE ReadMmeStatus
    <3> DEFINE idle == mme_is_idle(Answer(mme))
    <3>1. PICK b \in BOOLEAN : b = idle
      BY Zenon DEF mme_is_idle
    <3>2. info' = [info EXCEPT !.idle = b]
      BY <2>2, <3>1, Zenon DEF ReadMmeStatus
    <3>3. idle <=> link /\ mme \cap Ports = {} /\ SmIdle \in mme
      BY IdleStatus DEF Answer, ProbeInv
    <3>4. b <=> restThen'
      <4> HIDE DEF idle
      <4> QED
        BY <2>2, <3>1, <3>3, Zenon DEF ReadMmeStatus
    <3> QED
      BY <2>2, <3>2, <3>4 DEF ProbeInv, ReadMmeStatus
  <2>3. CASE ReadErrors
    BY <2>3 DEF ProbeInv, ReadErrors
  <2>4. CASE ProbeAgain
    BY <2>4 DEF ProbeInv, ProbeAgain, NoInfo
  <2>5. CASE MmeWorks \/ LinkLost \/ UNCHANGED probeVars
    <3>1. UNCHANGED << probePc, info, restThen >> /\ (link' = link \/ link' = FALSE)
      BY <2>5, Zenon DEF MmeWorks, LinkLost, probeVars
    <3> QED
      BY <3>1 DEF ProbeInv
  <2> QED
    BY <2>1, <2>2, <2>3, <2>4, <2>5 DEF ProbeNext
<1>3. ProbeInv => IdleMeansPortsAndSyncRest
  BY DEF ProbeInv, IdleMeansPortsAndSyncRest
<1> QED
  BY <1>1, <1>2, <1>3, PTL DEF ProbeSpec

-----------------------------------------------------------------------------
(***************************************************************************)
(* Packets and the command buffer.                                         *)
(***************************************************************************)
ByteSets == SUBSET (0 .. 7)

LEMMA InByte ==
    ASSUME NEW v \in SUBSET Nat, NEW n \in Nat, NEW b
    PROVE  b \in Byte(v, n) <=> b \in 0 .. 7 /\ b + 8 * n \in v
<1>1. 8 * n \in Nat
  OBVIOUS
<1>2. b \in Byte(v, n) <=> b \in Shr(v, 8 * n) /\ b \in 0 .. 7
  BY DEF Byte, Low
<1>3. ASSUME b \in 0 .. 7 PROVE b \in Shr(v, 8 * n) <=> b + 8 * n \in v
  <2>1. b \in Nat
    BY <1>3
  <2> QED
    BY <1>1, <2>1, InShift, Zenon
<1> QED
  BY <1>2, <1>3

\* The byte a bit lies in.
LEMMA ByteOf ==
    ASSUME NEW n \in Nat, NEW b \in 0 .. 8 * n - 1
    PROVE  /\ b \div 8 \in 0 .. n - 1
           /\ b - 8 * (b \div 8) \in 0 .. 7
           /\ b >= 8 * (b \div 8)
           /\ (b - 8 * (b \div 8)) + 8 * (b \div 8) = b
OBVIOUS

\* The bits of a byte that is put in its place are those of the word there.
LEMMA BytePlaced ==
    ASSUME NEW v \in SUBSET Nat, NEW n \in Nat, NEW b
    PROVE  b \in Shl(Byte(v, n), 8 * n) <=> b \in v /\ b \in 8 * n .. 8 * n + 7
<1>1. 8 * n \in Nat /\ Byte(v, n) \in SUBSET Nat
  BY DEF Byte, Low
<1>2. ASSUME NEW c \in Nat
      PROVE  c \in Shl(Byte(v, n), 8 * n) <=> c \in v /\ c \in 8 * n .. 8 * n + 7
  <2>1. c \in Shl(Byte(v, n), 8 * n) <=> c >= 8 * n /\ c - 8 * n \in Byte(v, n)
    BY <1>1, InShift
  <2>2. c - 8 * n \in Byte(v, n) <=> c - 8 * n \in 0 .. 7 /\ (c - 8 * n) + 8 * n \in v
    BY InByte
  <2>3. (c - 8 * n) + 8 * n = c
    BY <1>1
  <2> QED
    BY <1>1, <2>1, <2>2, <2>3
<1>3. Shl(Byte(v, n), 8 * n) \subseteq Nat
  BY <1>1, InShift
<1> QED
  BY <1>2, <1>3

\* What struct.pack writes is read back, in both orders of the bytes.
LEMMA LittleBack ==
    ASSUME NEW n \in Nat, NEW v \in SUBSET (0 .. 8 * n - 1)
    PROVE  FromLittle(LittleEndian(v, n)) = v
<1> DEFINE s == LittleEndian(v, n)
<1>1. v \in SUBSET Nat
  OBVIOUS
<1>2. Len(s) = n /\ \A k \in 1 .. n : s[k] = Byte(v, k - 1)
  BY DEF LittleEndian
<1> HIDE DEF s
<1>3. ASSUME NEW k \in 1 .. n, NEW b
      PROVE  b \in Shl(s[k], 8 * (k - 1))
               <=> b \in v /\ b \in 8 * (k - 1) .. 8 * (k - 1) + 7
  <2>1. k - 1 \in Nat
    OBVIOUS
  <2> QED
    BY <1>1, <1>2, <2>1, BytePlaced
<1>4. ASSUME NEW b \in v
      PROVE  \E k \in 1 .. n : b \in Shl(s[k], 8 * (k - 1))
  <2> DEFINE q == b \div 8
  <2>1. q \in 0 .. n - 1 /\ b \in 8 * q .. 8 * q + 7
    BY ByteOf
  <2> HIDE DEF q
  <2>2. q + 1 \in 1 .. n /\ (q + 1) - 1 = q
    BY <2>1
  <2> QED
    BY <1>3, <2>1, <2>2
<1>5. \A b : b \in FromLittle(s) <=> \E k \in 1 .. n : b \in Shl(s[k], 8 * (k - 1))
  BY <1>2 DEF FromLittle
<1>6. FromLittle(s) = v
  BY <1>3, <1>4, <1>5
<1> QED
  BY <1>6 DEF s

LEMMA BigBack ==
    ASSUME NEW n \in Nat, NEW v \in SUBSET (0 .. 8 * n - 1)
    PROVE  FromBig(BigEndian(v, n)) = v
<1> DEFINE s == BigEndian(v, n)
<1>1. v \in SUBSET Nat
  OBVIOUS
<1>2. Len(s) = n /\ \A k \in 1 .. n : s[k] = Byte(v, n - k)
  BY DEF BigEndian
<1> HIDE DEF s
<1>3. ASSUME NEW k \in 1 .. n, NEW b
      PROVE  b \in Shl(s[k], 8 * (n - k))
               <=> b \in v /\ b \in 8 * (n - k) .. 8 * (n - k) + 7
  <2>1. n - k \in Nat
    OBVIOUS
  <2> QED
    BY <1>1, <1>2, <2>1, BytePlaced
<1>4. ASSUME NEW b \in v
      PROVE  \E k \in 1 .. n : b \in Shl(s[k], 8 * (n - k))
  <2> DEFINE q == b \div 8
  <2>1. q \in 0 .. n - 1 /\ b \in 8 * q .. 8 * q + 7
    BY ByteOf
  <2> HIDE DEF q
  <2>2. n - q \in 1 .. n /\ n - (n - q) = q
    BY <2>1
  <2> QED
    BY <1>3, <2>1, <2>2
<1>5. \A b : b \in FromBig(s) <=> \E k \in 1 .. n : b \in Shl(s[k], 8 * (n - k))
  BY <1>2 DEF FromBig
<1>6. FromBig(s) = v
  BY <1>3, <1>4, <1>5
<1> QED
  BY <1>6 DEF s

LEMMA EndianType ==
    ASSUME NEW v, NEW n \in Nat
    PROVE  /\ LittleEndian(v, n) \in Seq(ByteSets) /\ Len(LittleEndian(v, n)) = n
           /\ BigEndian(v, n) \in Seq(ByteSets) /\ Len(BigEndian(v, n)) = n
           /\ Zeros(n) \in Seq(ByteSets) /\ Len(Zeros(n)) = n
<1>1. \A k : Byte(v, k) \in ByteSets
  BY DEF Byte, Low, ByteSets
<1>2. {} \in ByteSets
  BY DEF ByteSets
<1>3. LittleEndian(v, n) \in [1 .. n -> ByteSets]
  BY <1>1 DEF LittleEndian
<1>4. BigEndian(v, n) \in [1 .. n -> ByteSets]
  BY <1>1 DEF BigEndian
<1>5. Zeros(n) \in [1 .. n -> ByteSets]
  BY <1>2 DEF Zeros
<1>6. \A s \in [1 .. n -> ByteSets] : s \in Seq(ByteSets) /\ Len(s) = n
  OBVIOUS
<1> QED
  BY <1>3, <1>4, <1>5, <1>6

\* The operands of a call.
LEMMA PacketArguments ==
    ASSUME NEW p \in Packets
    PROVE  /\ p.op \in DOMAIN Opcodes
           /\ p.op = "WREG_32" => p.off \in Nat /\ p.val \in SUBSET Nat
           /\ p.op = "FENCE" => p.dec \in Nat /\ p.gate \in Nat /\ p.id \in Nat
           /\ p.op = "LIN_DMA" =>
                 /\ p.src \in SUBSET Nat /\ p.dst \in SUBSET Nat
                 /\ p.size \in SUBSET Nat /\ p.dir \in Nat
BY BufferAssumption DEF Packets, Opcodes

\* s stands in t from place n + 1 on.
StandsIn(s, t, n) == \A k \in 1 .. Len(s) : t[n + k] = s[k]

LEMMA Concatenated ==
    ASSUME NEW s \in Seq(ByteSets), NEW t \in Seq(ByteSets)
    PROVE  /\ s \o t \in Seq(ByteSets) /\ Len(s \o t) = Len(s) + Len(t)
           /\ StandsIn(s, s \o t, 0) /\ StandsIn(t, s \o t, Len(s))
BY DEF StandsIn

LEMMA StandsInFirst ==
    ASSUME NEW s \in Seq(ByteSets), NEW t \in Seq(ByteSets), NEW r \in Seq(ByteSets),
           NEW n \in Nat, StandsIn(r, s, n), n + Len(r) <= Len(s)
    PROVE  StandsIn(r, s \o t, n)
BY DEF StandsIn

LEMMA ThreeParts ==
    ASSUME NEW h \in Seq(ByteSets), NEW b \in Seq(ByteSets), NEW z \in Seq(ByteSets),
           Len(h) = 8, Len(b) = 4, Len(z) = 4
    PROVE  /\ (h \o b) \o z \in Seq(ByteSets) /\ Len((h \o b) \o z) = 16
           /\ StandsIn(h, (h \o b) \o z, 0) /\ StandsIn(b, (h \o b) \o z, 8)
<1> DEFINE hb == h \o b
<1>1. hb \in Seq(ByteSets) /\ Len(hb) = Len(h) + Len(b)
  BY Concatenated, Zenon
<1>2. StandsIn(h, hb, 0) /\ StandsIn(b, hb, Len(h))
  BY Concatenated, Zenon
<1> HIDE DEF hb
<1>3. hb \o z \in Seq(ByteSets) /\ Len(hb \o z) = Len(hb) + Len(z)
  BY <1>1, Concatenated, Zenon
<1>4. 0 \in Nat /\ 8 \in Nat /\ 0 + Len(h) <= Len(hb) /\ 8 + Len(b) <= Len(hb)
      /\ StandsIn(b, hb, 8) /\ Len(hb) + Len(z) = 16
  BY <1>1, <1>2
<1>5. StandsIn(h, hb \o z, 0) /\ StandsIn(b, hb \o z, 8)
  BY <1>1, <1>2, <1>4, StandsInFirst, Zenon
<1> QED
  BY <1>3, <1>4, <1>5, Zenon DEF hb

\* The opcode is found in the upper byte of the header, the low word below it.
HeaderBits(o, low) == Shl(Opcodes[o], 56) \cup low

LEMMA HeaderWord ==
    ASSUME NEW x \in DOMAIN Opcodes, NEW low \in SUBSET (0 .. 31)
    PROVE  /\ HeaderBits(x, low) \in SUBSET (0 .. 63)
           /\ Shr(HeaderBits(x, low), 56) = Opcodes[x]
           /\ Low(HeaderBits(x, low), 32) = low
           /\ Low(HeaderBits(x, low), 16) = Low(low, 16)
<1> DEFINE w == Shl(Opcodes[x], 56) \cup low
<1>1. Opcodes[x] \in SUBSET (0 .. 7) /\ Opcodes[x] \in SUBSET Nat
  BY DEF Opcodes
<1>2. 56 \in Nat /\ 0 \in Nat /\ Shl(Opcodes[x], 56) \subseteq Nat
  BY <1>1, InShift
<1>3. ASSUME NEW b \in Nat
      PROVE  b \in w <=> (b >= 56 /\ b - 56 \in Opcodes[x]) \/ b \in low
  <2>1. b \in Shl(Opcodes[x], 56) <=> b >= 56 /\ b - 56 \in Opcodes[x]
    BY <1>1, <1>2, InShift, Zenon
  <2> QED
    BY <2>1
<1>n. low \in SUBSET Nat
  OBVIOUS
<1>4. w \in SUBSET Nat
  BY <1>2, <1>n
<1> HIDE DEF w
<1>5. ASSUME NEW b \in Nat PROVE b \in w => b \in 0 .. 63
  BY <1>1, <1>3
<1>6. ASSUME NEW b \in Nat PROVE b \in Shr(w, 56) <=> b \in Opcodes[x]
  <2>1. b \in Shr(w, 56) <=> b + 56 \in w
    BY <1>2, <1>4, InShift, Zenon
  <2>2. b + 56 \in Nat /\ b + 56 >= 56 /\ (b + 56) - 56 = b /\ b + 56 \notin low
    OBVIOUS
  <2> QED
    BY <1>3, <2>1, <2>2
<1>7. Shr(w, 56) \subseteq Nat
  BY <1>2, <1>4, InShift
<1>8. Shr(w, 56) = Opcodes[x]
  BY <1>1, <1>6, <1>7
<1>9. ASSUME NEW b \in 0 .. 31 PROVE b \in w <=> b \in low
  BY <1>3
<1>10. w \cap 0 .. 31 = low
  BY <1>9
<1>11. w \cap 0 .. 15 = low \cap 0 .. 15
  BY <1>9
<1>12. Low(w, 32) = low /\ Low(w, 16) = Low(low, 16)
  BY <1>10, <1>11 DEF Low
<1> QED
  BY <1>4, <1>5, <1>8, <1>12 DEF w, HeaderBits

LEMMA LowWords ==
    ASSUME NEW p \in Packets
    PROVE  /\ RegOffset(p) \in SUBSET (0 .. 15)
           /\ DmaControl(p) \in SUBSET (0 .. 31)
           /\ FencePayload(p) \in SUBSET (0 .. 31)
<1>1. RegOffset(p) \in SUBSET (0 .. 15)
  BY DEF RegOffset, Low
<1>2. DmaControl(p) \in SUBSET (0 .. 31)
  BY DEF DmaControl, Low, Shl
<1>3. FencePayload(p) \in SUBSET (0 .. 31)
  BY DEF FencePayload, Low, Shl
<1> QED
  BY <1>1, <1>2, <1>3

\* What stands where in a packet.
LEMMA PacketParts ==
    ASSUME NEW p \in Packets
    PROVE  /\ Packet(p) \in Seq(ByteSets) /\ Len(Packet(p)) = PacketBytes[p.op]
           /\ PacketBytes[p.op] \in {8, 16, 32}
           /\ \E low \in SUBSET (0 .. 31) :
                 /\ StandsIn(PacketHeader(p, low), Packet(p), 0)
                 /\ p.op = "WREG_32" => low = RegOffset(p)
                 /\ p.op = "LIN_DMA" => low = DmaControl(p)
           /\ p.op = "WREG_32" => StandsIn(LittleEndian(p.val, 4), Packet(p), 8)
           /\ p.op = "FENCE" =>
                 StandsIn(LittleEndian(FencePayload(p), 4), Packet(p), 8)
           /\ p.op = "LIN_DMA" =>
                 /\ StandsIn(LittleEndian(p.src, 8), Packet(p), 8)
                 /\ StandsIn(LittleEndian(p.dst, 8), Packet(p), 16)
                 /\ StandsIn(LittleEndian(p.size, 4), Packet(p), 24)
<1>1. \A low : /\ PacketHeader(p, low) \in Seq(ByteSets)
              /\ Len(PacketHeader(p, low)) = 8
  BY EndianType, 8 \in Nat DEF PacketHeader
<1>2. \A v : /\ LittleEndian(v, 4) \in Seq(ByteSets) /\ Len(LittleEndian(v, 4)) = 4
            /\ LittleEndian(v, 8) \in Seq(ByteSets) /\ Len(LittleEndian(v, 8)) = 8
  BY EndianType, 4 \in Nat, 8 \in Nat
<1>3. /\ Zeros(4) \in Seq(ByteSets) /\ Len(Zeros(4)) = 4
      /\ Pad \in Seq(ByteSets) /\ Len(Pad) = 4
  BY EndianType, 4 \in Nat DEF Pad
<1>4. CASE p.op = "WREG_32"
  <2> DEFINE h == PacketHeader(p, RegOffset(p))
             b == LittleEndian(p.val, 4)
  <2>1. Packet(p) = (h \o b) \o Pad /\ RegOffset(p) \in SUBSET (0 .. 31)
    BY <1>4, LowWords DEF Packet
  <2>2. h \in Seq(ByteSets) /\ Len(h) = 8 /\ b \in Seq(ByteSets) /\ Len(b) = 4
    BY <1>1, <1>2
  <2> HIDE DEF h, b
  <2>3. /\ Packet(p) \in Seq(ByteSets) /\ Len(Packet(p)) = 16
        /\ StandsIn(h, Packet(p), 0) /\ StandsIn(b, Packet(p), 8)
    <3> DEFINE q == (h \o b) \o Pad
    <3>1. /\ q \in Seq(ByteSets) /\ Len(q) = 16
          /\ StandsIn(h, q, 0) /\ StandsIn(b, q, 8)
      BY <1>3, <2>2, ThreeParts, Zenon
    <3>2. Packet(p) = q
      BY <2>1
    <3> HIDE DEF q
    <3> QED
      BY <3>1, <3>2
  <2>4. /\ PacketBytes[p.op] = 16 /\ p.op # "LIN_DMA" /\ p.op # "FENCE"
        /\ 16 \in {8, 16, 32}
    BY <1>4 DEF PacketBytes
  <2>5. \E low \in SUBSET (0 .. 31) :
            /\ StandsIn(PacketHeader(p, low), Packet(p), 0)
            /\ p.op = "WREG_32" => low = RegOffset(p)
            /\ p.op = "LIN_DMA" => low = DmaControl(p)
    BY <2>1, <2>3, <2>4, Zenon DEF h
  <2> QED
    BY <2>3, <2>4, <2>5, Zenon DEF b
<1>5. CASE p.op = "FENCE"
  <2> DEFINE h == PacketHeader(p, {})
             b == LittleEndian(FencePayload(p), 4)
  <2>1. Packet(p) = (h \o b) \o Pad /\ {} \in SUBSET (0 .. 31)
    BY <1>5 DEF Packet
  <2>2. h \in Seq(ByteSets) /\ Len(h) = 8 /\ b \in Seq(ByteSets) /\ Len(b) = 4
    BY <1>1, <1>2
  <2> HIDE DEF h, b
  <2>3. /\ Packet(p) \in Seq(ByteSets) /\ Len(Packet(p)) = 16
        /\ StandsIn(h, Packet(p), 0) /\ StandsIn(b, Packet(p), 8)
    <3> DEFINE q == (h \o b) \o Pad
    <3>1. /\ q \in Seq(ByteSets) /\ Len(q) = 16
          /\ StandsIn(h, q, 0) /\ StandsIn(b, q, 8)
      BY <1>3, <2>2, ThreeParts, Zenon
    <3>2. Packet(p) = q
      BY <2>1
    <3> HIDE DEF q
    <3> QED
      BY <3>1, <3>2
  <2>4. /\ PacketBytes[p.op] = 16 /\ p.op # "LIN_DMA" /\ p.op # "WREG_32"
        /\ 16 \in {8, 16, 32}
    BY <1>5 DEF PacketBytes
  <2>5. \E low \in SUBSET (0 .. 31) :
            /\ StandsIn(PacketHeader(p, low), Packet(p), 0)
            /\ p.op = "WREG_32" => low = RegOffset(p)
            /\ p.op = "LIN_DMA" => low = DmaControl(p)
    BY <2>1, <2>3, <2>4, Zenon DEF h
  <2> QED
    BY <2>3, <2>4, <2>5, Zenon DEF b
<1>6. CASE p.op = "LIN_DMA"
  <2> DEFINE h == PacketHeader(p, DmaControl(p))
             b == LittleEndian(p.src, 8)
             c == LittleEndian(p.dst, 8)
             d == LittleEndian(p.size, 4)
             z == Zeros(4)
  <2>1. /\ Packet(p) = (((h \o b) \o c) \o d) \o z
        /\ DmaControl(p) \in SUBSET (0 .. 31)
    BY <1>6, LowWords DEF Packet
  <2>2. /\ h \in Seq(ByteSets) /\ Len(h) = 8 /\ b \in Seq(ByteSets) /\ Len(b) = 8
        /\ c \in Seq(ByteSets) /\ Len(c) = 8 /\ d \in Seq(ByteSets) /\ Len(d) = 4
        /\ z \in Seq(ByteSets) /\ Len(z) = 4
    BY <1>1, <1>2, <1>3
  <2> DEFINE hb == h \o b
             hbc == hb \o c
             hbcd == hbc \o d
  <2> HIDE DEF h, b, c, d, z
  <2>n. 0 \in Nat /\ 8 \in Nat /\ 16 \in Nat /\ 24 \in Nat
    OBVIOUS
  <2>3. hb \in Seq(ByteSets) /\ Len(hb) = 16 /\ StandsIn(h, hb, 0) /\ StandsIn(b, hb, 8)
    <3>1. /\ hb \in Seq(ByteSets) /\ Len(hb) = Len(h) + Len(b)
          /\ StandsIn(h, hb, 0) /\ StandsIn(b, hb, Len(h))
      BY <2>2, Concatenated, Zenon
    <3> QED
      BY <2>2, <3>1
  <2> HIDE DEF hb
  <2>4. /\ hbc \in Seq(ByteSets) /\ Len(hbc) = 24 /\ StandsIn(h, hbc, 0)
        /\ StandsIn(b, hbc, 8) /\ StandsIn(c, hbc, 16)
    <3>1. /\ hbc \in Seq(ByteSets) /\ Len(hbc) = Len(hb) + Len(c)
          /\ StandsIn(c, hbc, Len(hb))
      BY <2>2, <2>3, Concatenated, Zenon
    <3>2. 0 + Len(h) <= Len(hb) /\ 8 + Len(b) <= Len(hb)
      BY <2>2, <2>3
    <3>3. StandsIn(h, hbc, 0)
      BY <2>n, <2>2, <2>3, <3>2, StandsInFirst, Zenon
    <3>4. StandsIn(b, hbc, 8)
      BY <2>n, <2>2, <2>3, <3>2, StandsInFirst, Zenon
    <3> HIDE DEF hbc
    <3> QED
      BY <2>2, <2>3, <3>1, <3>3, <3>4
  <2> HIDE DEF hbc
  <2>5. /\ hbcd \in Seq(ByteSets) /\ Len(hbcd) = 28 /\ StandsIn(h, hbcd, 0)
        /\ StandsIn(b, hbcd, 8) /\ StandsIn(c, hbcd, 16) /\ StandsIn(d, hbcd, 24)
    <3>1. /\ hbcd \in Seq(ByteSets) /\ Len(hbcd) = Len(hbc) + Len(d)
          /\ StandsIn(d, hbcd, Len(hbc))
      BY <2>2, <2>4, Concatenated, Zenon
    <3>2. /\ 0 + Len(h) <= Len(hbc) /\ 8 + Len(b) <= Len(hbc)
          /\ 16 + Len(c) <= Len(hbc)
      BY <2>2, <2>4
    <3>3. StandsIn(h, hbcd, 0)
      BY <2>n, <2>2, <2>4, <3>2, StandsInFirst, Zenon
    <3>4. StandsIn(b, hbcd, 8)
      BY <2>n, <2>2, <2>4, <3>2, StandsInFirst, Zenon
    <3>5. StandsIn(c, hbcd, 16)
      BY <2>n, <2>2, <2>4, <3>2, StandsInFirst, Zenon
    <3> HIDE DEF hbcd
    <3> QED
      BY <2>2, <2>4, <3>1, <3>3, <3>4, <3>5
  <2>6. Packet(p) = hbcd \o z
    BY <2>1 DEF hbcd, hbc, hb
  <2> HIDE DEF hbcd
  <2>7. Packet(p) \in Seq(ByteSets) /\ Len(Packet(p)) = 32
    <3>1. hbcd \o z \in Seq(ByteSets) /\ Len(hbcd \o z) = Len(hbcd) + Len(z)
      BY <2>2, <2>5, Concatenated, Zenon
    <3> QED
      BY <2>2, <2>5, <2>6, <3>1
  <2>8. /\ StandsIn(h, Packet(p), 0) /\ StandsIn(b, Packet(p), 8)
        /\ StandsIn(c, Packet(p), 16) /\ StandsIn(d, Packet(p), 24)
    <3>1. /\ 0 + Len(h) <= Len(hbcd) /\ 8 + Len(b) <= Len(hbcd)
          /\ 16 + Len(c) <= Len(hbcd) /\ 24 + Len(d) <= Len(hbcd)
      BY <2>2, <2>5
    <3>2. StandsIn(h, hbcd \o z, 0)
      BY <2>n, <2>2, <2>5, <3>1, StandsInFirst, Zenon
    <3>3. StandsIn(b, hbcd \o z, 8)
      BY <2>n, <2>2, <2>5, <3>1, StandsInFirst, Zenon
    <3>4. StandsIn(c, hbcd \o z, 16)
      BY <2>n, <2>2, <2>5, <3>1, StandsInFirst, Zenon
    <3>5. StandsIn(d, hbcd \o z, 24)
      BY <2>n, <2>2, <2>5, <3>1, StandsInFirst, Zenon
    <3> QED
      BY <2>6, <3>2, <3>3, <3>4, <3>5, Zenon
  <2>9. /\ PacketBytes[p.op] = 32 /\ p.op # "WREG_32" /\ p.op # "FENCE"
        /\ 32 \in {8, 16, 32}
    BY <1>6 DEF PacketBytes
  <2>10. \E low \in SUBSET (0 .. 31) :
            /\ StandsIn(PacketHeader(p, low), Packet(p), 0)
            /\ p.op = "WREG_32" => low = RegOffset(p)
            /\ p.op = "LIN_DMA" => low = DmaControl(p)
    BY <2>1, <2>8, <2>9, Zenon DEF h
  <2> QED
    BY <2>7, <2>8, <2>9, <2>10, Zenon DEF b, c, d
<1>7. CASE p.op \in {"NOP", "STOP"}
  <2>1. Packet(p) = PacketHeader(p, {}) /\ {} \in SUBSET (0 .. 31)
    BY <1>7 DEF Packet
  <2>2. StandsIn(Packet(p), Packet(p), 0)
    BY <1>1, <2>1 DEF StandsIn
  <2> QED
    <3>1. PacketBytes[p.op] = 8 /\ p.op \notin {"WREG_32", "FENCE", "LIN_DMA"}
      BY <1>7 DEF PacketBytes
    <3>2. StandsIn(PacketHeader(p, {}), Packet(p), 0)
      BY <2>1, <2>2, Zenon
    <3>3. Packet(p) \in Seq(ByteSets) /\ Len(Packet(p)) = 8
      BY <1>1, <2>1, Zenon
    <3> QED
      BY <2>1, <3>1, <3>2, <3>3
<1> QED
  BY <1>4, <1>5, <1>6, <1>7, PacketArguments DEF Opcodes

\* What the builders cut out of an operand is the operand modulo the width of
\* its field.
LEMMA RegOffsetValue ==
    ASSUME NEW p, p.off \in Nat
    PROVE  RegOffset(p) = Bits((p.off \div 4) % 65536)
<1> DEFINE x == p.off
           y == x \div 4
<1>1. y \in Nat /\ Power[2] = 4 /\ Power[16] = 65536
  BY PowerTable
<1>2. Low(Bits(y), 16) = Bits(y % 65536)
  BY <1>1, BitsCut, 16 \in 0 .. 16
<1>3. ASSUME NEW b \in 0 .. 15 PROVE b \in Shr(Bits(x), 2) <=> b \in Bits(y)
  <2>1. b + 2 \in Bits(x) <=> b \in Bits(y)
    <3>1. 2 \in 0 .. 30 /\ b \in 0 .. 30 /\ 2 + b <= 30
      OBVIOUS
    <3>2. b + 2 \in Bits(x) <=> b \in Bits(x \div Power[2])
      BY <3>1, BitsShift, Zenon
    <3> QED
      BY <1>1, <3>2
  <2>2. Bits(x) \in SUBSET Nat /\ 2 \in Nat /\ b \in Nat
    BY BitsNat
  <2>3. b \in Shr(Bits(x), 2) <=> b + 2 \in Bits(x)
    BY <2>2, InShift, Zenon
  <2> QED
    BY <2>1, <2>3
<1>4. Low(Shr(Bits(x), 2), 16) = Low(Bits(y), 16)
  BY <1>3 DEF Low
<1> QED
  BY <1>2, <1>4 DEF RegOffset

LEMMA DmaControlValue ==
    ASSUME NEW p, p.dir \in Nat
    PROVE  DmaControl(p) = Bits(1 + 2 * (p.dir % 8))
<1> DEFINE d == p.dir % 8
           y == 1 + 2 * d
<1>1. d \in 0 .. 7 /\ y \in Nat /\ y \div 2 = d /\ y % 2 = 1 /\ y \div 1 = y
  OBVIOUS
<1>2. Power[0] = 1 /\ Power[1] = 2 /\ Power[3] = 8
  BY PowerTable
<1>3. Low(Bits(p.dir), 3) = Bits(d)
  BY <1>2, BitsCut, 3 \in 0 .. 16
<1> HIDE DEF d
<1>4. Bits(d) \subseteq 0 .. 2
  BY <1>3 DEF Low
<1>5. Bits(y) \subseteq 0 .. 30 /\ 0 \in Bits(y)
  BY <1>1, <1>2, BitsDef, 0 \in 0 .. 30
<1>6. ASSUME NEW b \in 0 .. 29 PROVE b + 1 \in Bits(y) <=> b \in Bits(d)
  <2>1. 1 \in 0 .. 30 /\ b \in 0 .. 30 /\ 1 + b <= 30
    OBVIOUS
  <2>2. b + 1 \in Bits(y) <=> b \in Bits(y \div Power[1])
    BY <1>1, <2>1, BitsShift, Zenon
  <2> QED
    BY <1>1, <1>2, <2>2
<1> HIDE DEF y
<1>7. ASSUME NEW b \in 0 .. 30 PROVE b \in Bits(y) <=> b \in {0} \cup Shl(Bits(d), 1)
  <2>1. CASE b = 0
    BY <1>5, <2>1
  <2>2. CASE b # 0
    <3>1. b - 1 \in 0 .. 29 /\ (b - 1) + 1 = b /\ b \in Nat /\ 1 \in Nat /\ b >= 1
      BY <2>2
    <3>2. b \in Shl(Bits(d), 1) <=> b >= 1 /\ b - 1 \in Bits(d)
      <4>1. Bits(d) \in SUBSET Nat
        BY <1>4
      <4> QED
        BY <3>1, <4>1, InShift, Zenon
    <3> QED
      BY <1>6, <2>2, <3>1, <3>2
  <2> QED
    BY <2>1, <2>2
<1>8. {0} \cup Shl(Bits(d), 1) \subseteq 0 .. 30
  BY <1>4 DEF Shl
<1>9. Bits(y) = {0} \cup Shl(Bits(d), 1)
  BY <1>5, <1>7, <1>8
<1> QED
  BY <1>3, <1>9 DEF DmaControl, y, d

\* The three operands of a fence stand side by side in its payload.
LEMMA FenceFields ==
    ASSUME NEW p, p.dec \in Nat, p.gate \in Nat, p.id \in Nat
    PROVE  LET v == FencePayload(p)
           IN  /\ Low(v, 8) = Bits(p.dec % 256)
               /\ Low(Shr(v, 8), 8) = Bits(p.gate % 256)
               /\ Shr(v, 16) = Bits(p.id % 4)
<1> DEFINE d == Low(Bits(p.dec), 8)
           g == Low(Bits(p.gate), 8)
           e == Low(Bits(p.id), 2)
           v == FencePayload(p)
<1>1. Power[8] = 256 /\ Power[2] = 4 /\ 8 \in 0 .. 16 /\ 2 \in 0 .. 16
  BY PowerTable
<1>2. d = Bits(p.dec % 256) /\ g = Bits(p.gate % 256) /\ e = Bits(p.id % 4)
  BY <1>1, BitsCut
<1>3. d \subseteq 0 .. 7 /\ g \subseteq 0 .. 7 /\ e \subseteq 0 .. 1
  BY DEF Low
<1>4. v = d \cup Shl(g, 8) \cup Shl(e, 16)
  BY DEF FencePayload
<1> HIDE DEF d, g, e, v
<1>5. 8 \in Nat /\ 16 \in Nat /\ d \in SUBSET Nat /\ g \in SUBSET Nat /\ e \in SUBSET Nat
  BY <1>3
<1>6. ASSUME NEW b \in Nat
      PROVE  b \in v <=> b \in d \/ (b >= 8 /\ b - 8 \in g) \/ (b >= 16 /\ b - 16 \in e)
  <2>1. b \in Shl(g, 8) <=> b >= 8 /\ b - 8 \in g
    BY <1>5, InShift, Zenon
  <2>2. b \in Shl(e, 16) <=> b >= 16 /\ b - 16 \in e
    BY <1>5, InShift, Zenon
  <2> QED
    BY <1>4, <2>1, <2>2
<1>7. v \in SUBSET Nat
  <2>1. Shl(g, 8) \subseteq Nat /\ Shl(e, 16) \subseteq Nat
    BY <1>5, InShift
  <2> QED
    BY <1>4, <1>5, <2>1
<1>8. Low(v, 8) = d
  <2>1. \A b \in 0 .. 7 : b \in v <=> b \in d
    BY <1>3, <1>6
  <2>2. v \cap 0 .. 7 = d
    BY <1>3, <2>1
  <2> QED
    BY <2>2 DEF Low
<1>9. Low(Shr(v, 8), 8) = g
  <2>1. ASSUME NEW b \in 0 .. 7 PROVE b \in Shr(v, 8) <=> b \in g
    <3>1. b \in Nat /\ b + 8 \in Nat /\ (b + 8) - 8 = b /\ b + 8 >= 8 /\ ~(b + 8 >= 16)
          /\ b + 8 \notin 0 .. 7
      OBVIOUS
    <3>2. b \in Shr(v, 8) <=> b + 8 \in v
      BY <1>5, <1>7, <3>1, InShift, Zenon
    <3> QED
      BY <1>3, <1>6, <3>1, <3>2
  <2>2. Shr(v, 8) \cap 0 .. 7 = g
    BY <1>3, <2>1
  <2> QED
    BY <2>2 DEF Low
<1>10. Shr(v, 16) = e
  <2>1. ASSUME NEW b \in Nat PROVE b \in Shr(v, 16) <=> b \in e
    <3>1. /\ b + 16 \in Nat /\ (b + 16) - 16 = b /\ b + 16 >= 16
          /\ b + 16 \notin 0 .. 7 /\ (b + 16) - 8 \notin 0 .. 7
      OBVIOUS
    <3>2. b \in Shr(v, 16) <=> b + 16 \in v
      BY <1>5, <1>7, InShift, Zenon
    <3> QED
      BY <1>3, <1>6, <3>1, <3>2
  <2>2. Shr(v, 16) \subseteq Nat
    BY <1>5, <1>7, InShift, 0 \in Nat
  <2> QED
    BY <1>5, <2>1, <2>2
<1> QED
  BY <1>2, <1>8, <1>9, <1>10 DEF v

LEMMA Sliced ==
    ASSUME NEW r \in Seq(ByteSets), NEW t \in Seq(ByteSets), NEW n \in Nat,
           StandsIn(r, t, n), n + Len(r) <= Len(t)
    PROVE  SubSeq(t, n + 1, n + Len(r)) = r
<1> DEFINE u == SubSeq(t, n + 1, n + Len(r))
<1>1. u \in Seq(ByteSets) /\ Len(u) = Len(r)
  OBVIOUS
<1>2. \A k \in 1 .. Len(r) : u[k] = r[k]
  BY DEF StandsIn
<1> HIDE DEF u
<1>3. u = r
  BY <1>1, <1>2
<1> QED
  BY <1>3 DEF u

\* A part of a packet that stands at the processor's position is what the
\* processor reads there.
LEMMA PartRead ==
    ASSUME NEW s \in Seq(ByteSets), NEW r \in Seq(ByteSets), NEW n \in Nat, NEW k \in Nat,
           Len(r) = k, buf \in Seq(ByteSets), at \in Nat \ {0},
           StandsIn(s, buf, at - 1), at - 1 + Len(s) <= Len(buf),
           StandsIn(r, s, n), n + k <= Len(s)
    PROVE  Part(n, k) = r
<1> DEFINE m == at - 1 + n
<1>1. m \in Nat /\ m + Len(r) <= Len(buf) /\ m + 1 = at + n /\ m + Len(r) = at + n + k - 1
  OBVIOUS
<1>2. StandsIn(r, buf, m)
  <2> SUFFICES ASSUME NEW j \in 1 .. Len(r) PROVE buf[m + j] = r[j]
    BY DEF StandsIn
  <2>1. n + j \in 1 .. Len(s) /\ at - 1 + (n + j) = m + j
    OBVIOUS
  <2>2. s[n + j] = r[j]
    BY DEF StandsIn
  <2>3. buf[at - 1 + (n + j)] = s[n + j]
    BY <2>1, Zenon DEF StandsIn
  <2> QED
    BY <2>1, <2>2, <2>3
<1> HIDE DEF m
<1>3. SubSeq(buf, m + 1, m + Len(r)) = r
  BY <1>1, <1>2, Sliced, Zenon
<1> QED
  BY <1>1, <1>3 DEF Part

\* The processor at the first byte of a packet recognizes its opcode and reads
\* the operands the call asked for.
LEMMA PacketRead ==
    ASSUME NEW p \in Packets, Packable(p), buf \in Seq(ByteSets), at \in Nat \ {0},
           StandsIn(Packet(p), buf, at - 1), at - 1 + PacketBytes[p.op] <= Len(buf)
    PROVE  Shr(HeaderAt, 56) = Opcodes[p.op] /\ Parsed(p.op) = Requested(p)
<1> DEFINE q == Packet(p)
<1>1. /\ q \in Seq(ByteSets) /\ Len(q) = PacketBytes[p.op]
      /\ PacketBytes[p.op] \in {8, 16, 32} /\ p.op \in DOMAIN Opcodes
      /\ StandsIn(q, buf, at - 1) /\ at - 1 + Len(q) <= Len(buf)
  <2>1. Packet(p) \in Seq(ByteSets) /\ Len(Packet(p)) = PacketBytes[p.op]
        /\ PacketBytes[p.op] \in {8, 16, 32}
    BY PacketParts, Zenon
  <2> QED
    BY <2>1, PacketArguments
<1>2. PICK low \in SUBSET (0 .. 31) :
         /\ StandsIn(PacketHeader(p, low), q, 0)
         /\ p.op = "WREG_32" => low = RegOffset(p)
         /\ p.op = "LIN_DMA" => low = DmaControl(p)
  BY PacketParts, Zenon
<1> DEFINE w == HeaderBits(p.op, low)
<1>3. /\ w \in SUBSET (0 .. 63) /\ Shr(w, 56) = Opcodes[p.op]
      /\ Low(w, 32) = low /\ Low(w, 16) = Low(low, 16)
  <2>1. p.op \in DOMAIN Opcodes
    BY <1>1
  <2> QED
    BY ONLY <2>1, low \in SUBSET (0 .. 31), HeaderWord, ZenonT(60)
<1>4. PacketHeader(p, low) = BigEndian(w, 8)
  BY DEF PacketHeader, HeaderBits
<1>5. /\ p.op = "WREG_32" => StandsIn(LittleEndian(p.val, 4), q, 8)
      /\ p.op = "FENCE" => StandsIn(LittleEndian(FencePayload(p), 4), q, 8)
      /\ p.op = "LIN_DMA" =>
            /\ StandsIn(LittleEndian(p.src, 8), q, 8)
            /\ StandsIn(LittleEndian(p.dst, 8), q, 16)
            /\ StandsIn(LittleEndian(p.size, 4), q, 24)
  BY PacketParts, Zenon
<1> HIDE DEF q, w
<1>6. HeaderAt = w
  <2>1. /\ BigEndian(w, 8) \in Seq(ByteSets) /\ Len(BigEndian(w, 8)) = 8
        /\ 0 \in Nat /\ 8 \in Nat /\ 0 + 8 <= Len(q)
    <3>1. BigEndian(w, 8) \in Seq(ByteSets) /\ Len(BigEndian(w, 8)) = 8
      BY EndianType, 8 \in Nat, Zenon
    <3> QED
      BY <1>1, <3>1
  <2>2. StandsIn(BigEndian(w, 8), q, 0)
    BY <1>2, <1>4
  <2>3. Part(0, 8) = BigEndian(w, 8)
    BY <1>1, <2>1, <2>2, PartRead, Zenon
  <2>4. w \in SUBSET (0 .. 8 * 8 - 1)
    BY <1>3
  <2>5. FromBig(BigEndian(w, 8)) = w
    BY <2>1, <2>4, BigBack, Zenon
  <2> QED
    BY <2>3, <2>5 DEF HeaderAt
<1>7. ASSUME NEW n \in Nat, NEW k \in {4, 8}, NEW v \in SUBSET (0 .. 8 * k - 1),
             StandsIn(LittleEndian(v, k), q, n), n + k <= Len(q)
      PROVE  Operand(n, k) = v
  <2>1. k \in Nat /\ LittleEndian(v, k) \in Seq(ByteSets) /\ Len(LittleEndian(v, k)) = k
    BY EndianType
  <2>2. Part(n, k) = LittleEndian(v, k)
    BY <1>1, <1>7, <2>1, PartRead, Zenon
  <2>3. FromLittle(LittleEndian(v, k)) = v
    BY <2>1, LittleBack
  <2> QED
    BY <2>2, <2>3 DEF Operand
<1>8. Parsed(p.op) = Requested(p)
  <2>1. CASE p.op = "WREG_32"
    <3>1. p.val \in SUBSET (0 .. 8 * 4 - 1) /\ p.off \in Nat
      BY <2>1, PacketArguments DEF Packable, CanPack
    <3>2. 8 \in Nat /\ 4 \in {4, 8} /\ 8 + 4 <= Len(q)
      BY <1>1, <2>1 DEF PacketBytes
    <3>3. Operand(8, 4) = p.val
      BY <1>5, <1>7, <2>1, <3>1, <3>2
    <3>4. Low(HeaderAt, 16) = Low(RegOffset(p), 16)
      BY <1>2, <1>3, <1>6, <2>1
    <3>5. Low(RegOffset(p), 16) = RegOffset(p)
      BY DEF RegOffset, Low
    <3>6. RegOffset(p) = Bits((p.off \div 4) % 65536)
      BY <3>1, RegOffsetValue
    <3> QED
      BY <2>1, <3>3, <3>4, <3>5, <3>6 DEF Parsed, Requested
  <2>2. CASE p.op = "FENCE"
    <3>1. p.dec \in Nat /\ p.gate \in Nat /\ p.id \in Nat
      BY <2>2, PacketArguments
    <3>2. 8 \in Nat /\ 4 \in {4, 8} /\ 8 + 4 <= Len(q)
      BY <1>1, <2>2 DEF PacketBytes
    <3>3. FencePayload(p) \in SUBSET (0 .. 8 * 4 - 1)
      <4>1. FencePayload(p) \in SUBSET (0 .. 31)
        BY LowWords, Zenon
      <4> QED
        BY <4>1
    <3>4. Operand(8, 4) = FencePayload(p)
      BY <1>5, <1>7, <2>2, <3>2, <3>3
    <3> QED
      BY <2>2, <3>1, <3>4, FenceFields DEF Parsed, Requested
  <2>3. CASE p.op = "LIN_DMA"
    <3>1. /\ p.src \in SUBSET (0 .. 8 * 8 - 1) /\ p.dst \in SUBSET (0 .. 8 * 8 - 1)
          /\ p.size \in SUBSET (0 .. 8 * 4 - 1) /\ p.dir \in Nat
      BY <2>3, PacketArguments DEF Packable, CanPack
    <3>2. /\ 8 \in Nat /\ 16 \in Nat /\ 24 \in Nat /\ 4 \in {4, 8} /\ 8 \in {4, 8}
          /\ 8 + 8 <= Len(q) /\ 16 + 8 <= Len(q) /\ 24 + 4 <= Len(q)
      BY <1>1, <2>3 DEF PacketBytes
    <3>3. Operand(8, 8) = p.src
      BY <1>5, <1>7, <2>3, <3>1, <3>2, Zenon
    <3>4. Operand(16, 8) = p.dst
      BY <1>5, <1>7, <2>3, <3>1, <3>2, Zenon
    <3>5. Operand(24, 4) = p.size
      BY <1>5, <1>7, <2>3, <3>1, <3>2, Zenon
    <3>6. Low(HeaderAt, 32) = Bits(1 + 2 * (p.dir % 8))
      BY <1>2, <1>3, <1>6, <2>3, <3>1, DmaControlValue
    <3> QED
      BY <2>3, <3>3, <3>4, <3>5, <3>6 DEF Parsed, Requested
  <2>4. CASE p.op \in {"NOP", "STOP"}
    BY <2>4 DEF Parsed, Requested
  <2> QED
    BY <1>1, <2>1, <2>2, <2>3, <2>4 DEF Opcodes
<1> QED
  BY <1>3, <1>6, <1>8

\* How far the buffer holds whole packets: start[j] bytes hold the first j.
Places(start) ==
    /\ start \in [0 .. Len(appended) -> 0 .. Len(buf)]
    /\ start[0] = 0 /\ start[Len(appended)] = Len(buf)
    /\ \A j \in 1 .. Len(appended) :
          /\ start[j] = start[j - 1] + PacketBytes[appended[j].op]
          /\ StandsIn(Packet(appended[j]), buf, start[j - 1])
    /\ Len(fetched) <= Len(appended)
    /\ at = start[Len(fetched)] + 1

Commands == {Requested(p) : p \in Packets}

\* The inductive invariant of the buffer: it is the packets of the calls that
\* returned, one after the other, and the processor stands between two of them.
BufferInv ==
    /\ buf \in Seq(ByteSets) /\ Len(buf) % 8 = 0
    /\ appended \in Seq({p \in Packets : Packable(p)})
    /\ fetched \in Seq(Commands)
    /\ \E start : Places(start)
    /\ \A j \in 1 .. Len(fetched) : fetched[j] = Requested(appended[j])

LEMMA BufferInvInit == BufferInit => BufferInv
<1> SUFFICES ASSUME BufferInit PROVE BufferInv
  OBVIOUS
<1>1. buf = << >> /\ appended = << >> /\ fetched = << >> /\ at = 1
  BY DEF BufferInit
<1>2. Places([j \in 0 .. 0 |-> 0])
  <2>1. Len(appended) = 0 /\ Len(buf) = 0 /\ Len(fetched) = 0
    BY <1>1
  <2> QED
    BY <1>1, <2>1 DEF Places
<1> QED
  BY <1>1, <1>2 DEF BufferInv

LEMMA BufferAppends ==
    ASSUME BufferInv, NEW p \in Packets, Packable(p), AppendPacket(p)
    PROVE  BufferInv'
<1> DEFINE q == Packet(p)
           n == Len(appended)
           Calls == {x \in Packets : Packable(x)}
<1>1. PICK start : Places(start)
  BY DEF BufferInv
<1>2. /\ q \in Seq(ByteSets) /\ Len(q) = PacketBytes[p.op]
      /\ PacketBytes[p.op] \in {8, 16, 32}
  BY PacketParts, Zenon
<1> HIDE DEF q
<1>3. /\ buf \in Seq(ByteSets) /\ Len(buf) % 8 = 0
      /\ appended \in Seq(Calls) /\ fetched \in Seq(Commands) /\ p \in Calls
  BY DEF BufferInv
<1> HIDE DEF Calls
<1>4. buf' = buf \o q /\ appended' = Append(appended, p) /\ at' = at /\ fetched' = fetched
  BY DEF AppendPacket, q
<1>5. /\ buf' \in Seq(ByteSets) /\ Len(buf') = Len(buf) + PacketBytes[p.op]
      /\ Len(buf') % 8 = 0
      /\ appended' \in Seq(Calls) /\ Len(appended') = n + 1 /\ n \in Nat
      /\ appended'[n + 1] = p /\ \A j \in 1 .. n : appended'[j] = appended[j]
  <2>1. buf' \in Seq(ByteSets) /\ Len(buf') = Len(buf) + PacketBytes[p.op]
    <3>1. buf \in Seq(ByteSets) /\ q \in Seq(ByteSets)
      BY <1>2, <1>3
    <3>2. buf' = buf \o q
      BY <1>4
    <3>3. buf' \in Seq(ByteSets) /\ Len(buf') = Len(buf) + Len(q)
      BY ONLY <3>1, <3>2, SMTT(60)
    <3> QED
      BY <1>2, <3>3
  <2>2. Len(buf') % 8 = 0
    <3> DEFINE a == Len(buf)
               b == PacketBytes[p.op]
    <3>1. a \in Nat /\ a % 8 = 0 /\ b \in {8, 16, 32} /\ Len(buf') = a + b
      BY <1>2, <1>3, <2>1
    <3> HIDE DEF a, b
    <3>2. CASE b = 8
      BY <3>1, <3>2, SMTT(60)
    <3>3. CASE b = 16
      BY <3>1, <3>3, SMTT(60)
    <3>4. CASE b = 32
      BY <3>1, <3>4, SMTT(60)
    <3> QED
      BY <3>1, <3>2, <3>3, <3>4
  <2>3. /\ appended' \in Seq(Calls) /\ Len(appended') = n + 1 /\ n \in Nat
        /\ appended'[n + 1] = p /\ \A j \in 1 .. n : appended'[j] = appended[j]
    BY <1>3, <1>4
  <2> QED
    BY <2>1, <2>2, <2>3
<1>6. \E next : Places(next)'
  <2>p. PICK next :
           next = [j \in 0 .. n + 1 |-> IF j <= n THEN start[j] ELSE Len(buf')]
    OBVIOUS
  <2>1. /\ start \in [0 .. n -> 0 .. Len(buf)] /\ start[0] = 0 /\ start[n] = Len(buf)
        /\ \A j \in 1 .. n :
              /\ start[j] = start[j - 1] + PacketBytes[appended[j].op]
              /\ StandsIn(Packet(appended[j]), buf, start[j - 1])
        /\ Len(fetched) <= n /\ at = start[Len(fetched)] + 1 /\ Len(fetched) \in Nat
    BY <1>1, <1>3 DEF Places
  <2>2. /\ next \in [0 .. n + 1 -> 0 .. Len(buf')]
        /\ next[n + 1] = Len(buf') /\ \A j \in 0 .. n : next[j] = start[j]
    <3>1. n \in Nat /\ Len(buf) \in Nat /\ Len(buf') \in Nat /\ Len(buf) <= Len(buf')
      <4>1. n \in Nat /\ Len(buf) \in Nat /\ Len(buf') = Len(buf) + PacketBytes[p.op]
        <5>1. Len(buf) \in Nat
          BY <1>3
        <5> QED
          BY <1>5, <5>1, Zenon
      <4>2. PacketBytes[p.op] \in Nat
        BY <1>2
      <4> HIDE DEF n
      <4> QED
        BY <4>1, <4>2
    <3>2. next[n + 1] = Len(buf') /\ \A j \in 0 .. n : next[j] = start[j]
      BY <2>p, <3>1
    <3>3. ASSUME NEW j \in 0 .. n + 1 PROVE next[j] \in 0 .. Len(buf')
      <4>1. CASE j = n + 1
        BY <3>1, <3>2, <4>1
      <4>2. CASE j # n + 1
        <5>1. j \in 0 .. n
          BY <3>1, <4>2
        <5>2. next[j] = start[j] /\ start[j] \in 0 .. Len(buf)
          BY <2>1, <3>2, <5>1
        <5> QED
          BY <3>1, <5>2
      <4> QED
        BY <4>1, <4>2
    <3>4. next \in [0 .. n + 1 -> 0 .. Len(buf')]
      <4>1. DOMAIN next = 0 .. n + 1 /\ next = [j \in 0 .. n + 1 |-> next[j]]
        BY <2>p
      <4> QED
        BY <3>3, <4>1
    <3> QED
      BY <3>2, <3>4
  <2>3. ASSUME NEW j \in 1 .. n + 1
        PROVE  /\ next[j] = next[j - 1] + PacketBytes[appended'[j].op]
               /\ StandsIn(Packet(appended'[j]), buf', next[j - 1])
    <3>1. CASE j = n + 1
      <4>1. appended'[j] = p /\ j - 1 = n /\ next[j - 1] = Len(buf) /\ next[j] = Len(buf')
        BY <1>5, <2>1, <2>2, <3>1
      <4>2. StandsIn(q, buf', Len(buf))
        BY <1>2, <1>3, <1>4, Concatenated
      <4> QED
        BY <1>5, <4>1, <4>2 DEF q
    <3>2. CASE j # n + 1
      <4>1. j \in 1 .. n /\ j \in 0 .. n /\ j - 1 \in 0 .. n
        BY <1>5, <3>2
      <4>2. appended'[j] = appended[j] /\ next[j] = start[j] /\ next[j - 1] = start[j - 1]
        BY <1>5, <2>2, <4>1
      <4>3. appended[j] \in Packets
        BY <1>3, <4>1 DEF Calls
      <4>4. Packet(appended[j]) \in Seq(ByteSets)
            /\ Len(Packet(appended[j])) = PacketBytes[appended[j].op]
        BY <4>3, PacketParts, Zenon
      <4>5. /\ start[j - 1] \in Nat /\ start[j] <= Len(buf)
            /\ start[j] = start[j - 1] + PacketBytes[appended[j].op]
            /\ StandsIn(Packet(appended[j]), buf, start[j - 1])
        <5>1. start[j - 1] \in 0 .. Len(buf) /\ start[j] \in 0 .. Len(buf) /\ Len(buf) \in Nat
          <6>1. Len(buf) \in Nat
            BY <1>3
          <6>2. start \in [0 .. n -> 0 .. Len(buf)]
            BY <2>1
          <6> QED
            BY <4>1, <6>1, <6>2
        <5>2. /\ start[j] = start[j - 1] + PacketBytes[appended[j].op]
              /\ StandsIn(Packet(appended[j]), buf, start[j - 1])
          BY <2>1, <4>1, Zenon
        <5> QED
          BY <5>1, <5>2
      <4>6. start[j - 1] + Len(Packet(appended[j])) <= Len(buf)
        BY <4>4, <4>5
      <4>7. StandsIn(Packet(appended[j]), buf \o q, start[j - 1])
        BY <1>2, <1>3, <4>4, <4>5, <4>6, StandsInFirst, Zenon
      <4> QED
        BY <1>4, <4>2, <4>5, <4>7
    <3> QED
      BY <3>1, <3>2
  <2>4. next[0] = 0 /\ Len(fetched') <= n + 1 /\ at' = next[Len(fetched')] + 1
    BY <1>4, <1>5, <2>1, <2>2
  <2>5. Places(next)'
    <3>1. Len(appended') = n + 1
      BY <1>5
    <3> QED
      BY <2>2, <2>3, <2>4, <3>1, Zenon DEF Places
  <2> QED
    BY <2>5
<1>7. \A j \in 1 .. Len(fetched') : fetched'[j] = Requested(appended'[j])
  <2>1. Len(fetched) <= n /\ Len(fetched) \in Nat
    BY <1>1, <1>3 DEF Places
  <2> QED
    BY <1>4, <1>5, <2>1 DEF BufferInv
<1> QED
  BY <1>3, <1>4, <1>5, <1>6, <1>7 DEF BufferInv, Calls

LEMMA OpcodesDiffer ==
    \A o, p \in DOMAIN Opcodes : Opcodes[o] = Opcodes[p] => o = p
BY DEF Opcodes

\* Where the processor stands, a packet begins that it has not fetched yet, or
\* the buffer ends.
LEMMA NextPacket ==
    ASSUME BufferInv, NEW start, Places(start), at <= Len(buf)
    PROVE  LET m == Len(fetched) + 1 IN
           /\ m \in 1 .. Len(appended) /\ appended[m] \in Packets /\ Packable(appended[m])
           /\ at \in Nat \ {0} /\ buf \in Seq(ByteSets)
           /\ PacketBytes[appended[m].op] \in Nat
           /\ start[m] = at - 1 + PacketBytes[appended[m].op]
           /\ at - 1 + PacketBytes[appended[m].op] <= Len(buf)
           /\ Shr(HeaderAt, 56) = Opcodes[appended[m].op]
           /\ Parsed(appended[m].op) = Requested(appended[m])
<1> DEFINE n == Len(appended)
           k == Len(fetched)
           p == appended[k + 1]
<1>1. /\ n \in Nat /\ k \in Nat /\ k <= n /\ Len(buf) \in Nat
      /\ start \in [0 .. n -> 0 .. Len(buf)] /\ start[n] = Len(buf) /\ at = start[k] + 1
  <2>1. n \in Nat /\ k \in Nat /\ Len(buf) \in Nat
    BY DEF BufferInv
  <2> QED
    BY <2>1 DEF Places
<1>2. k + 1 \in 1 .. n /\ k \in 0 .. n /\ k + 1 \in 0 .. n /\ (k + 1) - 1 = k
  <2>1. k # n
    BY <1>1
  <2> QED
    BY <1>1, <2>1
<1>3. p \in Packets /\ Packable(p)
  BY <1>2 DEF BufferInv
<1>4. start[k] \in 0 .. Len(buf) /\ start[k + 1] \in 0 .. Len(buf)
  BY <1>1, <1>2
<1>5. /\ start[k + 1] = start[k] + PacketBytes[p.op]
      /\ StandsIn(Packet(p), buf, start[k])
  BY <1>2 DEF Places
<1>6. PacketBytes[p.op] \in {8, 16, 32}
  BY <1>3, PacketParts, Zenon
<1> HIDE DEF p
<1>7. /\ at \in Nat \ {0} /\ at - 1 = start[k] /\ PacketBytes[p.op] \in Nat
      /\ at - 1 + PacketBytes[p.op] <= Len(buf)
      /\ start[k + 1] = at - 1 + PacketBytes[p.op]
  BY <1>1, <1>4, <1>5, <1>6
<1>8. buf \in Seq(ByteSets) /\ StandsIn(Packet(p), buf, at - 1)
  BY <1>5, <1>7 DEF BufferInv
<1>9. Shr(HeaderAt, 56) = Opcodes[p.op] /\ Parsed(p.op) = Requested(p)
  BY <1>3, <1>7, <1>8, PacketRead, Zenon
<1> QED
  BY <1>2, <1>3, <1>7, <1>8, <1>9, Zenon DEF p

LEMMA BufferFetches ==
    ASSUME BufferInv, Fetch
    PROVE  BufferInv'
<1> DEFINE k == Len(fetched)
           p == appended[k + 1]
<1>1. PICK start : Places(start)
  BY DEF BufferInv
<1>2. PICK o \in DOMAIN Opcodes :
         /\ Recognized(o)
         /\ fetched' = Append(fetched, Parsed(o))
         /\ at' = at + PacketBytes[o]
  BY DEF Fetch
<1>3. buf' = buf /\ appended' = appended
  BY DEF Fetch
<1>4. at <= Len(buf)
  <2>1. PacketBytes[o] \in {8, 16, 32}
    BY DEF PacketBytes, Opcodes
  <2>2. at + PacketBytes[o] - 1 <= Len(buf)
    BY <1>2 DEF Recognized
  <2>3. at \in Nat /\ Len(buf) \in Nat
    <3>1. Len(buf) \in Nat /\ Len(fetched) \in Nat /\ Len(appended) \in Nat
      BY DEF BufferInv
    <3> QED
      BY <1>1, <3>1 DEF Places
  <2> QED
    BY <2>1, <2>2, <2>3
<1>5. /\ k + 1 \in 1 .. Len(appended) /\ p \in Packets
      /\ at \in Nat \ {0} /\ PacketBytes[p.op] \in Nat
      /\ start[k + 1] = at - 1 + PacketBytes[p.op]
      /\ Shr(HeaderAt, 56) = Opcodes[p.op] /\ Parsed(p.op) = Requested(p)
  BY <1>1, <1>4, NextPacket, Zenon
<1>6. o = p.op
  <2>1. Opcodes[o] = Opcodes[p.op]
    BY <1>2, <1>5 DEF Recognized
  <2> QED
    BY <1>5, <2>1, OpcodesDiffer, PacketArguments
<1>7. fetched \in Seq(Commands) /\ Requested(p) \in Commands /\ k \in Nat
  BY <1>5 DEF BufferInv, Commands
<1> HIDE DEF p
<1>8. fetched' = Append(fetched, Requested(p)) /\ at' = at + PacketBytes[p.op]
  BY <1>2, <1>5, <1>6
<1>9. /\ fetched' \in Seq(Commands) /\ Len(fetched') = k + 1
      /\ fetched'[k + 1] = Requested(p) /\ \A j \in 1 .. k : fetched'[j] = fetched[j]
  BY <1>7, <1>8
<1>10. Places(start)'
  <2>1. Len(fetched') <= Len(appended') /\ at' = start[Len(fetched')] + 1
    <3>1. k + 1 <= Len(appended) /\ at + PacketBytes[p.op] = start[k + 1] + 1
      BY <1>5
    <3> QED
      BY <1>3, <1>8, <1>9, <3>1
  <2>2. /\ start \in [0 .. Len(appended) -> 0 .. Len(buf)]
        /\ start[0] = 0 /\ start[Len(appended)] = Len(buf)
        /\ \A j \in 1 .. Len(appended) :
              /\ start[j] = start[j - 1] + PacketBytes[appended[j].op]
              /\ StandsIn(Packet(appended[j]), buf, start[j - 1])
    BY <1>1, Zenon DEF Places
  <2> QED
    BY <1>3, <2>1, <2>2, Zenon DEF Places
<1>11. ASSUME NEW j \in 1 .. Len(fetched') PROVE fetched'[j] = Requested(appended'[j])
  <2>1. CASE j = k + 1
    BY <1>3, <1>9, <2>1 DEF p
  <2>2. CASE j # k + 1
    <3>1. j \in 1 .. k
      BY <1>7, <1>9, <2>2
    <3> QED
      BY <1>3, <1>9, <3>1 DEF BufferInv
  <2> QED
    BY <2>1, <2>2
<1> QED
  BY <1>3, <1>9, <1>10, <1>11 DEF BufferInv

LEMMA BufferInvStep == BufferInv /\ [BufferNext]_bufferVars => BufferInv'
<1> SUFFICES ASSUME BufferInv, [BufferNext]_bufferVars PROVE BufferInv'
  OBVIOUS
<1>1. CASE Fetch
  BY <1>1, BufferFetches
<1>2. ASSUME NEW p \in Packets, AppendPacket(p), ~Packable(p) PROVE BufferInv'
  BY <1>2 DEF AppendPacket, AfterFailure, BufferInv, Places
<1>3. ASSUME NEW p \in Packets, AppendPacket(p), Packable(p) PROVE BufferInv'
  BY <1>3, BufferAppends
<1>4. CASE UNCHANGED bufferVars
  BY <1>4 DEF bufferVars, BufferInv, Places
<1> QED
  BY <1>1, <1>2, <1>3, <1>4 DEF BufferNext

LEMMA BufferInvariant == BufferSpec => []BufferInv
BY BufferInvInit, BufferInvStep, PTL DEF BufferSpec

\* By the format of packets.py's docstring the bytes of a CommandBuffer come
\* apart into exactly the packets the calls of the builders asked for, in their
\* order, with a whole packet wherever one begins, for any operands and any
\* number of calls.
THEOREM PacketsRecovered == BufferSpec => []PacketsReadBack
<1>1. BufferInv => PacketsReadBack
  <2> SUFFICES ASSUME BufferInv PROVE PacketsReadBack
    OBVIOUS
  <2>1. PICK start : Places(start)
    BY DEF BufferInv
  <2>2. Len(fetched) <= Len(appended)
    BY <2>1 DEF Places
  <2>3. ASSUME at <= Len(buf) PROVE \E o \in DOMAIN Opcodes : Recognized(o)
    <3> DEFINE p == appended[Len(fetched) + 1]
    <3>1. /\ p \in Packets /\ at \in Nat \ {0} /\ PacketBytes[p.op] \in Nat
          /\ at - 1 + PacketBytes[p.op] <= Len(buf)
          /\ Shr(HeaderAt, 56) = Opcodes[p.op]
      BY <2>1, <2>3, NextPacket, Zenon
    <3>2. p.op \in DOMAIN Opcodes
      BY <3>1, PacketArguments
    <3> HIDE DEF p
    <3>3. Len(buf) \in Nat
      BY DEF BufferInv
    <3>4. at + PacketBytes[p.op] - 1 <= Len(buf)
      BY <3>1, <3>3
    <3> QED
      BY <3>1, <3>2, <3>4 DEF Recognized
  <2> QED
    BY <2>2, <2>3 DEF PacketsReadBack, BufferInv
<1> QED
  BY <1>1, BufferInvariant, PTL

-----------------------------------------------------------------------------
(***************************************************************************)
(* The components beside each other.                                       *)
(***************************************************************************)
allVars == << headerVars, descriptorVars, bufferVars, probeVars, vars >>

\* A step of all is a step of one component, and the others keep still.
LEMMA AllStep ==
    [AllNext]_allVars =>
        /\ [HeaderNext]_headerVars
        /\ [DescriptorNext]_descriptorVars
        /\ [BufferNext]_bufferVars
        /\ [ProbeNext]_probeVars
        /\ [Next]_vars
BY Zenon DEF AllNext, allVars

\* What is proved of a component alone holds of it beside the others.
LEMMA EachComponent ==
    AllSpec => HeaderSpec /\ DescriptorSpec /\ BufferSpec /\ ProbeSpec /\ Spec
<1>1. AllSpec => AllInit /\ [][AllNext]_allVars
  BY DEF AllSpec, allVars
<1>2. AllInit => HeaderInit /\ DescriptorInit /\ BufferInit /\ ProbeInit /\ Init
  BY DEF AllInit
<1> QED
  BY <1>1, <1>2, AllStep, PTL
  DEF HeaderSpec, DescriptorSpec, BufferSpec, ProbeSpec, Spec

\* Registers and headers stay words of 32 bits, a command buffer whole packets
\* of bytes, and the byte array bytes, for any operands.
THEOREM WordsTyped == AllSpec => []WordsTypeOK
<1>1. DescriptorSpec => []DescriptorInv
  BY DescriptorInvInit, DescriptorInvStep, PTL DEF DescriptorSpec
<1>2. HeaderTypeOK /\ DescriptorInv /\ BufferInv /\ TypeOK => WordsTypeOK
  <2>1. ASSUME BufferInv, NEW b \in 1 .. Len(buf) PROVE buf[b] \subseteq 0 .. 7
    <3>1. buf \in Seq(ByteSets)
      BY <2>1 DEF BufferInv
    <3>2. buf[b] \in ByteSets
      BY <3>1
    <3> QED
      BY <3>2 DEF ByteSets
  <2> QED
    BY <2>1 DEF WordsTypeOK, DescriptorInv, BufferInv
<1> QED
  BY <1>1, <1>2, EachComponent, HeaderTyped, BufferInvariant, TypeCorrect, PTL
=============================================================================
