-------------------------- MODULE BarMemoryProofs --------------------------
(***************************************************************************)
(* Theorems about the byte array behind the simulated BAR, for arrays of   *)
(* any size, bytes of any number of values, data of any length and offsets *)
(* anywhere, aligned or not.                                               *)
(***************************************************************************)
EXTENDS BarMemory, ArithmeticLemmas, SequenceTheorems

USE BaseAssumption, SizeAssumption

-----------------------------------------------------------------------------
(***************************************************************************)
(* Words and bytes.                                                        *)
(***************************************************************************)
LEMMA BasePowers ==
    /\ Base \in Nat \ {0}
    /\ Base * Base \in Nat \ {0}
    /\ Base * Base * Base \in Nat \ {0}
    /\ W \in Nat \ {0}
<1>1. Base \in Nat \ {0}
  OBVIOUS
<1>2. Base * Base \in Nat \ {0}
  BY <1>1, Z3
<1>3. Base * Base * Base \in Nat \ {0}
  BY <1>1, <1>2, Z3
<1>4. W \in Nat \ {0}
  BY <1>1, <1>3, Z3 DEF W
<1> QED
  BY <1>1, <1>2, <1>3, <1>4

\* The digits of a number.
Digits(v, x, y, z) ==
    /\ x = v \div Base /\ y = x \div Base /\ z = y \div Base
    /\ x \in Nat /\ y \in Nat /\ z \in Nat
    /\ v \div (Base * Base) = y /\ v \div (Base * Base * Base) = z

LEMMA DigitsLemma ==
    ASSUME NEW v \in Nat
    PROVE  \E x, y, z : Digits(v, x, y, z)
<1> DEFINE x == v \div Base
           y == x \div Base
           z == y \div Base
<1>1. x \in Nat
  BY DivMod, BasePowers
<1>2. y \in Nat
  BY <1>1, DivMod, BasePowers
<1>3. z \in Nat
  BY <1>2, DivMod, BasePowers
<1>4. v \div (Base * Base) = y
  BY DivChain, BasePowers
<1>5. v \div (Base * Base * Base) = (v \div (Base * Base)) \div Base
  BY DivChain, BasePowers
<1> HIDE DEF x, y, z
<1>6. x = v \div Base /\ y = x \div Base /\ z = y \div Base
  BY DEF x, y, z
<1> QED
  BY <1>1, <1>2, <1>3, <1>4, <1>5, <1>6 DEF Digits

LEMMA PackType ==
    ASSUME NEW v \in Nat
    PROVE  Pack(v) \in Seq(Bytes) /\ Len(Pack(v)) = 4
<1>1. PICK x, y, z : Digits(v, x, y, z)
  BY DigitsLemma
<1>2. /\ v % Base \in Bytes /\ x % Base \in Bytes
      /\ y % Base \in Bytes /\ z % Base \in Bytes
  BY <1>1, DivMod, BasePowers DEF Digits, Bytes
<1>3. Pack(v) = << v % Base, x % Base, y % Base, z % Base >>
  BY <1>1 DEF Pack, Digits
<1> QED
  BY <1>2, <1>3

LEMMA UnpackType ==
    ASSUME NEW b \in [1 .. 4 -> Bytes]
    PROVE  Unpack(b) \in 0 .. W - 1
<1>1. b[1] \in 0 .. Base - 1 /\ b[2] \in 0 .. Base - 1 /\ b[3] \in 0 .. Base - 1
      /\ b[4] \in 0 .. Base - 1
  BY DEF Bytes
<1> DEFINE y3 == b[3] + Base * b[4]
           y2 == b[2] + Base * y3
<1>2. y3 \in 0 .. Base * Base - 1
  BY <1>1, Z3
<1>3. y2 \in 0 .. Base * Base * Base - 1
  <2> HIDE DEF y3
  <2> QED
    BY <1>1, <1>2, Z3
<1> HIDE DEF y2
<1>4. b[1] + Base * y2 \in 0 .. Base * Base * Base * Base - 1
  BY <1>1, <1>3, Z3
<1> QED
  BY <1>4 DEF Unpack, W, y2

\* Packing is the inverse of unpacking.
LEMMA PackUnpack ==
    ASSUME NEW b \in [1 .. 4 -> Bytes]
    PROVE  \A j \in 1 .. 4 : Pack(Unpack(b))[j] = b[j]
<1>1. /\ b[1] \in Nat /\ b[1] < Base /\ b[2] \in Nat /\ b[2] < Base
      /\ b[3] \in Nat /\ b[3] < Base /\ b[4] \in Nat /\ b[4] < Base
  BY DEF Bytes
<1> DEFINE y3 == b[3] + Base * b[4]
           y2 == b[2] + Base * y3
           v == b[1] + Base * y2
<1>2. y3 \in Nat
  BY <1>1, BasePowers
<1>3. y2 \in Nat
  BY <1>1, <1>2, BasePowers
<1>4. v \in Nat
  BY <1>1, <1>3, BasePowers
<1>5. Unpack(b) = v
  BY DEF Unpack
<1>6. v % Base = b[1] /\ v \div Base = y2
  BY <1>1, <1>3, DivUnique, BasePowers
<1>7. y2 % Base = b[2] /\ y2 \div Base = y3
  BY <1>1, <1>2, DivUnique, BasePowers
<1>8. y3 % Base = b[3] /\ y3 \div Base = b[4]
  BY <1>1, DivUnique, BasePowers
<1>9. b[4] % Base = b[4]
  BY <1>1
<1> HIDE DEF v, y2, y3
<1>10. PICK x, y, z : Digits(v, x, y, z)
  BY <1>4, DigitsLemma
<1>11. x = y2 /\ y = y3 /\ z = b[4]
  BY <1>6, <1>7, <1>8, <1>10 DEF Digits
<1>12. Pack(v) = << b[1], b[2], b[3], b[4] >>
  BY <1>6, <1>7, <1>8, <1>9, <1>10, <1>11 DEF Pack, Digits
<1> QED
  BY <1>5, <1>12

\* And unpacking that of packing.
LEMMA UnpackPack ==
    ASSUME NEW v \in 0 .. W - 1
    PROVE  Unpack(Pack(v)) = v
<1>6. v \in Nat
  BY BasePowers
<1>1. PICK x, y, z : Digits(v, x, y, z)
  BY <1>6, DigitsLemma
<1>2. Pack(v) = << v % Base, x % Base, y % Base, z % Base >>
  BY <1>1 DEF Pack, Digits
<1>3. v = (v % Base) + Base * x /\ x = (x % Base) + Base * y /\ y = (y % Base) + Base * z
  BY <1>1, <1>6, DivMod, BasePowers DEF Digits
<1>4. z < Base
  <2>1. v \div (Base * Base * Base) = z /\ v < Base * Base * Base * Base /\ z \in Nat
    BY <1>1 DEF Digits, W
  <2> DEFINE B3 == Base * Base * Base
  <2>2. B3 \in Nat \ {0}
    BY BasePowers
  <2> HIDE DEF B3
  <2>3. v = (v % B3) + B3 * (v \div B3) /\ v % B3 \in 0 .. B3 - 1 /\ v \div B3 \in Nat
    BY <1>6, <2>2, DivMod
  <2>4. v \div B3 = z /\ v < B3 * Base
    BY <2>1 DEF B3
  <2> QED
    BY <2>1, <2>2, <2>3, <2>4, Z3
<1>5. z % Base = z
  BY <1>1, <1>4, BasePowers DEF Digits
<1> QED
  BY <1>2, <1>3, <1>5 DEF Unpack

LEMMA ChunkType ==
    ASSUME NEW d \in Seq(Bytes), NEW n \in Nat
    PROVE  Chunk(d, n) \in [1 .. 4 -> Bytes]
<1>1. 0 \in Bytes
  BY DEF Bytes
<1>2. ASSUME NEW j \in 1 .. 4, n + j <= Len(d) PROVE d[n + j] \in Bytes
  BY <1>2
<1> QED
  BY <1>1, <1>2 DEF Chunk

\* A word inside the array replaces four bytes, any other none.
LEMMA WriteType ==
    ASSUME NEW m \in [Addrs -> Bytes], NEW o \in Nat, NEW v \in Nat
    PROVE  Write32(m, o, v) \in [Addrs -> Bytes]
<1>1. v % W \in Nat
  BY DivMod, BasePowers
<1>2. Pack(v % W) \in Seq(Bytes) /\ Len(Pack(v % W)) = 4
  BY <1>1, PackType
<1> DEFINE p == Pack(v % W)
<1>3. p \in Seq(Bytes) /\ Len(p) = 4
  BY <1>2
<1> HIDE DEF p
<1>4. ASSUME NEW a \in Addrs, a \in o .. o + 3 PROVE p[a - o + 1] \in Bytes
  <2> DEFINE k == a - o + 1
  <2>1. k \in 1 .. Len(p)
    BY <1>3, <1>4 DEF Addrs
  <2> HIDE DEF k
  <2>2. p[k] \in Bytes
    BY <1>3, <2>1, ElementOfSeq
  <2> QED
    BY <2>2 DEF k
<1>5. Write32(m, o, v) =
          IF Fits(o)
          THEN [a \in Addrs |-> IF a \in o .. o + 3 THEN p[a - o + 1] ELSE m[a]]
          ELSE m
  BY DEF Write32, p
<1> QED
  BY <1>4, <1>5

LEMMA WriteBytes ==
    ASSUME NEW m \in [Addrs -> Bytes], NEW o \in Nat, NEW b \in [1 .. 4 -> Bytes],
           NEW a \in Addrs
    PROVE  Write32(m, o, Unpack(b))[a] =
               IF Fits(o) /\ a \in o .. o + 3 THEN b[a - o + 1] ELSE m[a]
<1>1. Unpack(b) % W = Unpack(b)
  BY UnpackType, BasePowers
<1>2. CASE Fits(o) /\ a \in o .. o + 3
  <2>1. a - o + 1 \in 1 .. 4
    BY <1>2 DEF Addrs
  <2>2. Pack(Unpack(b))[a - o + 1] = b[a - o + 1]
    BY <2>1, PackUnpack
  <2>3. Write32(m, o, Unpack(b))[a] = Pack(Unpack(b))[a - o + 1]
    BY <1>1, <1>2 DEF Write32
  <2> QED
    BY <1>2, <2>2, <2>3
<1>3. CASE ~(Fits(o) /\ a \in o .. o + 3)
  BY <1>3 DEF Write32
<1> QED
  BY <1>2, <1>3

\* What a reading consists of, inside the array and outside.
LEMMA ReadType ==
    ASSUME NEW m \in [Addrs -> Bytes], NEW o \in Nat
    PROVE  /\ Read32(m, o) \in 0 .. W - 1
           /\ o + 4 <= Size => \A j \in 1 .. 4 : Pack(Read32(m, o))[j] = m[o + j - 1]
<1>1. CASE o + 4 > Size
  BY <1>1, BasePowers DEF Read32
<1>2. CASE o + 4 <= Size
  <2> DEFINE b == [j \in 1 .. 4 |-> m[o + j - 1]]
  <2>1. \A j \in 1 .. 4 : o + j - 1 \in Addrs
    BY <1>2 DEF Addrs
  <2>2. b \in [1 .. 4 -> Bytes]
    BY <2>1
  <2>3. Read32(m, o) = Unpack(b)
    BY <1>2 DEF Read32
  <2> HIDE DEF b
  <2>4. \A j \in 1 .. 4 : Pack(Unpack(b))[j] = b[j]
    BY <2>2, PackUnpack
  <2>5. Unpack(b) \in 0 .. W - 1
    BY <2>2, UnpackType
  <2> QED
    BY <1>2, <2>3, <2>4, <2>5 DEF b
<1> QED
  BY <1>1, <1>2

-----------------------------------------------------------------------------
(***************************************************************************)
(* The calls.                                                              *)
(***************************************************************************)
CallTyped ==
    /\ mem \in [Addrs -> Bytes] /\ before \in [Addrs -> Bytes]
    /\ op \in {"none", "write", "read"}
    /\ off \in Nat /\ size \in Nat /\ i \in Nat /\ i % 4 = 0
    /\ data \in Seq(Bytes) /\ acc \in Seq(Bytes)
    /\ op = "read" => Len(acc) = i
    /\ op # "none" => result = NoResult
    /\ op = "write" => kept = NoResult

\* The word of the j-th byte from o on lies inside the array.
Inside(o, j) == o + 4 * ((j - 1) \div 4) + 4 <= Size

\* The bytes v are those of the array from o on, as far as their words are
\* inside it.
Holds(o, v) == \A j \in 1 .. Len(v) : Inside(o, j) => v[j] = mem[o + j - 1]

HoldsWide(o, x) ==
    o + 8 <= Size => /\ Read32(mem, o) = x % W
                     /\ Read32(mem, o + 4) = (x \div W) % W

\* What has been read so far is what is there.
ReadInv == op = "read" => Holds(off, acc)

\* What was written last is still there.
KeptInv ==
    /\ kept.op \in {"none", "dram", "wide"}
    /\ kept.op = "dram" =>
          /\ kept.off \in Nat /\ kept.val \in Seq(Bytes)
          /\ Holds(kept.off, kept.val)
    /\ kept.op = "wide" =>
          /\ kept.off \in Nat /\ kept.val[1] \in Nat
          /\ HoldsWide(kept.off, kept.val[1])

\* What was returned last is still true.
ResultInv ==
    /\ result.op = "dram" =>
          /\ result.off \in Nat /\ result.val \in Seq(Bytes)
          /\ Holds(result.off, result.val)
    /\ result.op = "wide" =>
          /\ result.off \in Nat
          /\ result.val[1] = Read32(mem, result.off + 4) * W + Read32(mem, result.off)

BarInv == CallTyped /\ WriteTouchesOnlyItsWords /\ ReadInv /\ KeptInv /\ ResultInv

\* None of the three records is disturbed by a step that leaves it, and the
\* array, alone.
LEMMA SameMemory ==
    ASSUME BarInv, mem' = mem
    PROVE  /\ \A o, v : Holds(o, v)' <=> Holds(o, v)
           /\ \A o, x : HoldsWide(o, x)' <=> HoldsWide(o, x)
           /\ kept' = kept => KeptInv'
           /\ result' = result => ResultInv'
           /\ kept' = NoResult => KeptInv'
           /\ result' = NoResult => ResultInv'
<1>1. \A o, v : Holds(o, v)' <=> Holds(o, v)
  BY DEF Holds
<1>2. \A o, x : HoldsWide(o, x)' <=> HoldsWide(o, x)
  BY DEF HoldsWide
<1>3. kept' = kept => KeptInv'
  BY <1>1, <1>2 DEF BarInv, KeptInv
<1>4. result' = result => ResultInv'
  BY <1>1 DEF BarInv, ResultInv
<1> QED
  BY <1>1, <1>2, <1>3, <1>4 DEF NoResult, KeptInv, ResultInv

LEMMA NothingStored ==
    ASSUME NEW m \in [Addrs -> Bytes], NEW o \in Nat, NEW d
    PROVE  m = Stored(m, o, d, 0)
<1>1. \A a \in Addrs : ~(a >= o /\ a < o + 4 * ((0 + 3) \div 4))
  BY DEF Addrs
<1> QED
  BY <1>1 DEF Stored

LEMMA BeginStep ==
    ASSUME BarInv, NEW o \in Nat, NEW l \in {"write", "read"}, NEW d \in Seq(Bytes),
           NEW n \in Nat, Begin(o, l, d, n)
    PROVE  BarInv'
<1>1. CallTyped'
  BY DEF Begin, BarInv, CallTyped
<1>2. WriteTouchesOnlyItsWords'
  BY NothingStored DEF Begin, BarInv, CallTyped, WriteTouchesOnlyItsWords
<1>3. ReadInv'
  BY DEF Begin, ReadInv, Holds
<1>4. KeptInv' /\ ResultInv'
  BY SameMemory DEF Begin
<1> QED
  BY <1>1, <1>2, <1>3, <1>4 DEF BarInv

LEMMA WriteChunkStep == BarInv /\ WriteChunk => BarInv'
<1> SUFFICES ASSUME BarInv, WriteChunk PROVE BarInv'
  OBVIOUS
<1> DEFINE b == Chunk(data, i)
<1>1. /\ op = "write" /\ i < Len(data) /\ i' = i + 4
      /\ mem' = Write32(mem, off + i, Unpack(b))
      /\ UNCHANGED << op, off, data, size, acc, result, before, kept >>
  BY DEF WriteChunk
<1>2. /\ mem \in [Addrs -> Bytes] /\ off \in Nat /\ i \in Nat /\ data \in Seq(Bytes)
      /\ off + i \in Nat /\ i % 4 = 0
  BY DEF BarInv, CallTyped
<1>3. b \in [1 .. 4 -> Bytes]
  BY <1>2, ChunkType
<1>4. \A j \in 1 .. 4 : b[j] = IF i + j <= Len(data) THEN data[i + j] ELSE 0
  BY DEF Chunk
<1> HIDE DEF b
<1>5. Unpack(b) \in Nat
  BY <1>3, UnpackType, BasePowers
<1>6. mem' \in [Addrs -> Bytes]
  BY <1>1, <1>2, <1>5, WriteType
<1>7. CallTyped'
  BY <1>1, <1>2, <1>6 DEF BarInv, CallTyped
<1>8. result = NoResult /\ kept = NoResult
  BY <1>1 DEF BarInv, CallTyped
<1>9. ReadInv' /\ KeptInv' /\ ResultInv'
  BY <1>1, <1>8 DEF ReadInv, KeptInv, ResultInv, NoResult
<1>10. ASSUME NEW a \in Addrs
       PROVE  mem'[a] = Stored(before, off, data, i + 4)[a]
  <2>1. mem'[a] = IF Fits(off + i) /\ a \in off + i .. off + i + 3
                  THEN b[a - (off + i) + 1] ELSE mem[a]
    BY <1>1, <1>2, <1>3, WriteBytes
  <2>2. mem[a] = IF /\ a >= off /\ a < off + 4 * ((i + 3) \div 4)
                    /\ off + 4 * ((a - off) \div 4) + 4 <= Size
                 THEN IF a - off < Len(data) THEN data[a - off + 1] ELSE 0
                 ELSE before[a]
    BY <1>1 DEF BarInv, WriteTouchesOnlyItsWords, Stored
  <2>3. Stored(before, off, data, i + 4)[a] =
            IF /\ a >= off /\ a < off + 4 * ((i + 4 + 3) \div 4)
               /\ off + 4 * ((a - off) \div 4) + 4 <= Size
            THEN IF a - off < Len(data) THEN data[a - off + 1] ELSE 0
            ELSE before[a]
    BY DEF Stored
  <2>4. 4 * ((i + 3) \div 4) = i /\ 4 * ((i + 4 + 3) \div 4) = i + 4
    BY <1>2
  <2>5. a \in Nat
    BY DEF Addrs
  <2>6. CASE a \in off + i .. off + i + 3
    <3>1. /\ a >= off /\ a < off + i + 4 /\ ~(a < off + i)
          /\ off + 4 * ((a - off) \div 4) + 4 = off + i + 4
      BY <1>2, <2>5, <2>6
    <3>2. CASE Fits(off + i)
      <4>1. a - (off + i) + 1 \in 1 .. 4
        BY <1>2, <2>5, <2>6
      <4>2. i + (a - (off + i) + 1) = a - off + 1
        BY <1>2, <2>5
      <4>3. b[a - (off + i) + 1] = IF a - off + 1 <= Len(data) THEN data[a - off + 1] ELSE 0
        BY <1>4, <4>1, <4>2
      <4>4. a - off + 1 <= Len(data) <=> a - off < Len(data)
        BY <1>2, <2>5
      <4>5. off + i + 4 <= Size
        BY <3>2 DEF Fits
      <4>6. mem'[a] = IF a - off < Len(data) THEN data[a - off + 1] ELSE 0
        BY <2>1, <2>6, <3>2, <4>3, <4>4
      <4>7. /\ a < off + 4 * ((i + 4 + 3) \div 4)
            /\ off + 4 * ((a - off) \div 4) + 4 <= Size
        BY <1>2, <2>4, <3>1, <4>5
      <4> QED
        BY <2>3, <3>1, <4>6, <4>7
    <3>3. CASE ~Fits(off + i)
      <4>1. ~(off + 4 * ((a - off) \div 4) + 4 <= Size)
        BY <3>1, <3>3 DEF Fits
      <4> QED
        BY <2>1, <2>2, <2>3, <3>3, <4>1
    <3> QED
      BY <3>2, <3>3
  <2>7. CASE a \notin off + i .. off + i + 3
    <3>1. a < off + i \/ ~(a < off + i + 4)
      BY <1>2, <2>5, <2>7
    <3>2. a < off + 4 * ((i + 3) \div 4) <=> a < off + 4 * ((i + 4 + 3) \div 4)
      BY <1>2, <2>4, <2>5, <3>1
    <3> QED
      BY <2>1, <2>2, <2>3, <2>7, <3>2
  <2> QED
    BY <2>6, <2>7
<1>11. WriteTouchesOnlyItsWords'
  <2>1. /\ mem' = [a \in Addrs |-> mem'[a]]
        /\ Stored(before, off, data, i + 4) =
              [a \in Addrs |-> Stored(before, off, data, i + 4)[a]]
    BY <1>6 DEF Stored
  <2>2. mem' = Stored(before, off, data, i + 4)
    BY <1>10, <2>1
  <2> QED
    BY <1>1, <2>2 DEF WriteTouchesOnlyItsWords, Stored
<1> QED
  BY <1>7, <1>9, <1>11 DEF BarInv

\* What the finished loop has stored is there as a whole.
LEMMA WriteEndStep == BarInv /\ WriteEnd => BarInv'
<1> SUFFICES ASSUME BarInv, WriteEnd PROVE BarInv'
  OBVIOUS
<1>1. /\ op = "write" /\ i >= Len(data) /\ op' = "none" /\ mem' = mem
      /\ kept' = [op |-> "dram", off |-> off, val |-> data]
      /\ result' = result
  BY DEF WriteEnd, End
<1>2. /\ mem \in [Addrs -> Bytes] /\ off \in Nat /\ i \in Nat /\ data \in Seq(Bytes)
      /\ i % 4 = 0
  BY DEF BarInv, CallTyped
<1>3. CallTyped'
  BY <1>1, <1>2 DEF WriteEnd, End, BarInv, CallTyped
<1>4. Holds(off, data)
  <2> SUFFICES ASSUME NEW j \in 1 .. Len(data), Inside(off, j)
               PROVE  data[j] = mem[off + j - 1]
    BY DEF Holds
  <2> DEFINE a == off + j - 1
  <2>1. /\ a \in Nat /\ a >= off /\ a < off + i /\ a - off = j - 1
        /\ off + 4 * ((a - off) \div 4) + 4 <= Size
    BY <1>1, <1>2 DEF Inside
  <2>2. a \in Addrs
    BY <1>2, <2>1 DEF Addrs, Inside
  <2>3. 4 * ((i + 3) \div 4) = i
    BY <1>2
  <2>4. a - off < Len(data) /\ a - off + 1 = j
    BY <1>2, <2>1
  <2> HIDE DEF a
  <2>5. mem[a] = data[a - off + 1]
    BY <1>1, <2>1, <2>2, <2>3, <2>4 DEF BarInv, WriteTouchesOnlyItsWords, Stored
  <2> QED
    BY <2>4, <2>5 DEF a
<1>5. KeptInv'
  BY <1>1, <1>2, <1>4, SameMemory DEF KeptInv
<1>6. ResultInv'
  BY <1>1, SameMemory
<1> QED
  BY <1>1, <1>3, <1>5, <1>6 DEF BarInv, WriteTouchesOnlyItsWords, ReadInv

LEMMA ReadChunkStep == BarInv /\ ReadChunk => BarInv'
<1> SUFFICES ASSUME BarInv, ReadChunk PROVE BarInv'
  OBVIOUS
<1> DEFINE o == off + i
           x == Read32(mem, o)
           p == Pack(x)
<1>1. /\ op = "read" /\ i' = i + 4 /\ acc' = acc \o p
      /\ UNCHANGED << mem, op, off, data, size, result, before, kept >>
  BY DEF ReadChunk
<1>2. /\ mem \in [Addrs -> Bytes] /\ off \in Nat /\ i \in Nat /\ i % 4 = 0
      /\ acc \in Seq(Bytes) /\ Len(acc) = i
  BY <1>1 DEF BarInv, CallTyped
<1>3. x \in Nat
  <2>1. o \in Nat
    BY <1>2
  <2> HIDE DEF o
  <2> QED
    BY <1>2, <2>1, ReadType, BasePowers
<1>4. p \in Seq(Bytes) /\ Len(p) = 4
  BY <1>3, PackType
<1>5. off + i + 4 <= Size => \A j \in 1 .. 4 : p[j] = mem[off + i + j - 1]
  <2>1. o \in Nat
    BY <1>2
  <2> HIDE DEF o
  <2>2. o + 4 <= Size => \A j \in 1 .. 4 : Pack(Read32(mem, o))[j] = mem[o + j - 1]
    BY <1>2, <2>1, ReadType
  <2> QED
    BY <2>2 DEF o
<1> HIDE DEF o, x, p
<1>6. /\ acc' \in Seq(Bytes) /\ Len(acc') = i + 4
      /\ \A j \in 1 .. i : acc'[j] = acc[j]
      /\ \A j \in i + 1 .. i + 4 : acc'[j] = p[j - i]
  <2>1. /\ acc \o p \in Seq(Bytes) /\ Len(acc \o p) = Len(acc) + Len(p)
        /\ \A j \in 1 .. Len(acc) + Len(p) :
              (acc \o p)[j] = IF j <= Len(acc) THEN acc[j] ELSE p[j - Len(acc)]
    BY <1>2, <1>4, ConcatProperties
  <2> DEFINE c == acc \o p
  <2>2. /\ c \in Seq(Bytes) /\ Len(c) = i + 4 /\ acc' = c
        /\ \A j \in 1 .. i + 4 : c[j] = IF j <= i THEN acc[j] ELSE p[j - i]
    BY <1>1, <1>2, <1>4, <2>1
  <2> HIDE DEF c
  <2> QED
    BY <1>2, <2>2
<1>7. CallTyped'
  BY <1>1, <1>2, <1>6 DEF BarInv, CallTyped
<1>8. Holds(off, acc')
  <2> SUFFICES ASSUME NEW j \in 1 .. i + 4, Inside(off, j)
               PROVE  acc'[j] = mem[off + j - 1]
    BY <1>6 DEF Holds
  <2>1. CASE j \in 1 .. i
    BY <1>1, <1>2, <1>6, <2>1 DEF BarInv, ReadInv, Holds
  <2>2. CASE j \in i + 1 .. i + 4
    <3>1. 4 * ((j - 1) \div 4) = i /\ j - i \in 1 .. 4
      BY <1>2, <2>2
    <3>2. off + i + 4 <= Size
      BY <3>1 DEF Inside
    <3>3. p[j - i] = mem[off + i + (j - i) - 1]
      BY <1>5, <3>1, <3>2
    <3>4. off + i + (j - i) - 1 = off + j - 1
      BY <1>2
    <3> QED
      BY <1>6, <2>2, <3>3, <3>4
  <2> QED
    BY <1>2, <2>1, <2>2
<1>9. ReadInv'
  BY <1>1, <1>8 DEF ReadInv, Holds
<1>10. KeptInv' /\ ResultInv'
  BY <1>1, SameMemory
<1>11. WriteTouchesOnlyItsWords'
  BY <1>1 DEF WriteTouchesOnlyItsWords
<1> QED
  BY <1>7, <1>9, <1>10, <1>11 DEF BarInv

LEMMA ReadEndStep == BarInv /\ ReadEnd => BarInv'
<1> SUFFICES ASSUME BarInv, ReadEnd PROVE BarInv'
  OBVIOUS
<1> DEFINE v == SubSeq(acc, 1, size)
<1>1. /\ op = "read" /\ i >= size /\ op' = "none" /\ mem' = mem /\ kept' = kept
      /\ result' = [op |-> "dram", off |-> off, val |-> v]
  BY DEF ReadEnd, End
<1>2. /\ off \in Nat /\ size \in Nat /\ i \in Nat
      /\ acc \in Seq(Bytes) /\ Len(acc) = i
  BY <1>1 DEF BarInv, CallTyped
<1>3. /\ v \in Seq(Bytes) /\ Len(v) = size
      /\ \A j \in 1 .. size : v[j] = acc[j]
  BY <1>1, <1>2, SubSeqProperties
<1> HIDE DEF v
<1>4. Holds(off, v)
  BY <1>1, <1>2, <1>3 DEF BarInv, ReadInv, Holds
<1>5. CallTyped'
  BY <1>1, <1>2 DEF ReadEnd, End, BarInv, CallTyped
<1>6. ResultInv'
  BY <1>1, <1>2, <1>3, <1>4, SameMemory DEF ResultInv
<1>7. KeptInv'
  BY <1>1, SameMemory
<1> QED
  BY <1>1, <1>5, <1>6, <1>7 DEF BarInv, WriteTouchesOnlyItsWords, ReadInv

\* A word that was written is read back, whatever is written beside it.
LEMMA ReadBack ==
    ASSUME NEW m \in [Addrs -> Bytes], NEW m2 \in [Addrs -> Bytes], NEW o \in Nat,
           NEW v \in 0 .. W - 1, o + 4 <= Size,
           \A a \in o .. o + 3 : m2[a] = Write32(m, o, v)[a]
    PROVE  Read32(m2, o) = v
<1> DEFINE b == [j \in 1 .. 4 |-> m2[o + j - 1]]
<1>1. v \in Nat /\ v % W = v
  BY BasePowers
<1>2. Read32(m2, o) = Unpack(b)
  BY DEF Read32
<1>3. ASSUME NEW j \in 1 .. 4 PROVE b[j] = Pack(v)[j]
  <2> DEFINE a == o + j - 1
  <2>1. a \in o .. o + 3 /\ a \in Addrs /\ a - o + 1 = j
    BY DEF Addrs
  <2> HIDE DEF a
  <2>2. Write32(m, o, v)[a] = Pack(v)[a - o + 1]
    BY <1>1, <2>1 DEF Write32, Fits
  <2>3. m2[a] = Pack(v)[j]
    BY <2>1, <2>2
  <2> QED
    BY <2>3 DEF a
<1> HIDE DEF b
<1>4. Unpack(b) = Unpack(Pack(v))
  BY <1>3 DEF Unpack
<1> QED
  BY <1>2, <1>4, UnpackPack

LEMMA Write64Step ==
    ASSUME BarInv, NEW o \in Nat, NEW v \in Nat, Write64(o, v)
    PROVE  BarInv'
<1> DEFINE lo == v % W
           hi == (v \div W) % W
           m1 == Write32(mem, o, lo)
<1>1. /\ op = "none" /\ mem' = Write32(m1, o + 4, hi)
      /\ before' = mem' /\ result' = NoResult
      /\ kept' = [op |-> "wide", off |-> o, val |-> << v >>]
      /\ UNCHANGED callVars
  BY DEF Write64
<1>2. lo \in 0 .. W - 1 /\ hi \in 0 .. W - 1
  BY DivMod, BasePowers
<1>3. m1 \in [Addrs -> Bytes]
  BY <1>2, WriteType DEF BarInv, CallTyped
<1> HIDE DEF lo, hi, m1
<1>4. mem' \in [Addrs -> Bytes]
  <2>1. o + 4 \in Nat /\ hi \in Nat
    BY <1>2
  <2> QED
    BY <1>1, <1>3, <2>1, WriteType
<1>5. CallTyped'
  BY <1>1, <1>4 DEF BarInv, CallTyped, callVars
<1>6. HoldsWide(o, v)'
  <2> SUFFICES ASSUME o + 8 <= Size
               PROVE  Read32(mem', o) = lo /\ Read32(mem', o + 4) = hi
    BY DEF HoldsWide, lo, hi
  <2>1. \A a \in o .. o + 3 : mem'[a] = m1[a]
    <3> SUFFICES ASSUME NEW a \in o .. o + 3 PROVE mem'[a] = m1[a]
      OBVIOUS
    <3>1. a \in Addrs /\ a \notin o + 4 .. o + 4 + 3
      BY DEF Addrs
    <3> QED
      BY <1>1, <3>1 DEF Write32
  <2>2. Read32(mem', o) = lo
    <3>1. o + 4 <= Size /\ mem \in [Addrs -> Bytes]
      BY DEF BarInv, CallTyped
    <3>2. \A a \in o .. o + 3 : mem'[a] = Write32(mem, o, lo)[a]
      BY <2>1 DEF m1
    <3> QED
      BY <1>2, <1>4, <3>1, <3>2, ReadBack
  <2>3. Read32(mem', o + 4) = hi
    <3> DEFINE q == o + 4
    <3>1. q \in Nat /\ q + 4 <= Size /\ mem' = Write32(m1, q, hi)
      BY <1>1
    <3> HIDE DEF q
    <3>2. Read32(mem', q) = hi
      BY <1>2, <1>3, <1>4, <3>1, ReadBack
    <3> QED
      BY <3>2 DEF q
  <2> QED
    BY <2>2, <2>3
<1>7. KeptInv'
  BY <1>1, <1>6 DEF KeptInv
<1>8. ResultInv' /\ ReadInv' /\ WriteTouchesOnlyItsWords'
  BY <1>1 DEF ResultInv, NoResult, ReadInv, WriteTouchesOnlyItsWords, callVars
<1> QED
  BY <1>5, <1>7, <1>8 DEF BarInv

LEMMA Read64Step ==
    ASSUME BarInv, NEW o \in Nat, Read64(o)
    PROVE  BarInv'
<1> DEFINE x == Read32(mem, o + 4) * W + Read32(mem, o)
<1>1. /\ op = "none" /\ result' = [op |-> "wide", off |-> o, val |-> << x >>]
      /\ UNCHANGED << mem, callVars, before, kept >>
  BY DEF Read64
<1>2. CallTyped'
  BY <1>1 DEF BarInv, CallTyped, callVars
<1>3. ResultInv'
  BY <1>1 DEF ResultInv
<1>4. KeptInv'
  BY <1>1, SameMemory
<1> QED
  BY <1>1, <1>2, <1>3, <1>4 DEF BarInv, ReadInv, WriteTouchesOnlyItsWords, callVars

LEMMA Invariant == Spec => []BarInv
<1>1. Init => BarInv
  BY PreloadedAssumption
     DEF Init, BarInv, CallTyped, WriteTouchesOnlyItsWords, ReadInv, KeptInv,
         ResultInv, NoResult
<1>2. BarInv /\ [Next]_vars => BarInv'
  <2> SUFFICES ASSUME BarInv, [Next]_vars PROVE BarInv'
    OBVIOUS
  <2>1. ASSUME NEW o \in Offsets, NEW d \in Datas, Begin(o, "write", d, 0)
        PROVE  BarInv'
    BY <2>1, BeginStep, OffsetsAssumption, DatasAssumption
  <2>2. ASSUME NEW o \in Offsets, NEW n \in Sizes, Begin(o, "read", << >>, n)
        PROVE  BarInv'
    <3>1. << >> \in Seq(Bytes) /\ o \in Nat /\ n \in Nat
      BY OffsetsAssumption, ValuesAssumption
    <3> QED
      BY <2>2, <3>1, BeginStep
  <2>3. ASSUME NEW o \in Offsets, NEW v \in Values, Write64(o, v)
        PROVE  BarInv'
    BY <2>3, Write64Step, OffsetsAssumption, ValuesAssumption
  <2>4. ASSUME NEW o \in Offsets, Read64(o)
        PROVE  BarInv'
    BY <2>4, Read64Step, OffsetsAssumption
  <2>5. CASE UNCHANGED vars
    <3>1. UNCHANGED << mem, op, off, data, size, i, acc, result, before, kept >>
      BY <2>5 DEF vars
    <3>2. KeptInv' /\ ResultInv'
      BY <3>1, SameMemory
    <3> QED
      BY <3>1, <3>2 DEF BarInv, CallTyped, WriteTouchesOnlyItsWords, ReadInv, Holds
  <2> QED
    BY <2>1, <2>2, <2>3, <2>4, <2>5, WriteChunkStep, WriteEndStep, ReadChunkStep,
       ReadEndStep DEF Next
<1> QED
  BY <1>1, <1>2, PTL DEF Spec

-----------------------------------------------------------------------------
\* Bytes stay bytes, and 64 bits are all that a 64-bit reading ever has.
THEOREM TypeCorrect == Spec => []TypeOK
<1>1. ASSUME BarInv, result.op = "wide" PROVE result.val[1] \in 0 .. W * W - 1
  <2> DEFINE o == result.off
             q == o + 4
             lo == Read32(mem, o)
             hi == Read32(mem, q)
  <2>1. o \in Nat /\ q \in Nat /\ mem \in [Addrs -> Bytes]
    BY <1>1 DEF BarInv, ResultInv, CallTyped
  <2>2. result.val[1] = hi * W + lo
    BY <1>1 DEF BarInv, ResultInv
  <2> HIDE DEF o, q
  <2>3. lo \in 0 .. W - 1 /\ hi \in 0 .. W - 1
    BY <2>1, ReadType
  <2> HIDE DEF lo, hi
  <2>4. W \in Nat \ {0}
    BY BasePowers
  <2>5. hi * W + lo \in 0 .. W * W - 1
    BY <2>3, <2>4, Z3
  <2> QED
    BY <2>2, <2>5
<1>2. BarInv => TypeOK
  BY <1>1 DEF BarInv, CallTyped, KeptInv, ResultInv, TypeOK
<1> QED
  BY <1>2, Invariant, PTL

\* write_to_dram never touches a byte outside the words of its data, whatever
\* its offset, its size and the size of the array.
THEOREM WriteIsLocal == Spec => []WriteTouchesOnlyItsWords
<1>1. BarInv => WriteTouchesOnlyItsWords
  BY DEF BarInv
<1> QED
  BY <1>1, Invariant, PTL

LEMMA TwoWords ==
    ASSUME NEW v \in Nat
    PROVE  ((v \div W) % W) * W + (v % W) = v % (W * W)
<1> DEFINE q == v \div W
           r == v % W
           q2 == q \div W
           r2 == q % W
<1>1. W \in Nat \ {0}
  BY BasePowers
<1>2. q \in Nat /\ r \in 0 .. W - 1 /\ v = r + W * q
  BY <1>1, DivMod
<1> HIDE DEF q, r
<1>3. q2 \in Nat /\ r2 \in 0 .. W - 1 /\ q = r2 + W * q2
  BY <1>1, <1>2, DivMod
<1> HIDE DEF q2, r2
<1> DEFINE s == r2 * W + r
           B == W * W
<1>4. s \in Nat /\ s < B /\ B \in Nat
  BY <1>1, <1>2, <1>3, Z3
<1>5. v = s + B * q2
  BY <1>1, <1>2, <1>3, Z3
<1> HIDE DEF s, B
<1>6. v % B = s
  BY <1>3, <1>4, <1>5, DivUnique
<1> QED
  BY <1>6 DEF s, B, q, r, r2

\* What was written is read back, whatever the size of the array, the offset
\* and the data, as long as their words are inside the array.
THEOREM ReadsBack == Spec => []RoundTrip
<1>1. ASSUME BarInv, result.op = "dram", kept.op = "dram", result.off = kept.off,
             kept.off + 4 * ((Len(kept.val) + 3) \div 4) <= Size,
             NEW j \in 1 .. Len(kept.val), j <= Len(result.val)
      PROVE  result.val[j] = kept.val[j]
  <2>1. /\ kept.off \in Nat /\ kept.val \in Seq(Bytes) /\ result.val \in Seq(Bytes)
        /\ Holds(kept.off, kept.val) /\ Holds(kept.off, result.val)
    BY <1>1 DEF BarInv, KeptInv, ResultInv
  <2>2. j \in Nat /\ j \in 1 .. Len(result.val) /\ Len(kept.val) \in Nat
    BY <1>1, <2>1
  <2>4. Inside(kept.off, j)
    <3> DEFINE n == Len(kept.val)
               o == kept.off
    <3>1. n \in Nat /\ j \in 1 .. n /\ o \in Nat /\ o + 4 * ((n + 3) \div 4) <= Size
      BY <1>1, <2>1, <2>2
    <3> HIDE DEF n, o
    <3>2. o + 4 * ((j - 1) \div 4) + 4 <= Size
      BY <3>1
    <3> QED
      BY <3>2 DEF Inside, o
  <2> QED
    BY <1>1, <2>1, <2>2, <2>4 DEF Holds
<1>2. ASSUME BarInv, result.op = "wide", kept.op = "wide", result.off = kept.off,
             kept.off + 8 <= Size
      PROVE  result.val[1] = kept.val[1] % (W * W)
  <2>1. /\ kept.val[1] \in Nat
        /\ Read32(mem, kept.off) = kept.val[1] % W
        /\ Read32(mem, kept.off + 4) = (kept.val[1] \div W) % W
    BY <1>2 DEF BarInv, KeptInv, HoldsWide
  <2>2. result.val[1] = Read32(mem, kept.off + 4) * W + Read32(mem, kept.off)
    BY <1>2 DEF BarInv, ResultInv
  <2> QED
    BY <2>1, <2>2, TwoWords
<1>3. BarInv => RoundTrip
  BY <1>1, <1>2 DEF RoundTrip
<1> QED
  BY <1>3, Invariant, PTL
=============================================================================
