----------------------------- MODULE BarMemory -----------------------------
(***************************************************************************)
(* SimBARAccessor of src/src/goya/pci.py, the byte array behind the        *)
(* simulated BAR, with the 64-bit accesses of BARAccessor, and the loops   *)
(* of write_to_dram and read_from_dram of device.py over its words, on an  *)
(* initialized device; the loop of write_firmware_to_bar is line for line  *)
(* that of write_to_dram.  A byte has Base values instead of 256, and a    *)
(* word is four of them, little-endian.                                    *)
(***************************************************************************)
EXTENDS Naturals, Sequences

CONSTANTS
    Base,           \* values of a byte
    Size,           \* bytes of the array
    Offsets,        \* offsets the clients use
    Datas,          \* byte strings for write_to_dram
    Sizes,          \* sizes for read_from_dram
    Values,         \* values for write64
    Preloaded       \* what the array holds at first: the identifier and the
                    \* MME status word among zeros

Bytes == 0 .. Base - 1
Addrs == 0 .. Size - 1

ASSUME BaseAssumption == Base \in Nat \ {0, 1}
ASSUME SizeAssumption == Size \in Nat
ASSUME OffsetsAssumption == Offsets \subseteq Nat
ASSUME DatasAssumption == \A d \in Datas : d \in Seq(Bytes)
ASSUME ValuesAssumption == Values \subseteq Nat /\ Sizes \subseteq Nat
ASSUME PreloadedAssumption == Preloaded \in [Addrs -> Bytes]

W == Base * Base * Base * Base      \* values of a word

-----------------------------------------------------------------------------
VARIABLES
    mem,
    op, off, data, size, i, acc,    \* the call in progress
    result,         \* what the last reading call returned, while it matters
    before,         \* history: mem when the call in progress began
    kept            \* history: the last value written, until another write

vars == << mem, op, off, data, size, i, acc, result, before, kept >>
callVars == << op, off, data, size, i, acc >>

NoResult == [op |-> "none", off |-> 0, val |-> << >>]

Init ==
    /\ mem = Preloaded
    /\ op = "none" /\ off = 0 /\ data = << >> /\ size = 0 /\ i = 0
    /\ acc = << >>
    /\ result = NoResult
    /\ before = Preloaded
    /\ kept = NoResult

-----------------------------------------------------------------------------
Pack(v) == << v % Base, (v \div Base) % Base, (v \div (Base * Base)) % Base,
              (v \div (Base * Base * Base)) % Base >>

\* Mutant: big-endian.
UnpackBigEndian(b) == b[4] + Base * (b[3] + Base * (b[2] + Base * b[1]))

Unpack(b) == b[1] + Base * (b[2] + Base * (b[3] + Base * b[4]))

\* Mutant: the last word of the array is refused.
FitsOneLess(o) == o + 4 < Size

Fits(o) == o + 4 <= Size

\* write32: outside the array it does nothing.
Write32(m, o, v) ==
    IF Fits(o)
    THEN [a \in Addrs |-> IF a \in o .. o + 3 THEN Pack(v % W)[a - o + 1]
                          ELSE m[a]]
    ELSE m

\* Mutant: the all-ones word has one bit more.
Read32Wider(m, o) == IF o + 4 > Size THEN 2 * W - 1
                     ELSE Unpack([j \in 1 .. 4 |-> m[o + j - 1]])

\* read32: outside the array it is all ones.
Read32(m, o) == IF o + 4 > Size THEN W - 1
                ELSE Unpack([j \in 1 .. 4 |-> m[o + j - 1]])

\* Mutant: a short chunk is padded in front.
ChunkPaddedInFront(d, n) ==
    LET here == IF Len(d) - n < 4 THEN Len(d) - n ELSE 4
    IN  [j \in 1 .. 4 |-> IF j > 4 - here THEN d[n + j - (4 - here)] ELSE 0]

\* data[i:i + 4], padded behind with zeros.
Chunk(d, n) == [j \in 1 .. 4 |-> IF n + j <= Len(d) THEN d[n + j] ELSE 0]

-----------------------------------------------------------------------------
Begin(o, l, d, n) ==
    /\ op = "none"
    /\ op' = l /\ off' = o /\ data' = d /\ size' = n /\ i' = 0 /\ acc' = << >>
    /\ before' = mem
    /\ result' = NoResult
    /\ kept' = IF l = "write" THEN NoResult ELSE kept
    /\ UNCHANGED mem

End ==
    /\ UNCHANGED mem
    /\ op' = "none" /\ off' = 0 /\ data' = << >> /\ size' = 0 /\ i' = 0
    /\ acc' = << >>
    /\ before' = mem

WriteChunk ==
    /\ op = "write"
    /\ i < Len(data)
    /\ mem' = Write32(mem, off + i, Unpack(Chunk(data, i)))
    /\ i' = i + 4
    /\ UNCHANGED << op, off, data, size, acc, result, before, kept >>

WriteEnd ==
    /\ op = "write"
    /\ i >= Len(data)
    /\ kept' = [op |-> "dram", off |-> off, val |-> data]
    /\ End
    /\ UNCHANGED result

ReadChunk ==
    /\ op = "read"
    /\ i < size
    /\ acc' = acc \o Pack(Read32(mem, off + i))
    /\ i' = i + 4
    /\ UNCHANGED << mem, op, off, data, size, result, before, kept >>

ReadEnd ==
    /\ op = "read"
    /\ i >= size
    /\ result' = [op |-> "dram", off |-> off, val |-> SubSeq(acc, 1, size)]
    /\ End
    /\ UNCHANGED kept

Write64(o, v) ==
    /\ op = "none"
    /\ mem' = Write32(Write32(mem, o, v % W), o + 4, (v \div W) % W)
    /\ before' = mem'
    /\ kept' = [op |-> "wide", off |-> o, val |-> << v >>]
    /\ result' = NoResult
    /\ UNCHANGED callVars

Read64(o) ==
    /\ op = "none"
    /\ result' = [op |-> "wide", off |-> o,
                  val |-> << Read32(mem, o + 4) * W + Read32(mem, o) >>]
    /\ UNCHANGED << mem, callVars, before, kept >>

Next ==
    \/ \E o \in Offsets, d \in Datas : Begin(o, "write", d, 0)
    \/ \E o \in Offsets, n \in Sizes : Begin(o, "read", << >>, n)
    \/ WriteChunk \/ WriteEnd \/ ReadChunk \/ ReadEnd
    \/ \E o \in Offsets, v \in Values : Write64(o, v)
    \/ \E o \in Offsets : Read64(o)

Spec == Init /\ [][Next]_vars

-----------------------------------------------------------------------------
\* The type invariant of the module: a byte never holds more than a byte, and
\* a 64-bit reading has 64 bits wherever it is made.
TypeOK ==
    /\ mem \in [Addrs -> Bytes] /\ before \in [Addrs -> Bytes]
    /\ op \in {"none", "write", "read"}
    /\ off \in Nat /\ size \in Nat /\ i \in Nat
    /\ data \in Seq(Bytes) /\ acc \in Seq(Bytes)
    /\ result.op = "dram" => result.val \in Seq(Bytes)
    /\ result.op = "wide" => result.val[1] \in 0 .. W * W - 1
    /\ kept.op \in {"none", "dram", "wide"}

\* m with the first n bytes of d stored at o, by whole words: the rest of the
\* last word is zeroed, and a word that is not all inside is left out.
Stored(m, o, d, n) ==
    [a \in Addrs |->
        IF a >= o /\ a < o + 4 * ((n + 3) \div 4)
           /\ o + 4 * ((a - o) \div 4) + 4 <= Size
        THEN IF a - o < Len(d) THEN d[a - o + 1] ELSE 0
        ELSE m[a]]

\* At every moment of write_to_dram the array is what it was, with the bytes
\* written so far in place and no other byte touched but the padding.
WriteTouchesOnlyItsWords ==
    op = "write" => mem = Stored(before, off, data, i)

\* What was written is read back, also from the last word of the array and for
\* sizes that are no multiple of four, as long as all its words are inside and
\* nothing else was written.
RoundTrip ==
    /\ result.op = "dram" /\ kept.op = "dram" /\ result.off = kept.off
       /\ kept.off + 4 * ((Len(kept.val) + 3) \div 4) <= Size
       => \A j \in 1 .. Len(kept.val) :
              j <= Len(result.val) => result.val[j] = kept.val[j]
    /\ result.op = "wide" /\ kept.op = "wide" /\ result.off = kept.off
       /\ kept.off + 8 <= Size
       => result.val[1] = kept.val[1] % (W * W)
=============================================================================
