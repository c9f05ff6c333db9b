--------------------------- MODULE CommandBuffer ---------------------------
(***************************************************************************)
(* CommandBuffer and the packet builders of src/src/goya/packets.py: calls *)
(* append packets of 8, 16 or 32 bytes to one byte array; a reader takes   *)
(* them off again by the format in the docstring at the top of the file,   *)
(* until a STOP.  The reader is not the card's command processor:          *)
(* docs/register-map.md:364-401 gives the packets other sizes and fields   *)
(* (lin_dma 24 bytes, wreg32 and fence 8, the opcode in bits 28:24 of a    *)
(* control word), and nothing in the repository sends a buffer to a card.  *)
(***************************************************************************)
EXTENDS BitWords

CONSTANTS
    RegOffsets,    \* register offsets
    WordValues,     \* of registers, and sizes of transfers
    DmaAddrs,   \* source and destination addresses
    Counts,     \* fence counts and identifiers
    MaxPackets  \* calls on one buffer

ASSUME MaxPacketsAssumption == MaxPackets \in Nat
ASSUME BufferAssumption ==
    /\ RegOffsets \subseteq Nat /\ Counts \subseteq Nat
    /\ WordValues \subseteq SUBSET Nat /\ DmaAddrs \subseteq SUBSET Nat

Opcodes ==
    [WREG_32 |-> {0}, FENCE |-> {3}, LIN_DMA |-> {0, 3}, NOP |-> {1, 3},
     STOP |-> {0, 1, 3}]

\* An argument of a builder and of CommandBuffer's method of the same name.
Packets ==
    [op : {"WREG_32"}, off : RegOffsets, val : WordValues]
    \cup [op : {"FENCE"}, dec : Counts, gate : Counts, id : Counts]
    \cup [op : {"LIN_DMA"}, src : DmaAddrs, dst : DmaAddrs, size : WordValues,
          dir : Counts]
    \cup [op : {"NOP", "STOP"}]

Zeros(n) == [i \in 1 .. n |-> {}]

\* _packet_header: the opcode in bits 63:56, the rest in the low word.
PacketHeader(p, low) == BigEndian(Shl(Opcodes[p.op], 56) \cup low, 8)

RegOffset(p) == Low(Shr(Bits(p.off), 2), 16)

\* Mutant: the gate value is not shifted behind the decrement.
FencePayloadUnshifted(p) ==
    Low(Bits(p.dec), 8) \cup Low(Bits(p.gate), 8)
    \cup Shl(Low(Bits(p.id), 2), 16)

FencePayload(p) ==
    Low(Bits(p.dec), 8) \cup Shl(Low(Bits(p.gate), 8), 8)
    \cup Shl(Low(Bits(p.id), 2), 16)

\* dma_en is always True in a buffer.
DmaControl(p) == {0} \cup Shl(Low(Bits(p.dir), 3), 1)

\* struct.pack raises on a value that does not fit its field.
Packable(p) ==
    /\ p.op = "WREG_32" => CanPack(p.val, 4)
    /\ p.op = "LIN_DMA" =>
          CanPack(p.src, 8) /\ CanPack(p.dst, 8) /\ CanPack(p.size, 4)

\* Mutant: the packet is not filled up to a multiple of eight bytes.
PadForgotten == << >>

Pad == Zeros(4)

Packet(p) ==
    CASE p.op = "WREG_32" ->
            PacketHeader(p, RegOffset(p)) \o LittleEndian(p.val, 4) \o Pad
      [] p.op = "FENCE" ->
            PacketHeader(p, {}) \o LittleEndian(FencePayload(p), 4) \o Pad
      [] p.op = "LIN_DMA" ->
            PacketHeader(p, DmaControl(p)) \o LittleEndian(p.src, 8)
            \o LittleEndian(p.dst, 8) \o LittleEndian(p.size, 4) \o Zeros(4)
      [] OTHER -> PacketHeader(p, {})

-----------------------------------------------------------------------------
VARIABLES
    buf,        \* CommandBuffer._buf
    appended,   \* history: the calls that returned
    calls,      \* calls so far
    at,         \* the byte the reader reads next
    fetched     \* the packets it has taken off

bufferVars == << buf, appended, calls, at, fetched >>

BufferInit ==
    /\ buf = << >>
    /\ appended = << >>
    /\ calls = 0
    /\ at = 1
    /\ fetched = << >>

\* Mutant: the header goes into the buffer before the body is packed.
LeftByFailure(p) == buf \o PacketHeader(p, {})

AfterFailure(p) == buf

\* wreg32, nop, fence, lin_dma, stop: the packet is complete before the buffer
\* is extended.
AppendPacket(p) ==
    /\ calls < MaxPackets
    /\ calls' = calls + 1
    /\ IF Packable(p)
       THEN buf' = buf \o Packet(p) /\ appended' = Append(appended, p)
       ELSE buf' = AfterFailure(p) /\ appended' = appended
    /\ UNCHANGED << at, fetched >>

-----------------------------------------------------------------------------
(***************************************************************************)
(* The reader of the format in the docstring of packets.py.                *)
(***************************************************************************)
PacketBytes ==
    [WREG_32 |-> 16, FENCE |-> 16, LIN_DMA |-> 32, NOP |-> 8, STOP |-> 8]

Part(from, n) == SubSeq(buf, at + from, at + from + n - 1)
HeaderAt == FromBig(Part(0, 8))
Operand(from, n) == FromLittle(Part(from, n))

\* What the reader makes of the bytes at its position.
Parsed(o) ==
    CASE o = "WREG_32" ->
            [op |-> o, reg |-> Low(HeaderAt, 16), val |-> Operand(8, 4)]
      [] o = "FENCE" ->
            [op |-> o, dec |-> Low(Operand(8, 4), 8),
             gate |-> Low(Shr(Operand(8, 4), 8), 8),
             id |-> Shr(Operand(8, 4), 16)]
      [] o = "LIN_DMA" ->
            [op |-> o, ctl |-> Low(HeaderAt, 32), src |-> Operand(8, 8),
             dst |-> Operand(16, 8), size |-> Operand(24, 4)]
      [] OTHER -> [op |-> o]

Stopped == fetched # << >> /\ fetched[Len(fetched)].op = "STOP"

\* A whole packet of opcode o is at the reader's position.
Recognized(o) ==
    /\ at + PacketBytes[o] - 1 <= Len(buf)
    /\ Shr(HeaderAt, 56) = Opcodes[o]

Fetch ==
    /\ ~Stopped
    /\ \E o \in DOMAIN Opcodes :
          /\ Recognized(o)
          /\ fetched' = Append(fetched, Parsed(o))
          /\ at' = at + PacketBytes[o]
    /\ UNCHANGED << buf, appended, calls >>

BufferNext == Fetch \/ \E p \in Packets : AppendPacket(p)

BufferSpec == BufferInit /\ [][BufferNext]_bufferVars

-----------------------------------------------------------------------------
\* The operands of a call cut to their fields.
Requested(p) ==
    CASE p.op = "WREG_32" ->
            [op |-> p.op, reg |-> Bits((p.off \div 4) % 65536), val |-> p.val]
      [] p.op = "FENCE" ->
            [op |-> p.op, dec |-> Bits(p.dec % 256),
             gate |-> Bits(p.gate % 256), id |-> Bits(p.id % 4)]
      [] p.op = "LIN_DMA" ->
            [op |-> p.op, ctl |-> Bits(1 + 2 * (p.dir % 8)), src |-> p.src,
             dst |-> p.dst, size |-> p.size]
      [] OTHER -> [op |-> p.op]

\* What the builders write is told apart again by the format packets.py
\* states for them: the reader takes off the packets the calls asked for, in
\* their order, each operand whole or cut to its field, with its own byte
\* order, and it never loses the packet boundaries, also after a call that
\* raised in struct.pack.
PacketsReadBack ==
    /\ Len(fetched) <= Len(appended)
    /\ \A i \in 1 .. Len(fetched) : fetched[i] = Requested(appended[i])
    /\ at <= Len(buf) => \E o \in DOMAIN Opcodes : Recognized(o)
=============================================================================
