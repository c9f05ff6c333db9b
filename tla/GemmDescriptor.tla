--------------------------- MODULE GemmDescriptor ---------------------------
(***************************************************************************)
(* The words write_gemm_descriptor of src/src/goya/packets.py puts into    *)
(* the MME registers for a GEMMDescriptor: header, dimensions, ReLU bit    *)
(* and split addresses, with their widths.  Order and failures of the      *)
(* writes are in GoyaDevice; here a whole descriptor is written at once,   *)
(* over what an earlier one has left.                                      *)
(***************************************************************************)
EXTENDS MMEHeader

CONSTANT
    Descriptors     \* GEMMDescriptors: addresses and types as sets of bits,
                    \* dimensions as numbers, flags as Booleans

ASSUME DescriptorsAssumption ==
    Descriptors \subseteq
        [a_addr : SUBSET Nat, b_addr : SUBSET Nat, cout_addr : SUBSET Nat,
         cin_addr : SUBSET Nat, bias_addr : SUBSET Nat,
         m : Nat, n : Nat, k : Nat,
         dtype : SUBSET Nat, out_dtype : SUBSET Nat, transpose_a : BOOLEAN,
         load_cin : BOOLEAN, load_bias : BOOLEAN, signal_en : BOOLEAN,
         relu : BOOLEAN]

\* MMEHeader()....build(): the setters in the order they are called.
header_value(d) ==
    LET w1 == With({}, "signal_mask", {0})
        w2 == With(w1, "signal_en", Bool(d.signal_en))
        w3 == With(w2, "trans_a", Bool(d.transpose_a))
        w4 == With(w3, "store_out", {0})
        w5 == With(w4, "load_cin", Bool(d.load_cin))
        w6 == With(w5, "load_bias", Bool(d.load_bias))
        w7 == With(w6, "ab_data_type", d.dtype)
    IN  With(w7, "cout_data_type", d.out_dtype)

gemmlowp_zp_value(d) == IF d.relu THEN {30} ELSE {}

\* Mutant: M is not cut to its half of the word.
DimsOverlapping(d) == Bits(d.m) \cup Shl(Low(Bits(d.n), 16), 16)

associated_dims_0(d) == Low(Bits(d.m), 16) \cup Shl(Low(Bits(d.n), 16), 16)
associated_dims_1(d) == Low(Bits(d.k), 16)

\* A 64-bit address in a HIGH and a LOW register.
High(v) == Low(Shr(v, 32), 32)
LowWord(v) == Low(v, 32)

\* Mutant: the flag of one optional operand decides about the other.
WritesCinOtherFlag(d) == d.load_bias

WritesCin(d) == d.load_cin

Optional == {"CIN_HIGH", "CIN_LOW", "BIAS_HIGH", "BIAS_LOW"}

MmeRegs ==
    {"A_HIGH", "A_LOW", "B_HIGH", "B_LOW", "COUT_HIGH", "COUT_LOW",
     "KERNEL_SIZE_MINUS_1", "ASSOCIATED_DIMS_0", "ASSOCIATED_DIMS_1",
     "GEMMLOWP_ZP", "HEADER"} \cup Optional

\* The registers that are written, and what with.
Written(d) ==
    (MmeRegs \ Optional)
    \cup (IF WritesCin(d) THEN {"CIN_HIGH", "CIN_LOW"} ELSE {})
    \cup (IF d.load_bias THEN {"BIAS_HIGH", "BIAS_LOW"} ELSE {})

WordsFor(d) ==
    [A_HIGH |-> High(d.a_addr), A_LOW |-> LowWord(d.a_addr),
     B_HIGH |-> High(d.b_addr), B_LOW |-> LowWord(d.b_addr),
     COUT_HIGH |-> High(d.cout_addr), COUT_LOW |-> LowWord(d.cout_addr),
     CIN_HIGH |-> High(d.cin_addr), CIN_LOW |-> LowWord(d.cin_addr),
     BIAS_HIGH |-> High(d.bias_addr), BIAS_LOW |-> LowWord(d.bias_addr),
     KERNEL_SIZE_MINUS_1 |-> {},
     ASSOCIATED_DIMS_0 |-> associated_dims_0(d),
     ASSOCIATED_DIMS_1 |-> associated_dims_1(d),
     GEMMLOWP_ZP |-> gemmlowp_zp_value(d),
     HEADER |-> header_value(d)]

-----------------------------------------------------------------------------
VARIABLES
    words,      \* the MME registers
    wanted      \* history: the descriptor written last, << >> before the first

descriptorVars == << words, wanted >>

DescriptorInit == words = [r \in MmeRegs |-> {}] /\ wanted = << >>

WriteDescriptor(d) ==
    /\ words' = [r \in MmeRegs |-> IF r \in Written(d) THEN WordsFor(d)[r]
                                  ELSE words[r]]
    /\ wanted' = d

DescriptorNext == \E d \in Descriptors : WriteDescriptor(d)

DescriptorSpec == DescriptorInit /\ [][DescriptorNext]_descriptorVars

-----------------------------------------------------------------------------
\* What the MME makes of its registers, by the layout the docstrings give:
\* the optional addresses count only under their flags.
Field(f) == Low(Shr(words["HEADER"], Shift[f]), Width[f])
Flag(f) == Field(f) = {0}
AddressRead(high, low) == Shl(words[high], 32) \cup words[low]
IfFlag(f, high, low) == IF Flag(f) THEN AddressRead(high, low) ELSE {}

Decoded ==
    [a |-> AddressRead("A_HIGH", "A_LOW"),
     b |-> AddressRead("B_HIGH", "B_LOW"),
     cout |-> AddressRead("COUT_HIGH", "COUT_LOW"),
     cin |-> IfFlag("load_cin", "CIN_HIGH", "CIN_LOW"),
     bias |-> IfFlag("load_bias", "BIAS_HIGH", "BIAS_LOW"),
     m |-> Low(words["ASSOCIATED_DIMS_0"], 16),
     n |-> Shr(words["ASSOCIATED_DIMS_0"], 16),
     k |-> words["ASSOCIATED_DIMS_1"],
     types |-> << Field("ab_data_type"), Field("cout_data_type") >>,
     flags |-> << Flag("trans_a"), Flag("signal_en"), Flag("store_out"),
                  words["GEMMLOWP_ZP"] = {30} >>]

Truncated(d) ==
    [a |-> Low(d.a_addr, 64), b |-> Low(d.b_addr, 64),
     cout |-> Low(d.cout_addr, 64),
     cin |-> IF d.load_cin THEN Low(d.cin_addr, 64) ELSE {},
     bias |-> IF d.load_bias THEN Low(d.bias_addr, 64) ELSE {},
     m |-> Bits(d.m % 65536), n |-> Bits(d.n % 65536),
     k |-> Bits(d.k % 65536),
     types |-> << Low(d.dtype, 2), Low(d.out_dtype, 3) >>,
     flags |-> << d.transpose_a, d.signal_en, TRUE, d.relu >>]

\* The MME finds the descriptor it was given, whatever an earlier one has left
\* in the registers: each operand is cut to its field (M, N and K modulo 2^16)
\* and none reaches into another.
DescriptorArrives == wanted # << >> => Decoded = Truncated(wanted)

\* The type invariant of the module: registers hold words of 32 bits.
WordsOK == words \in [MmeRegs -> SUBSET AllOnes]
=============================================================================
