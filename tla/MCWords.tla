------------------------------ MODULE MCWords ------------------------------
(* Where values become words and bytes, for TLC: the builders of words and  *)
(* packets, the reader of status words, and the byte array (here of bytes   *)
(* with two values, and of 9 of them: its end is no word boundary).  They   *)
(* share no state: a behaviour exercises one of them.                       *)
EXTENDS GemmDescriptor, CommandBuffer, Probe, BarMemory, FiniteSets

CONSTANT MaxFields  \* fields of a header that are not zero at a time

AllInit ==
    HeaderInit /\ DescriptorInit /\ BufferInit /\ ProbeInit /\ Init

AllNext ==
    \/ /\ DescriptorInit /\ BufferInit /\ ProbeInit /\ Init
       /\ HeaderNext
       /\ Cardinality({f \in HeaderFields : set'[f] # {}}) <= MaxFields
       /\ UNCHANGED << descriptorVars, bufferVars, probeVars, vars >>
    \/ /\ HeaderInit /\ BufferInit /\ ProbeInit /\ Init
       /\ DescriptorNext
       /\ UNCHANGED << headerVars, bufferVars, probeVars, vars >>
    \/ /\ HeaderInit /\ DescriptorInit /\ ProbeInit /\ Init
       /\ BufferNext
       /\ UNCHANGED << headerVars, descriptorVars, probeVars, vars >>
    \/ /\ HeaderInit /\ DescriptorInit /\ BufferInit /\ Init
       /\ ProbeNext
       /\ UNCHANGED << headerVars, descriptorVars, bufferVars, vars >>
    \/ /\ HeaderInit /\ DescriptorInit /\ BufferInit /\ ProbeInit
       /\ Next
       /\ UNCHANGED << headerVars, descriptorVars, bufferVars, probeVars >>

AllSpec ==
    AllInit /\ [][AllNext]_<< headerVars, descriptorVars, bufferVars,
                              probeVars, vars >>

\* The type invariant of the run: registers and headers hold words of 32 bits,
\* buffers whole packets of bytes, the array bytes.
WordsTypeOK ==
    /\ HeaderTypeOK
    /\ WordsOK
    /\ \A b \in 1 .. Len(buf) : buf[b] \subseteq 0 .. 7
    /\ Len(buf) % 8 = 0
    /\ TypeOK

\* Arguments on both sides of the widths of their fields.
MCFieldValues == {{}, {0}, {1, 4}, 0 .. 5}

MCAddrs == {{}, {3, 31, 32, 64}}
MCDims == {2, 65535, 65537}
MCDataTypes == {{}, {0, 1}, {1, 2, 3}}

Plain ==
    [a_addr |-> {4, 40}, b_addr |-> {5}, cout_addr |-> {33, 63},
     cin_addr |-> {}, bias_addr |-> {}, m |-> 64, n |-> 3, k |-> 16,
     dtype |-> {}, out_dtype |-> {}, transpose_a |-> FALSE,
     load_cin |-> FALSE, load_bias |-> FALSE, signal_en |-> TRUE,
     relu |-> FALSE]

\* One group of parameters varies at a time.
MCDescriptors ==
    {[Plain EXCEPT !.m = x, !.n = y, !.k = z] :
        x \in MCDims, y \in MCDims, z \in MCDims}
    \cup {[Plain EXCEPT !.dtype = x, !.out_dtype = y, !.relu = z] :
        x \in MCDataTypes, y \in MCDataTypes, z \in BOOLEAN}
    \cup {[Plain EXCEPT !.load_cin = x, !.load_bias = y, !.cin_addr = v,
                        !.bias_addr = w, !.transpose_a = z, !.signal_en = z] :
        x \in BOOLEAN, y \in BOOLEAN, z \in BOOLEAN,
        v \in MCAddrs, w \in MCAddrs}

MCRegOffsets == {16, 851968, 851972, 4259852}  \* 0x10, 0xD0000, 0xD0004, 0x41000C
MCWordValues == {{0, 31}, {7, 8, 16}, {32}}
MCDmaAddrs == {{0, 33, 63}, {12}}
MCCounts == {7, 258}

MCDatas == {<< >>, <<1>>, <<0, 1>>, <<1, 0, 0, 1>>, <<1, 1, 0, 1, 1>>,
            <<0, 1, 1, 0, 1, 0, 0, 1>>}
MCPreloaded == [a \in Addrs |-> IF a \in {0, 8} THEN 1 ELSE 0]
=============================================================================
