----------------------------- MODULE MMEHeader -----------------------------
(***************************************************************************)
(* MMEHeader of src/src/goya/regs.py: a builder of the MME_ARCH_HEADER     *)
(* word whose setters may be called in any order and any number of times.  *)
(***************************************************************************)
EXTENDS BitWords

CONSTANT FieldValues    \* arguments of the setters with several bits

ASSUME FieldValuesAssumption == FieldValues \subseteq SUBSET Nat

HeaderFields ==
    {"signal_mask", "signal_en", "trans_a", "lower_a", "accum_mask",
     "load_bias", "load_cin", "store_out", "advance_a", "advance_b",
     "ab_data_type", "cin_data_type", "cout_data_type"}

\* The bits a setter clears, how many bits of its argument it takes, and where
\* it puts them.  A flag is int(en) of a bool.
Mask ==
    [signal_mask |-> 0 .. 4, signal_en |-> {5}, trans_a |-> {6},
     lower_a |-> {7}, accum_mask |-> 8 .. 11, load_bias |-> {12},
     load_cin |-> {13}, store_out |-> {15}, advance_a |-> {17},
     advance_b |-> {18}, ab_data_type |-> 24 .. 25,
     cin_data_type |-> 26 .. 28, cout_data_type |-> 29 .. 31]

Width ==
    [signal_mask |-> 5, signal_en |-> 1, trans_a |-> 1, lower_a |-> 1,
     accum_mask |-> 4, load_bias |-> 1, load_cin |-> 1, store_out |-> 1,
     advance_a |-> 1, advance_b |-> 1, ab_data_type |-> 2,
     cin_data_type |-> 3, cout_data_type |-> 3]

Shift ==
    [signal_mask |-> 0, signal_en |-> 5, trans_a |-> 6, lower_a |-> 7,
     accum_mask |-> 8, load_bias |-> 12, load_cin |-> 13, store_out |-> 15,
     advance_a |-> 17, advance_b |-> 18, ab_data_type |-> 24,
     cin_data_type |-> 26, cout_data_type |-> 29]

Arguments(f) == IF Width[f] = 1 THEN {{}, {0}} ELSE FieldValues

Place(f, x) == Shl(Low(x, Width[f]), Shift[f])

\* Mutants: the argument is not cut to its field; the old value stays.
WithUncut(w, f, x) == (w \ Mask[f]) \cup Shl(x, Shift[f])
WithoutClear(w, f, x) == w \cup Place(f, x)

With(w, f, x) == (w \ Mask[f]) \cup Place(f, x)

-----------------------------------------------------------------------------
VARIABLES
    header,     \* MMEHeader._val
    set         \* history: the argument each setter was last called with

headerVars == << header, set >>

HeaderInit ==
    /\ header = {}
    /\ set = [f \in HeaderFields |-> {}]

Set(f, x) ==
    /\ header' = With(header, f, x)
    /\ set' = [set EXCEPT ![f] = x]

HeaderNext == \E f \in HeaderFields : \E x \in Arguments(f) : Set(f, x)

HeaderSpec == HeaderInit /\ [][HeaderNext]_headerVars

-----------------------------------------------------------------------------
\* The type invariant of the module: a header is a word of 32 bits.
HeaderTypeOK ==
    /\ header \subseteq AllOnes
    /\ set \in [HeaderFields -> SUBSET Nat]

\* However the setters were called, the word consists of each field's last
\* argument, cut to the field, and of nothing else: no setter reaches into
\* another field, leaves old bits behind or sets a reserved bit.
HeaderIsItsFields ==
    header = UNION {Place(f, set[f]) : f \in HeaderFields}
=============================================================================
