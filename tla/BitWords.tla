------------------------------ MODULE BitWords ------------------------------
(* Integers as the sets of their bit positions, so that words of 32 and 64  *)
(* bits fit: Python's &, << and >> on them, and the bytes of struct.pack.   *)
EXTENDS Naturals, Sequences

Bits(n) == {b \in 0 .. 30 : (n \div 2^b) % 2 = 1}
Bool(b) == IF b THEN {0} ELSE {}
AllOnes == 0 .. 31

Low(v, n) == v \cap 0 .. n - 1          \* v & (2^n - 1)
Shl(v, n) == {b + n : b \in v}
Shr(v, n) == {b - n : b \in {c \in v : c >= n}}

\* struct.pack raises if the value is too wide for n bytes.
CanPack(v, n) == v \subseteq 0 .. 8 * n - 1
Byte(v, i) == Low(Shr(v, 8 * i), 8)
LittleEndian(v, n) == [i \in 1 .. n |-> Byte(v, i - 1)]
BigEndian(v, n) == [i \in 1 .. n |-> Byte(v, n - i)]

FromLittle(s) == UNION {Shl(s[i], 8 * (i - 1)) : i \in 1 .. Len(s)}
FromBig(s) == UNION {Shl(s[i], 8 * (Len(s) - i)) : i \in 1 .. Len(s)}
=============================================================================
