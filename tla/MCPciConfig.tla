---------------------------- MODULE MCPciConfig ----------------------------
(* Machines for PciConfig: configurations with and without BARs, and        *)
(* registry values of up to two lists, cut at every cell.                   *)
EXTENDS PciConfigClaims

Des(t, lo, hi, n) == [type |-> t, start |-> << lo, hi >>, length |-> n]

m1 == Des(Memory, 1, 0, 2)
m2 == Des(Memory, 0, 1, 1)      \* above 4 GB
unset == Des(Memory, 0, 0, 3)
empty == Des(Memory, 2, 0, 0)
int == Des(Interrupt, 7, 0, 1)
port == Des(Port, 3, 0, 1)

Confs == {<< >>, << int, unset >>, << m1, int, m2 >>, << port, empty, m2, int >>}
Lists == {<< >>, << << int, empty >> >>, << << m1, int >>, << m2 >> >>,
          << << >>, << int, unset, m1 >> >>}
Cells(l) == 1 + 4 * Len(l) + 4 * Len(FlattenSeq(l))
Values == UNION {{[lists |-> l, cut |-> c] : c \in 0 .. Cells(l)} : l \in Lists}
MCMachines ==
    {[alloc |-> a, boot |-> b, BootConfig |-> v,
      AllocConfig |-> [lists |-> << << m1, int >> >>, cut |-> 13]] :
         a \in Confs, b \in Confs, v \in Values}
=============================================================================
