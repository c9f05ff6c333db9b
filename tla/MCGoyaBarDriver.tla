-------------------------- MODULE MCGoyaBarDriver --------------------------
(* A small instance of GoyaBarDriver: 3 entries in Bar, 4 words of BAR0     *)
(* mapped at most, a card with BARs 0, 2 and 4 that can be placed in two    *)
(* ways, once with a fourth memory range and an interrupt in its list, and  *)
(* a list of one range, with which it starts, and of none, with which it    *)
(* does not.                                                                *)
EXTENDS GoyaBarDriver

Mem(start, len) == [type |-> "memory", start |-> start, len |-> len]
Interrupt == [type |-> "other", start |-> 0, len |-> 0]

Small == << Mem(100, 8), Mem(200, 64), Mem(300, 64) >>
Moved == << Interrupt, Mem(400, 32), Mem(500, 64), Mem(600, 64),
            Mem(700, 8) >>
Bare == << Interrupt >>
Fewer == << Mem(800, 16) >>
MCResources == {Small, Moved, Fewer, Bare}

Request(code, in, out, b, off) ==
    [code |-> code, inLen |-> in, outLen |-> out, bar |-> b, off |-> off]
MCRequests ==
       {Request(c, 12, 4, b, off) : c \in {IOCTL_READ32, IOCTL_WRITE32},
                                    b \in {0, 2, 3}, off \in {0, 4, 5, 12, 13}}
  \cup {Request(c, 4, 4, 0, 0) :
            c \in {IOCTL_READ32, IOCTL_WRITE32, IOCTL_GET_BAR_INFO}}
  \cup {Request(IOCTL_GET_BAR_INFO, 4, 256, 0, 0), Request(7, 12, 4, 0, 0)}
=============================================================================
