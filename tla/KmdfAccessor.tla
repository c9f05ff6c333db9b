--------------------------- MODULE KmdfAccessor ---------------------------
(***************************************************************************)
(* KMDFBARAccessor of src/src/goya/pci.py as the client of the driver: the *)
(* requests its methods make (low halves of the control codes, the buffer  *)
(* sizes), and what its comment says of the pair.                          *)
(***************************************************************************)
EXTENDS GoyaBarDriver

CONSTANT Offsets    \* register offsets the device code passes

PyIOCTL_READ32 == 8192          \* 0x2000
PyIOCTL_WRITE32 == 24580        \* 0x6004
PyIOCTL_GET_BAR_INFO == 8200    \* 0x2008

Ioctl(code, in, out, off) ==
    [code |-> code, inLen |-> in, outLen |-> out, bar |-> 0, off |-> off]

Read32(off) == Ioctl(PyIOCTL_READ32, 8, 4, off)
Write32(off) == Ioctl(PyIOCTL_WRITE32, 12, 0, off)
GetBarInfoRequest == Ioctl(PyIOCTL_GET_BAR_INFO, 4, 256, 0)

AccessorRequests ==
    {Read32(off) : off \in Offsets} \cup {Write32(off) : off \in Offsets}
    \cup {GetBarInfoRequest}

\* Goya has BARs 0, 2 and 4; they can be placed in two ways.
Mem(start, len) == [type |-> "memory", start |-> start, len |-> len]
GoyaResources ==
    { << Mem(100, 8), Mem(200, 64), Mem(300, 64) >>,
      << Mem(400, 32), Mem(500, 64), Mem(600, 64) >> }

\* pci.py:254, "must match driver/goya_bar.h CTL_CODE definitions": the driver
\* knows every request of the accessor.
AccessorReachesDriver ==
    reply.req \in AccessorRequests => reply.status # "invalid_device_request"
=============================================================================
