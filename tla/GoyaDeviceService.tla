------------------------- MODULE GoyaDeviceService -------------------------
(* GoyaDevice implements DeviceService: operand registers written one by    *)
(* one, started, polled and abandoned amount to whole jobs handed over once.*)
EXTENDS GoyaDevice

\* The call as its caller sees it: only work has an engine and a job.
Work(o, e, a) == IF o \in {"dma", "gemm"} THEN << e, a >> ELSE << >>

\* The job an engine carries out: the operand set its registers agree on.
LastField(e) == IF e = MME THEN "HEADER" ELSE "TSIZE"
Carried(e) ==
    LET a == job[e][LastField(e)]
    IN  IF \A f \in Uses(e, a) : job[e][f] = a THEN a ELSE "mixed"

Service == INSTANCE DeviceService WITH
    ResetEngine <- MME,
    Jobs <- Transfers \cup Gemms,
    NoJob <- NoArg,
    ready <- initialized,
    call <- [op |-> op, work |-> Work(op, eng, arg)],
    started <- (pc = "poll"),
    doing <- [e \in Engines |-> IF busy[e] THEN Carried(e) ELSE NoArg],
    givenUp <- abandoned,
    answer <- [op |-> result.op, out |-> result.out,
               work |-> Work(result.op, result.eng, result.arg)]

\* The device object, register by register and with accesses that fail at any
\* of them, keeps the promise of DeviceService: a call starts one whole job of
\* its own, at most once, success comes after its end, and every engine left
\* running is known to have been given up.
ServiceSpec == Service!Spec
=============================================================================
