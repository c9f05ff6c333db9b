------------------------- MODULE GoyaDeviceClaims -------------------------
(* What comments of the repository say of GoyaDevice and the code does not  *)
(* do.                                                                      *)
EXTENDS GoyaDevice

\* init.py:199, "Reset MME and DMA engines": when shutdown() has reset the
\* card no engine runs.  The code writes no register of a DMA channel, so a
\* direct transfer given up at its timeout goes on.
ShutdownStopsEngines ==
    pc = "idle" /\ result.op = "shutdown" /\ result.out = "ok"
        => \A e \in Engines : ~busy[e]

\* packets.py:265 and :268, "Execute a DMA transfer" and "Returns True on
\* success": a transfer that returns normally is the one that was asked for.
\* The code starts a channel without a look at STS0, and takes the end of a
\* job given up by an earlier call for its own, on a card that ignores the
\* commit of a channel at work.
SuccessIsOwnTransfer ==
    pc = "idle" /\ result.out = "ok" /\ result.op = "dma"
        => Finished(result.eng, result.arg)
=============================================================================
