------------------------------- MODULE Probe -------------------------------
(***************************************************************************)
(* probe_bar of src/src/goya/probe.py: the identifier and, for a Goya, a   *)
(* row of status registers, read one after the other while the MME works   *)
(* and the link may be lost.  A lost link answers every read with ones.    *)
(***************************************************************************)
EXTENDS BitWords

\* Bits of MME_ARCH_STATUS.
Ports == 0 .. 6     \* A, B, Cin, Cout, TE, LD, ST busy
Empties == 7 .. 10  \* score buffers A, B, Cin, Cout empty
SmIdle == 11

\* Mutants of mme_is_idle: the busy bits, or SM_IDLE alone.
IdleBySyncManager(status) == SmIdle \in status
IdleByPorts(status) == Low(status, 7) = {}

mme_is_idle(status) == Low(status, 7) = {} /\ SmIdle \in status

VARIABLES
    link,       \* the link to the card is up
    mme,        \* what MME_ARCH_STATUS holds
    probePc,    \* the next register to read
    info,       \* the report
    restThen    \* history: the link was up, no port busy and the sync
                \* manager idle, when the status was read

probeVars == << link, mme, probePc, info, restThen >>

NoInfo == [is_goya |-> FALSE, idle |-> FALSE, errors |-> FALSE]

ProbeInit ==
    /\ link = TRUE
    /\ mme = Empties \cup {SmIdle}
    /\ probePc = "vid_did"
    /\ info = NoInfo
    /\ restThen = FALSE

\* The card answers v, a lost link all ones.
Answer(v) == IF link THEN v ELSE AllOnes

VendorDevice == Bits(7587) \cup Shl(Bits(1), 16)      \* 0x1DA3, 0x0001

IsGoya(v) == Low(v, 16) = Bits(7587) /\ Shr(v, 16) = Bits(1)

ReadId ==
    /\ probePc = "vid_did"
    /\ info' = [info EXCEPT !.is_goya = IsGoya(Answer(VendorDevice))]
    /\ probePc' = IF info'.is_goya THEN "status" ELSE "done"
    /\ UNCHANGED << link, mme, restThen >>

ReadMmeStatus ==
    /\ probePc = "status"
    /\ info' = [info EXCEPT !.idle = mme_is_idle(Answer(mme))]
    /\ restThen' = (link /\ mme \cap Ports = {} /\ SmIdle \in mme)
    /\ probePc' = "errors"
    /\ UNCHANGED << link, mme >>

\* REI and SEI status, then the queue manager and channel 0: read for display.
ReadErrors ==
    /\ probePc = "errors"
    /\ info' = [info EXCEPT !.errors = (Answer({}) # {})]
    /\ probePc' = "done"
    /\ UNCHANGED << link, mme, restThen >>

ProbeAgain ==
    /\ probePc = "done"
    /\ probePc' = "vid_did"
    /\ info' = NoInfo
    /\ restThen' = FALSE
    /\ UNCHANGED << link, mme >>

\* External: ports start and stop, buffers fill and empty, the sync manager
\* works and rests, each of them on its own.
MmeWorks ==
    /\ \E b \in Ports \cup Empties \cup {SmIdle} :
          mme' = mme \cup {b} \/ mme' = mme \ {b}
    /\ UNCHANGED << link, probePc, info, restThen >>

LinkLost ==
    /\ link
    /\ link' = FALSE
    /\ UNCHANGED << mme, probePc, info, restThen >>

ProbeNext ==
    ReadId \/ ReadMmeStatus \/ ReadErrors \/ ProbeAgain \/ MmeWorks \/ LinkLost

ProbeSpec == ProbeInit /\ [][ProbeNext]_probeVars

-----------------------------------------------------------------------------
\* The report calls the MME idle if and only if the card was a live Goya with
\* no port busy and the sync manager idle at the reading of its status: the
\* ones a link lost after the identifier was read answers with do not pass for
\* an idle MME, and no other bit of the status hides one.  This is the
\* condition of docs/register-map.md:505 and docs/linux-driver-notes.md:44;
\* line 172 of the former asks for empty score buffers as well.
IdleMeansPortsAndSyncRest == info.idle <=> info.is_goya /\ restThen
=============================================================================
