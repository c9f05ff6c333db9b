--------------------------- MODULE FirmwareBoot ---------------------------
(***************************************************************************)
(* src/src/goya/firmware.py: loading a FIT image into the memory of the    *)
(* card and booting its ARM CPU through three mailbox registers.  The one  *)
(* accessor of the call reaches both, as the simulated BAR does.           *)
(*                                                                         *)
(* The CPU is external.  Its stages follow the comments of regs.py: it     *)
(* comes up in preboot, waits for an image, fetches it word by word once   *)
(* the command register says FIT_RDY, and brings the DRAM up at the end;   *)
(* it may report an error at any stage, and then stays as it is.  The link *)
(* may be lost for good: reads then give all ones and writes go nowhere.   *)
(***************************************************************************)
EXTENDS Naturals, Sequences

CONSTANTS
    Images,         \* firmware files
    Junk,           \* what DRAM holds before anything is written
    NumWords,       \* words of an image
    MaxTicks        \* polls that fit before the deadline

ASSUME JunkAssumption == Junk \notin Images
ASSUME NumWordsAssumption == NumWords \in Nat \ {0}
ASSUME MaxTicksAssumption == MaxTicks \in Nat

Words == 1 .. NumWords

\* CPU_BOOT_STATUS_* of regs.py, those the stages below go through.
NA == 0
IN_WFE == 1
DRAM_RDY == 2
SRAM_AVAIL == 3
IN_BTL == 4
IN_PREBOOT == 5
IN_SPL == 6
IN_UBOOT == 7
IN_FW_INIT == 8
WAITING_FOR_BOOT_FIT == 10
Statuses == {NA, IN_WFE, DRAM_RDY, SRAM_AVAIL, IN_BTL, IN_PREBOOT, IN_SPL,
             IN_UBOOT, IN_FW_INIT, WAITING_FOR_BOOT_FIT}

\* What a lost link reads as: a status above every stage, an error, no command.
AllOnes == [status |-> 255, error |-> TRUE, cmd |-> "all ones"]

-----------------------------------------------------------------------------
VARIABLES
    pc,
    image,          \* the file of the call in progress
    w,              \* next word of the image to write
    ticks,          \* polls left before the deadline
    reader,         \* who called read_cpu_status: "check", "poll", "final"
    nread,          \* mailbox registers read so far
    snap,           \* what they held
    result,         \* outcome of the last call
    link,           \* the link to the card is up
    mail,           \* the mailbox: boot status, error flag, command
    dram,           \* the words at FW_LOAD_DRAM_OFFSET
    fetched,        \* the words the CPU has taken from there
    dramUp,         \* the DRAM controller has been brought up
    errorThen,      \* history: error flag set, or link lost, when the status
                    \* was read
    overwritten     \* history: words of the image the CPU is taking, or is
                    \* told to take, have been replaced by those of another

callVars == << pc, image, w, ticks, reader, nread, snap, errorThen >>
cpuVars == << link, mail, dram, fetched, dramUp, overwritten >>
vars == << pc, image, w, ticks, reader, nread, snap, result, link, mail,
           dram, fetched, dramUp, errorThen, overwritten >>

NoSnap == [status |-> NA, error |-> FALSE, cmd |-> "none"]
NoResult == [out |-> "none", reader |-> "none", snap |-> NoSnap,
             errorThen |-> FALSE]

Rest ==
    /\ pc = "idle" /\ image = Junk /\ w = 1 /\ ticks = 0
    /\ reader = "none" /\ nread = 0 /\ snap = NoSnap /\ errorThen = FALSE

Init ==
    /\ Rest
    /\ result = NoResult
    /\ link = TRUE
    /\ mail = NoSnap
    /\ dram = [j \in Words |-> Junk]
    /\ fetched = << >>
    /\ dramUp = FALSE
    /\ overwritten = FALSE

-----------------------------------------------------------------------------
Return(out, s, e) ==
    /\ result' = [out |-> out, reader |-> reader, snap |-> s, errorThen |-> e]
    /\ pc' = "idle" /\ image' = Junk /\ w' = 1 /\ ticks' = 0
    /\ reader' = "none" /\ nread' = 0 /\ snap' = NoSnap /\ errorThen' = FALSE

\* read_cpu_status is over and its caller goes on at l.
GoOnAt(l) ==
    /\ pc' = l
    /\ reader' = "none" /\ nread' = 0 /\ snap' = NoSnap /\ errorThen' = FALSE
    /\ UNCHANGED << image, w, ticks, result >>

\* read_cpu_status(bar) on behalf of r.
ReadStatus(r) ==
    /\ pc' = "read"
    /\ reader' = r
    /\ nread' = 0

\* load_and_boot_firmware(bar, path, timeout): step 1 looks at the CPU.
LoadAndBoot(f, t) ==
    /\ pc = "idle"
    /\ image' = f
    /\ ticks' = t
    /\ ReadStatus("check")
    /\ result' = NoResult
    /\ UNCHANGED << w, snap, cpuVars, errorThen >>

\* Mutant: the error register is read before the status.
ReadOrderSwapped == << "error", "status", "cmd" >>

\* The registers read_cpu_status reads, in order.
ReadOrder == << "status", "error", "cmd" >>

\* The tests of one iteration of poll_cpu_boot, in their order.
PollVerdict(s) ==
    IF s.error THEN "error" ELSE IF s.status >= DRAM_RDY THEN "ok" ELSE "again"

\* What the caller of read_cpu_status does with the three values.
UseStatus(s, e) ==
    \/ /\ reader = "check"
       /\ IF s.status >= DRAM_RDY THEN Return("ok", s, e) ELSE GoOnAt("file")
    \/ /\ reader = "poll"
       /\ IF PollVerdict(s) = "again"
          THEN GoOnAt("sleep")
          ELSE Return(PollVerdict(s), s, e)
    \/ /\ reader = "final"
       /\ Return("timeout", s, e)

\* What the mailbox registers read as.
Reads == IF link THEN mail ELSE AllOnes

\* One register read; the third one is followed by what the reader does next.
ReadRegister ==
    /\ pc = "read"
    /\ LET field == ReadOrder[nread + 1]
           s == [snap EXCEPT ![field] = Reads[field]]
           e == IF field = "status" THEN mail.error \/ ~link ELSE errorThen
       IN  \/ /\ nread < 2
              /\ nread' = nread + 1
              /\ snap' = s
              /\ errorThen' = e
              /\ UNCHANGED << pc, image, w, ticks, reader, result >>
           \/ nread = 2 /\ UseStatus(s, e)
    /\ UNCHANGED cpuVars

\* load_firmware_file: the file is there and of a legal size, or it raises.
LoadFile ==
    /\ pc = "file"
    /\ GoOnAt("write") \/ Return("error", snap, errorThen)
    /\ UNCHANGED cpuVars

\* Mutants: the loop stops one word short; it writes one chunk too many.
LastWordShort == NumWords - 1
LastWordExtra == NumWords + 1

LastWord == NumWords

\* The CPU has words to take: it has been told of an image, or is in the middle
\* of one.
Awaited ==
    Len(fetched) < NumWords /\ (mail.cmd = "FIT_RDY" \/ fetched # << >>)

\* One word of write_firmware_to_bar; the last one leads to the signal.
WriteWord ==
    /\ pc = "write"
    /\ dram' = IF link THEN [dram EXCEPT ![w] = image] ELSE dram
    /\ overwritten' = (overwritten \/ (Awaited /\ dram' # dram))
    /\ IF w < LastWord
       THEN w' = w + 1 /\ pc' = pc
       ELSE w' = 1 /\ pc' = "signal"
    /\ UNCHANGED << image, ticks, reader, nread, snap, result, link, mail,
                    fetched, dramUp, errorThen >>

\* A write of the command register.
Command(c) == mail' = IF link THEN [mail EXCEPT !.cmd = c] ELSE mail

\* signal_fit_ready
SignalFitReady ==
    /\ pc = "signal"
    /\ Command("FIT_RDY")
    /\ pc' = "loop"
    /\ UNCHANGED << image, w, ticks, reader, nread, snap, result, link, dram,
                    fetched, dramUp, errorThen, overwritten >>

\* The loop of poll_cpu_boot: before the deadline a poll, after it one last
\* reading for the message of the exception.
PollLoop ==
    /\ pc = "loop"
    /\ ReadStatus(IF ticks > 0 THEN "poll" ELSE "final")
    /\ UNCHANGED << image, w, ticks, snap, result, cpuVars, errorThen >>

\* Mutant: the deadline is computed anew in each iteration.
NextTickForever(t) == t

NextTick(t) == t - 1

Sleep ==
    /\ pc = "sleep"
    /\ ticks' = NextTick(ticks)
    /\ pc' = "loop"
    /\ UNCHANGED << image, w, reader, nread, snap, result, cpuVars, errorThen >>

\* halt_cpu
HaltCpu ==
    /\ pc = "idle"
    /\ Command("GOTO_WFE")
    /\ result' = NoResult
    /\ UNCHANGED << callVars, link, dram, fetched, dramUp, overwritten >>

\* An access raises or the process dies: the card keeps what it has.
Abort ==
    /\ pc # "idle"
    /\ Return("error", snap, errorThen)
    /\ UNCHANGED cpuVars

-----------------------------------------------------------------------------
(***************************************************************************)
(* The CPU.                                                                *)
(***************************************************************************)
StageAfter ==
    [s \in Statuses |->
        CASE s = NA         -> {IN_PREBOOT, IN_WFE}
          [] s = IN_PREBOOT -> {WAITING_FOR_BOOT_FIT, IN_WFE}
          [] s = IN_BTL     -> {IN_SPL}
          [] s = IN_SPL     -> {IN_UBOOT}
          [] s = IN_UBOOT   -> {IN_FW_INIT}
          [] s = IN_FW_INIT -> {DRAM_RDY}
          [] s = DRAM_RDY   -> {SRAM_AVAIL}
          [] OTHER          -> {}]

CpuStage ==
    /\ ~mail.error
    /\ \E s \in StageAfter[mail.status] :
          /\ mail' = [mail EXCEPT !.status = s]
          /\ dramUp' = (dramUp \/ s = DRAM_RDY)
    /\ UNCHANGED << dram, fetched, overwritten >>

CpuFetch ==
    /\ ~mail.error
    /\ mail.status \in {IN_WFE, WAITING_FOR_BOOT_FIT}
    /\ mail.cmd = "FIT_RDY"
    /\ Len(fetched) < NumWords
    /\ fetched' = Append(fetched, dram[Len(fetched) + 1])
    /\ mail' = IF Len(fetched') = NumWords
               THEN [mail EXCEPT !.status = IN_BTL] ELSE mail
    /\ UNCHANGED << dram, dramUp, overwritten >>

\* GOTO_WFE sends a CPU that has booted back to wait for a new image.
CpuHalt ==
    /\ ~mail.error
    /\ mail.cmd = "GOTO_WFE"
    /\ mail.status \in {DRAM_RDY, SRAM_AVAIL}
    /\ mail' = [mail EXCEPT !.status = IN_WFE]
    /\ fetched' = << >>
    /\ dramUp' = FALSE
    /\ overwritten' = FALSE
    /\ UNCHANGED dram

CpuError ==
    /\ ~mail.error
    /\ mail' = [mail EXCEPT !.error = TRUE]
    /\ UNCHANGED << dram, fetched, dramUp, overwritten >>

Cpu == (CpuStage \/ CpuFetch \/ CpuHalt \/ CpuError)
       /\ UNCHANGED << callVars, result, link >>

LinkLost ==
    /\ link
    /\ link' = FALSE
    /\ UNCHANGED << callVars, result, mail, dram, fetched, dramUp, overwritten >>

-----------------------------------------------------------------------------
Progress ==
    \/ ReadRegister \/ LoadFile \/ WriteWord \/ SignalFitReady
    \/ PollLoop \/ Sleep

Next ==
    \/ \E f \in Images, t \in 0 .. MaxTicks : LoadAndBoot(f, t)
    \/ Progress
    \/ HaltCpu
    \/ Abort
    \/ Cpu
    \/ LinkLost

Spec == Init /\ [][Next]_vars

\* Only the interpreter is fair: nothing is promised about the CPU.
FairSpec == Spec /\ WF_vars(Progress)

-----------------------------------------------------------------------------
(***************************************************************************)
(* Properties.                                                             *)
(***************************************************************************)
Commands == {"none", "FIT_RDY", "GOTO_WFE"}
Mail == [status : Statuses, error : BOOLEAN, cmd : Commands]
Snap == [status : Statuses \cup {AllOnes.status}, error : BOOLEAN,
         cmd : Commands \cup {AllOnes.cmd}]
Outcomes == {"none", "ok", "error", "timeout"}
Readers == {"none", "check", "poll", "final"}

\* The type invariant of the module.
TypeOK ==
    /\ pc \in {"idle", "read", "file", "write", "signal", "loop", "sleep"}
    /\ image \in Images \cup {Junk}
    /\ w \in Words
    /\ ticks \in 0 .. MaxTicks
    /\ reader \in Readers
    /\ nread \in 0 .. 2
    /\ snap \in Snap
    /\ result \in [out : Outcomes, reader : Readers, snap : Snap,
                   errorThen : BOOLEAN]
    /\ link \in BOOLEAN
    /\ mail \in Mail
    /\ dram \in [Words -> Images \cup {Junk}]
    /\ fetched \in Seq(Images \cup {Junk})
    /\ Len(fetched) <= NumWords
    /\ dramUp \in BOOLEAN
    /\ errorThen \in BOOLEAN
    /\ overwritten \in BOOLEAN

\* What the CPU boots is one image, whole, whenever it takes it: during the
\* call, after the call timed out or died, or while a later call writes the
\* same file once more.  Only a call that writes another file under a CPU with
\* words to take can break it.
BootsWholeImage ==
    Len(fetched) = NumWords /\ ~overwritten =>
        \E f \in Images : \A j \in Words : fetched[j] = f

\* poll_cpu_boot reads status and error one after the other, while the CPU
\* runs and the link may go.  A status it returns as good was good with no
\* error pending, on a live link, at the moment it was read: the status
\* register is read first, and all ones in the error register are an error.
GoodStatusHadNoError ==
    result.out = "ok" /\ result.reader = "poll" => ~result.errorThen

\* How many steps a call still makes, at most.  An iteration of the polling
\* loop has five, the last reading after the deadline four.
StepsLeft ==
    LET polling == 5 * ticks + 4
        writing == NumWords + polling + 2
    IN  CASE pc = "idle"   -> 0
          [] pc = "read"   -> 3 - nread + (CASE reader = "check" -> writing
                                             [] reader = "poll"  -> polling - 4
                                             [] OTHER            -> 0)
          [] pc = "file"   -> writing
          [] pc = "write"  -> writing - w
          [] pc = "signal" -> polling + 1
          [] pc = "loop"   -> polling
          [] pc = "sleep"  -> polling - 4

\* A call is bounded by the length of the image and the deadline: every step
\* is one of the CPU or of the link, or leaves the call
\* fewer steps to make.
BootAdvances ==
    [][pc # "idle" => UNCHANGED callVars \/ StepsLeft' \in 0 .. StepsLeft - 1]_vars

\* load_and_boot_firmware returns or raises, whatever the CPU does.
BootReturns == (pc # "idle") ~> (pc = "idle")
=============================================================================
