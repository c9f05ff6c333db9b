---------------------------- MODULE GoyaDevice ----------------------------
(***************************************************************************)
(* The user-mode device object of src/src/goya/device.py driving a card    *)
(* through BAR registers: init, shutdown, dma_transfer, gemm, status and   *)
(* the context manager, down to the single register accesses of init.py    *)
(* and packets.py.  Registers written one after the other for one purpose  *)
(* (the halves of an address, the producer and consumer index) are one     *)
(* step; between two steps the card may finish a job, an access may raise  *)
(* and the process may die.                                                *)
(*                                                                         *)
(* The card is external: an engine is started by its commit or command     *)
(* register, runs the operands it found there, and is done at some later   *)
(* moment (or never).                                                      *)
(***************************************************************************)
EXTENDS Naturals, Sequences, FiniteSets

CONSTANTS
    NumChannels,    \* DMA channels (5 on the card)
    Transfers,      \* operands of dma_transfer: one token per (src, dst, size)
    Gemms,          \* GEMM descriptors
    LoadsCin,       \* the descriptors with load_cin set
    LoadsBias,      \* the descriptors with load_bias set
    NoArg,          \* the content of an operand register never written
    MaxPolls,       \* timeout_polls
    BarMayFail      \* TRUE: KMDFBARAccessor (accesses may raise, the card
                    \* outlives the process); FALSE: an accessor that never
                    \* fails, as SimBARAccessor, with an engine behind it

ASSUME NumChannelsAssumption == NumChannels \in Nat \ {0}
ASSUME GemmsAssumption == LoadsCin \subseteq Gemms /\ LoadsBias \subseteq Gemms
ASSUME NoArgAssumption == NoArg \notin Transfers \cup Gemms
ASSUME TokensAssumption == Transfers \cap Gemms = {}
ASSUME MaxPollsAssumption == MaxPolls \in Nat
ASSUME BarMayFailAssumption == BarMayFail \in BOOLEAN

Channels == 0 .. NumChannels - 1
MME == NumChannels
Engines == 0 .. NumChannels
Args(e) == IF e = MME THEN Gemms ELSE Transfers

Caps == {"DMA", "MME"}

(***************************************************************************)
(* Register programs.                                                      *)
(***************************************************************************)
Enable == "GLBL_CFG0"

\* What a queue manager must hold before its enable bit is set.
QueueRegs(e) ==
    {"PQ_BASE", "PQ_INDICES", "CP_MSG_BASE", "CQ_CFG0", "GLBL_ERR",
     "GLBL_PROT"} \cup (IF e = MME THEN {} ELSE {"CP_LDMA"})

AllQueueRegs ==
    {"PQ_BASE", "PQ_INDICES", "CP_LDMA", "CP_MSG_BASE", "CQ_CFG0",
     "GLBL_ERR", "GLBL_PROT", Enable, "CH_CFG", "SM_BASE_ADDRESS"}

\* Mutants: the enable bit before the last registers; the LDMA block forgotten.
DmaInitEnabledEarly ==
    << "PQ_BASE", "PQ_INDICES", "CP_LDMA", Enable, "CP_MSG_BASE", "CQ_CFG0",
       "GLBL_ERR", "GLBL_PROT", "CH_CFG" >>
DmaInitWithoutLdma ==
    << "PQ_BASE", "PQ_INDICES", "CP_MSG_BASE", "CQ_CFG0",
       "GLBL_ERR", "GLBL_PROT", Enable, "CH_CFG" >>

\* init_dma_qman, then init_dma_channel.
DmaInit ==
    << "PQ_BASE", "PQ_INDICES", "CP_LDMA", "CP_MSG_BASE", "CQ_CFG0",
       "GLBL_ERR", "GLBL_PROT", Enable, "CH_CFG" >>

\* init_mme_qman: the sync manager base comes after the enable bit.
MmeInit ==
    << "PQ_BASE", "PQ_INDICES", "CP_MSG_BASE", "CQ_CFG0",
       "GLBL_ERR", "GLBL_PROT", Enable, "SM_BASE_ADDRESS" >>

InitSteps(e) == IF e = MME THEN MmeInit ELSE DmaInit

\* The operand registers of an engine and the order a call writes them in.
ChFields == {"SRC", "DST", "TSIZE"}
MmeFields == {"ABC_ADDR", "CIN_ADDR", "BIAS_ADDR", "DIMS", "ZP", "HEADER"}
Fields(e) == IF e = MME THEN MmeFields ELSE ChFields

DmaSteps == << "SRC", "DST", "TSIZE" >>

\* Mutant: the header, which loads the descriptor, is not written last.
GemmStepsHeaderEarly(g) ==
    << "ABC_ADDR" >>
    \o (IF g \in LoadsCin THEN << "CIN_ADDR" >> ELSE << >>)
    \o << "DIMS", "HEADER", "ZP" >>
    \o (IF g \in LoadsBias THEN << "BIAS_ADDR" >> ELSE << >>)

GemmSteps(g) ==
    << "ABC_ADDR" >>
    \o (IF g \in LoadsCin THEN << "CIN_ADDR" >> ELSE << >>)
    \o (IF g \in LoadsBias THEN << "BIAS_ADDR" >> ELSE << >>)
    \o << "DIMS", "ZP", "HEADER" >>

WorkSteps(e, a) == IF e = MME THEN GemmSteps(a) ELSE DmaSteps

\* The operands an engine reads when it runs a: the header's load flags
\* decide whether CIN and BIAS are among them.
Uses(e, a) ==
    IF e # MME THEN ChFields
    ELSE MmeFields \ (  (IF a \in LoadsCin THEN {} ELSE {"CIN_ADDR"})
                   \cup (IF a \in LoadsBias THEN {} ELSE {"BIAS_ADDR"}))

-----------------------------------------------------------------------------
VARIABLES
    \* fields of the GoyaDevice object and of its BAR accessor
    initialized, hwCaps, open,
    inWith,         \* a with statement has entered and not left
    \* the call in progress
    pc, op,
    eng, arg,       \* the engine and the operand of the call
    k,              \* position in the register program being written
    polls,          \* iterations left of the polling loop
    seenBusy,       \* status(): the engines read as busy so far
    clean,          \* history: the engine was idle when the call started it
    result,         \* what the caller got from its last call, until the next
    \* the card
    qm,             \* registers of each queue manager programmed so far
    operand,        \* operand registers of each engine
    latched,        \* MME descriptor loaded by the last HEADER write
    busy,
    job,            \* operands of the job last started on each engine
    abandoned       \* history: engines left running by a call that is over

objVars == << initialized, hwCaps, open, inWith >>
callVars == << pc, op, eng, arg, k, polls, seenBusy, clean >>
cardVars == << qm, operand, latched, busy, job >>
vars == << initialized, hwCaps, open, inWith, pc, op, eng, arg, k, polls,
           seenBusy, clean, result, qm, operand, latched, busy, job,
           abandoned >>

Ops == {"none", "init", "enter", "shutdown", "exit", "dma", "gemm", "status"}
PCs == {"idle", "verify", "verify_min", "program", "reset", "close",
        "operands", "start", "poll", "status"}
Outcomes == {"none", "ok", "error", "timeout"}

NoResult == [op |-> "none", eng |-> 0, arg |-> NoArg, out |-> "none",
             clean |-> FALSE, seenBusy |-> {}]

Init ==
    /\ initialized = FALSE
    /\ hwCaps = {}
    /\ open = TRUE
    /\ inWith = FALSE
    /\ pc = "idle"
    /\ op = "none"
    /\ eng = 0
    /\ arg = NoArg
    /\ k = 1
    /\ polls = 0
    /\ seenBusy = {}
    /\ clean = FALSE
    /\ result = NoResult
    /\ qm = [e \in Engines |-> {}]
    /\ operand = [e \in Engines |-> [f \in Fields(e) |-> NoArg]]
    /\ latched = [f \in MmeFields |-> NoArg]
    /\ busy = [e \in Engines |-> FALSE]
    /\ job = [e \in Engines |-> [f \in Fields(e) |-> NoArg]]
    /\ abandoned = {}

-----------------------------------------------------------------------------
(***************************************************************************)
(* Control helpers.                                                        *)
(***************************************************************************)

\* A call begins at label l on engine e with operand a.
Enter(o, l, e, a) ==
    /\ pc = "idle"
    /\ op' = o
    /\ pc' = l
    /\ eng' = e
    /\ arg' = a
    /\ k' = 1
    /\ polls' = 0
    /\ seenBusy' = {}
    /\ clean' = FALSE
    /\ result' = NoResult

Goto(l, e, i) ==
    /\ pc' = l
    /\ eng' = e
    /\ k' = i
    /\ UNCHANGED << op, arg, polls, seenBusy, clean >>

\* The call returns to its caller (or raises).
Return(out) ==
    /\ result' = [op |-> op, eng |-> eng, arg |-> arg, out |-> out,
                  clean |-> clean, seenBusy |-> seenBusy]
    /\ pc' = "idle"
    /\ op' = "none"
    /\ eng' = 0
    /\ arg' = NoArg
    /\ k' = 1
    /\ polls' = 0
    /\ seenBusy' = {}
    /\ clean' = FALSE

\* A call that fails or finishes before its first register access.
Refuse(o, e, a, out) ==
    /\ pc = "idle"
    /\ result' = [op |-> o, eng |-> e, arg |-> a, out |-> out,
                  clean |-> FALSE, seenBusy |-> {}]
    /\ UNCHANGED << objVars, callVars, cardVars, abandoned >>

\* A closed KMDF handle fails every access.
CanAccess == open \/ ~BarMayFail

\* The call stops polling its engine: a job still running is abandoned.
GivesUp == abandoned' = IF pc = "poll" /\ busy[eng]
                        THEN abandoned \cup {eng} ELSE abandoned

-----------------------------------------------------------------------------
(***************************************************************************)
(* init() and __enter__.                                                   *)
(***************************************************************************)
InitCall ==
    /\ Enter("init", "verify", 0, NoArg)
    /\ UNCHANGED << objVars, cardVars, abandoned >>

EnterCall ==
    /\ ~inWith
    /\ Enter("enter", "verify", 0, NoArg)
    /\ UNCHANGED << objVars, cardVars, abandoned >>

\* verify_device_id, called by init() and again by init_minimum().
VerifyOk ==
    /\ CanAccess
    /\ \/ pc = "verify" /\ Goto("verify_min", 0, 1)
       \/ pc = "verify_min" /\ Goto("program", 0, 1)
    /\ UNCHANGED << objVars, result, cardVars, abandoned >>

\* The identifier reads as something else: the link is lost, all ones.
VerifyFails ==
    /\ BarMayFail
    /\ CanAccess
    /\ pc \in {"verify", "verify_min"}
    /\ hwCaps' = IF pc = "verify_min" THEN {} ELSE hwCaps
    /\ Return("error")
    /\ UNCHANGED << initialized, open, inWith, cardVars, abandoned >>

ProgramStep ==
    /\ pc = "program"
    /\ CanAccess
    /\ qm' = [qm EXCEPT ![eng] = @ \cup {InitSteps(eng)[k]}]
    /\ \/ /\ k < Len(InitSteps(eng))
          /\ Goto("program", eng, k + 1)
          /\ UNCHANGED << objVars, result >>
       \/ /\ k = Len(InitSteps(eng))
          /\ eng # MME
          /\ Goto("program", eng + 1, 1)
          /\ UNCHANGED << objVars, result >>
       \/ /\ k = Len(InitSteps(eng))
          /\ eng = MME
          /\ hwCaps' = Caps
          /\ initialized' = TRUE
          /\ inWith' = (inWith \/ op = "enter")
          /\ Return("ok")
          /\ UNCHANGED open
    /\ UNCHANGED << operand, latched, busy, job, abandoned >>

-----------------------------------------------------------------------------
(***************************************************************************)
(* shutdown() and __exit__.                                                *)
(***************************************************************************)
ShutdownCall ==
    \/ /\ initialized
       /\ Enter("shutdown", "reset", 0, NoArg)
       /\ UNCHANGED << objVars, cardVars, abandoned >>
    \/ /\ ~initialized
       /\ Refuse("shutdown", 0, NoArg, "ok")

\* Mutant: __exit__ closes the accessor without shutdown().
ExitCallOnlyCloses ==
    /\ inWith
    /\ Enter("exit", "close", 0, NoArg)
    /\ UNCHANGED << objVars, cardVars, abandoned >>

ExitCall ==
    /\ inWith
    /\ Enter("exit", IF initialized THEN "reset" ELSE "close", 0, NoArg)
    /\ UNCHANGED << objVars, cardVars, abandoned >>

\* Mutant: the loop over the channels is one short.
ResetLengthShort == NumChannels + 1

ResetLength == NumChannels + 2

\* soft_reset_engines: step 1 resets the MME, steps 2 .. NumChannels + 1
\* disable the DMA queue managers, the last one that of the MME.  No
\* register of a DMA channel is written.
ResetStep ==
    /\ pc = "reset"
    /\ CanAccess
    /\ IF k = 1
       THEN /\ busy' = [busy EXCEPT ![MME] = FALSE]
            /\ abandoned' = abandoned \ {MME}
            /\ UNCHANGED qm
       ELSE /\ qm' = [qm EXCEPT ![k - 2] = @ \ {Enable}]
            /\ UNCHANGED << busy, abandoned >>
    /\ \/ /\ k < ResetLength
          /\ Goto("reset", 0, k + 1)
          /\ UNCHANGED << objVars, result >>
       \/ /\ k = ResetLength
          /\ hwCaps' = {}
          /\ initialized' = FALSE
          /\ IF op = "exit"
             THEN Goto("close", 0, 1) /\ UNCHANGED result
             ELSE Return("ok")
          /\ UNCHANGED << open, inWith >>
    /\ UNCHANGED << operand, latched, job >>

CloseBar ==
    /\ pc = "close"
    /\ open' = FALSE
    /\ inWith' = FALSE
    /\ Return("ok")
    /\ UNCHANGED << initialized, hwCaps, cardVars, abandoned >>

-----------------------------------------------------------------------------
(***************************************************************************)
(* dma_transfer() and gemm(): operands, start, poll.                       *)
(***************************************************************************)

\* _require_init
RequireInit == initialized

DmaCall(c, t) ==
    \/ /\ RequireInit
       /\ Enter("dma", "operands", c, t)
       /\ UNCHANGED << objVars, cardVars, abandoned >>
    \/ /\ ~RequireInit
       /\ Refuse("dma", c, t, "error")

GemmCall(g) ==
    \/ /\ RequireInit
       /\ Enter("gemm", "operands", MME, g)
       /\ UNCHANGED << objVars, cardVars, abandoned >>
    \/ /\ ~RequireInit
       /\ Refuse("gemm", MME, g, "error")

OperandStep ==
    /\ pc = "operands"
    /\ CanAccess
    /\ LET f == WorkSteps(eng, arg)[k]
       IN  /\ operand' = [operand EXCEPT ![eng][f] = arg]
           /\ latched' = IF f = "HEADER" THEN operand'[MME] ELSE latched
    /\ IF k < Len(WorkSteps(eng, arg))
       THEN Goto("operands", eng, k + 1)
       ELSE Goto("start", eng, 1)
    /\ UNCHANGED << objVars, result, qm, busy, job, abandoned >>

\* Mutant: one iteration too many.
StartPollsOneMore == MaxPolls + 1

StartPolls == MaxPolls

\* COMIT_TRANSFER = 1 or MME_CMD = 1.  An engine that is still running an
\* abandoned job keeps it or takes the new one.
StartEngine ==
    /\ pc = "start"
    /\ CanAccess
    /\ LET new == IF eng = MME THEN latched ELSE operand[eng]
       IN  \/ job' = [job EXCEPT ![eng] = new]
           \/ busy[eng] /\ job' = job
    /\ busy' = [busy EXCEPT ![eng] = TRUE]
    /\ pc' = "poll"
    /\ polls' = StartPolls
    /\ clean' = ~busy[eng]
    /\ UNCHANGED << objVars, op, eng, arg, k, seenBusy, result, qm, operand,
                    latched, abandoned >>

\* Mutants: the busy bit inverted, or not looked at; a loop without bound.
PollDoneInverted == busy[eng]
PollDoneUnread == TRUE
LeftForever(n) == n

PollDone == ~busy[eng]
Left(n) == n - 1

PollStep ==
    /\ pc = "poll"
    /\ polls > 0
    /\ CanAccess
    /\ \/ /\ PollDone
          /\ Return("ok")
       \/ /\ ~PollDone
          /\ polls' = Left(polls)
          /\ UNCHANGED << pc, op, eng, arg, k, seenBusy, clean, result >>
    /\ UNCHANGED << objVars, cardVars, abandoned >>

\* The loop runs out: GoyaDMAError or GoyaMMEError, the engine is left alone.
\* Mutant: the False of the polling loop is not turned into an exception.
TimeoutOutcomeIgnored == "ok"

TimeoutOutcome == "timeout"

\* Mutant: a job that timed out is started once more.
PollTimeoutRestarts ==
    /\ pc = "poll"
    /\ polls = 0
    /\ pc' = "start"
    /\ UNCHANGED << objVars, op, eng, arg, k, polls, seenBusy, clean, result,
                    cardVars, abandoned >>

PollTimeout ==
    /\ pc = "poll"
    /\ polls = 0
    /\ GivesUp
    /\ Return(TimeoutOutcome)
    /\ UNCHANGED << objVars, cardVars >>

-----------------------------------------------------------------------------
(***************************************************************************)
(* status(): the MME first, then the channels, one register at a time.     *)
(***************************************************************************)
StatusCall ==
    /\ Enter("status", "status", MME, NoArg)
    /\ UNCHANGED << objVars, cardVars, abandoned >>

\* Mutant: each reading replaces the ones before it.
ObserveLast(e) == IF busy[e] THEN {e} ELSE {}

Observe(e) == IF busy[e] THEN seenBusy \cup {e} ELSE seenBusy

StatusStep ==
    /\ pc = "status"
    /\ CanAccess
    /\ LET now == Observe(eng)
       IN  IF eng = NumChannels - 1
           THEN /\ result' = [op |-> op, eng |-> eng, arg |-> arg,
                              out |-> "ok", clean |-> clean,
                              seenBusy |-> now]
                /\ pc' = "idle"
                /\ op' = "none"
                /\ eng' = 0
                /\ seenBusy' = {}
                /\ clean' = FALSE
           ELSE /\ eng' = IF eng = MME THEN 0 ELSE eng + 1
                /\ seenBusy' = now
                /\ UNCHANGED << pc, op, clean, result >>
    /\ UNCHANGED << objVars, arg, k, polls, cardVars, abandoned >>

-----------------------------------------------------------------------------
(***************************************************************************)
(* Failures and the card.                                                  *)
(***************************************************************************)

\* DeviceIoControl fails (or the interpreter is interrupted) at the next
\* access of the call; the exception leaves every field as it is.  A with
\* statement whose exit raises is over all the same.
Raise ==
    /\ BarMayFail
    /\ pc # "idle"
    /\ GivesUp
    /\ inWith' = (inWith /\ op # "exit")
    /\ Return("error")
    /\ UNCHANGED << initialized, hwCaps, open, cardVars >>

\* The process ends and a new one makes a new object: only the card and what
\* it is doing survive.
Restart ==
    /\ BarMayFail
    /\ GivesUp
    /\ initialized' = FALSE
    /\ hwCaps' = {}
    /\ open' = TRUE
    /\ inWith' = FALSE
    /\ pc' = "idle"
    /\ op' = "none"
    /\ eng' = 0
    /\ arg' = NoArg
    /\ k' = 1
    /\ polls' = 0
    /\ seenBusy' = {}
    /\ clean' = FALSE
    /\ result' = NoResult
    /\ UNCHANGED cardVars

EngineDone(e) ==
    /\ busy[e]
    /\ busy' = [busy EXCEPT ![e] = FALSE]
    /\ abandoned' = abandoned \ {e}
    /\ UNCHANGED << objVars, callVars, result, qm, operand, latched, job >>

-----------------------------------------------------------------------------
Progress ==
    \/ VerifyOk \/ VerifyFails \/ ProgramStep
    \/ ResetStep \/ CloseBar
    \/ OperandStep \/ StartEngine \/ PollStep \/ PollTimeout
    \/ StatusStep

NewCall ==
    \/ InitCall \/ EnterCall \/ ShutdownCall \/ ExitCall \/ StatusCall
    \/ \E c \in Channels, t \in Transfers : DmaCall(c, t)
    \/ \E g \in Gemms : GemmCall(g)

Next ==
    \/ NewCall
    \/ Progress
    \/ Raise
    \/ Restart
    \/ \E e \in Engines : EngineDone(e)

Spec == Init /\ [][Next]_vars

\* The interpreter runs a call it has begun, and an access through a closed
\* handle raises; nothing is promised about the card, about new calls, or
\* about other failures.
FairSpec == Spec /\ WF_vars(Progress) /\ WF_vars(~CanAccess /\ Raise)

-----------------------------------------------------------------------------
(***************************************************************************)
(* Properties.                                                             *)
(***************************************************************************)
Operands(e) == [Fields(e) -> Args(e) \cup {NoArg}]
Tokens == Transfers \cup Gemms \cup {NoArg}

ObjType ==
    /\ initialized \in BOOLEAN
    /\ hwCaps \in {{}, Caps}
    /\ open \in BOOLEAN
    /\ inWith \in BOOLEAN

CallType ==
    /\ pc \in PCs
    /\ op \in Ops
    /\ eng \in Engines
    /\ arg \in Tokens
    /\ k \in Nat
    /\ polls \in 0 .. MaxPolls
    /\ seenBusy \in SUBSET Engines
    /\ clean \in BOOLEAN

ResultType ==
    result \in [op : Ops, eng : Engines, arg : Tokens, out : Outcomes,
               clean : BOOLEAN, seenBusy : SUBSET Engines]

CardType ==
    /\ qm \in [Engines -> SUBSET AllQueueRegs]
    /\ DOMAIN operand = Engines
    /\ \A e \in Engines : operand[e] \in Operands(e)
    /\ latched \in Operands(MME)
    /\ busy \in [Engines -> BOOLEAN]
    /\ DOMAIN job = Engines
    /\ \A e \in Engines : job[e] \in Operands(e)

\* Every variable ranges over what the code and the card can hold: the type
\* invariant of the module.
TypeOK ==
    /\ ObjType
    /\ CallType
    /\ ResultType
    /\ CardType
    /\ abandoned \in SUBSET Engines

Enabled(e) == Enable \in qm[e]

\* A queue manager is never enabled before every one of its registers has
\* been programmed, whatever init() sequence was cut short or repeated
\* (init_dma_qman and init_mme_qman enable last).
QueueEnabledOnlyProgrammed ==
    \A e \in Engines : Enabled(e) => QueueRegs(e) \subseteq qm[e]

\* An object that lets work through (_require_init) sits on a card all of
\* whose queue managers have been programmed, also after failed calls of
\* init() and shutdown() and after a restart.
InitializedMeansProgrammed ==
    initialized => \A e \in Engines : QueueRegs(e) \subseteq qm[e]

\* An engine runs only for the one call that polls it, or because a call gave
\* it up: the direct path never has two jobs of live calls in flight.
OneEngineAtATime ==
    \A e \in Engines :
        busy[e] => (pc = "poll" /\ eng = e) \/ e \in abandoned

\* What an engine runs is one whole operand set: no field of a job comes from
\* another call, even if an earlier call died between two operand writes or
\* left optional fields behind (HEADER is written last).
RunsWholeDescriptor ==
    \A e \in Engines :
        busy[e] => \E a \in Args(e) : \A f \in Uses(e, a) : job[e][f] = a

Finished(e, a) == ~busy[e] /\ \A f \in Uses(e, a) : job[e][f] = a

\* A call of dma_transfer or gemm that returns normally leaves its engine at
\* rest after one whole operand set.  It is the call's own if the engine was
\* idle when the call started it.  If the engine was still running a job an
\* earlier call gave up, it may be that job's end the call has seen: the code
\* starts a channel without reading STS0 first.
SuccessMeansDone ==
    pc = "idle" /\ result.out = "ok" /\ result.op \in {"dma", "gemm"}
        => \E a \in Args(result.eng) :
               /\ Finished(result.eng, a)
               /\ result.clean => a = result.arg

\* status() reads its registers one by one; an engine it reports idle is
\* nevertheless idle when it returns, and stays so until the next call.
StatusIdleIsIdle ==
    pc = "idle" /\ result.out = "ok" /\ result.op = "status"
        => \A e \in Engines \ result.seenBusy : ~busy[e]

\* Operand registers of a running engine change, and a job is started on top
\* of another, only where an earlier call gave that engine up.
BusyEngineUndisturbed ==
    [][\A e \in Engines :
          busy[e] /\ (operand'[e] # operand[e] \/ job'[e] # job[e])
              => e \in abandoned]_vars

\* With an accessor that never fails, between calls the object and the card agree: the
\* flag, the capability mask and every enable bit say the same.
FlagsMatchCard ==
    pc = "idle" =>
        /\ initialized <=> hwCaps = Caps
        /\ \A e \in Engines : initialized <=> Enabled(e)

\* Leaving a with statement normally leaves the object uninitialized, without
\* capabilities and with its accessor closed, whatever its body did.
ExitMeansDown ==
    pc = "idle" /\ result.op = "exit" /\ result.out = "ok" =>
        /\ ~initialized /\ hwCaps = {} /\ ~open

\* How many steps a call still makes, at most.
StepsLeft ==
    LET polling == MaxPolls + 2
        programming == Len(DmaInit) * (MME + 1)
    IN  CASE pc = "idle"       -> 0
          [] pc = "verify"     -> programming + 1
          [] pc = "verify_min" -> programming
          [] pc = "program"    -> Len(DmaInit) * (MME + 1 - eng) - k
          [] pc = "reset"      -> ResetLength - k + 2
          [] pc = "close"      -> 1
          [] pc = "operands"   -> Len(WorkSteps(eng, arg)) - k + 1 + polling
          [] pc = "start"      -> polling
          [] pc = "poll"       -> polls + 1
          [] pc = "status"     -> IF eng = MME THEN NumChannels + 1
                                  ELSE NumChannels - eng

\* No call is kept going by the card: each step is one of the card, or leaves
\* the call in progress fewer steps to make, whatever fails.
CallAdvances ==
    [][pc # "idle" => UNCHANGED callVars \/ StepsLeft' \in 0 .. StepsLeft - 1]_vars

\* Every call returns or raises: polling is bounded by timeout_polls, even
\* if the card never answers.
CallReturns == (pc # "idle") ~> (pc = "idle")

=============================================================================
