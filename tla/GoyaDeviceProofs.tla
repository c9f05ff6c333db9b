------------------------- MODULE GoyaDeviceProofs -------------------------
(***************************************************************************)
(* Theorems about GoyaDevice, for every number of channels, every set of   *)
(* transfers and descriptors, every timeout, and for both kinds of         *)
(* accessor.                                                               *)
(***************************************************************************)
EXTENDS GoyaDevice, TLAPS

(***************************************************************************)
(* Where a call is.                                                        *)
(***************************************************************************)

\* The position of the call in progress is one its program has, and its
\* operand is one of its engine.
PositionOK ==
    /\ pc = "program" => k \in 1 .. Len(InitSteps(eng))
    /\ pc = "reset" => k \in 1 .. ResetLength
    /\ pc = "status" => eng \in Engines
    /\ pc \in {"operands", "start", "poll"} => arg \in Args(eng)
    /\ pc = "operands" => k \in 1 .. Len(WorkSteps(eng, arg))

\* How far init() has come in programming the queue managers.
ProgrammedSoFar ==
    pc = "program" =>
        /\ \A e \in 0 .. eng - 1 : QueueRegs(e) \subseteq qm[e]
        /\ \A i \in 1 .. k - 1 : InitSteps(eng)[i] \in qm[eng]

(***************************************************************************)
(* The register programs.                                                  *)
(***************************************************************************)

\* The engines are the channels, numbered from 0, and after them the MME.
LEMMA EnginesAreNumbers ==
    /\ MME \in Engines
    /\ Engines \subseteq Nat
    /\ 0 \in Engines /\ 0 # MME
    /\ \A e \in Engines : e # MME => e + 1 \in Engines
    /\ NumChannels - 1 \in Engines
BY NumChannelsAssumption DEF Engines, MME

\* Every write of an init program goes to a register of a queue manager.
LEMMA InitStepsType ==
    \A e \in Engines :
        /\ Len(InitSteps(e)) \in Nat \ {0}
        /\ \A i \in 1 .. Len(InitSteps(e)) : InitSteps(e)[i] \in AllQueueRegs
<1>1. /\ Len(DmaInit) = 9
      /\ \A i \in 1 .. 9 : DmaInit[i] \in AllQueueRegs
  BY DEF DmaInit, AllQueueRegs, Enable
<1>2. /\ Len(MmeInit) = 8
      /\ \A i \in 1 .. 8 : MmeInit[i] \in AllQueueRegs
  BY DEF MmeInit, AllQueueRegs, Enable
<1>3. TAKE e \in Engines
<1>4. CASE e = MME
  <2>1. InitSteps(e) = MmeInit
    BY <1>4 DEF InitSteps
  <2>2. Len(InitSteps(e)) = 8
    BY <1>2, <2>1
  <2>3. \A i \in 1 .. 8 : InitSteps(e)[i] \in AllQueueRegs
    BY <1>2, <2>1
  <2> QED
    BY <2>2, <2>3
<1>5. CASE e # MME
  <2>1. InitSteps(e) = DmaInit
    BY <1>5 DEF InitSteps
  <2>2. Len(InitSteps(e)) = 9
    BY <1>1, <2>1
  <2>3. \A i \in 1 .. 9 : InitSteps(e)[i] \in AllQueueRegs
    BY <1>1, <2>1
  <2> QED
    BY <2>2, <2>3
<1> QED
  BY <1>4, <1>5

\* Every write of a dma_transfer or gemm goes to an operand register.
LEMMA WorkStepsType ==
    \A e \in Engines : \A a \in Args(e) :
        /\ WorkSteps(e, a) \in Seq(Fields(e))
        /\ Len(WorkSteps(e, a)) \in Nat \ {0}
<1> SUFFICES ASSUME NEW e \in Engines, NEW a \in Args(e)
             PROVE  /\ WorkSteps(e, a) \in Seq(Fields(e))
                    /\ Len(WorkSteps(e, a)) \in Nat \ {0}
  OBVIOUS
<1>1. DmaSteps \in Seq(ChFields) /\ Len(DmaSteps) = 3
  BY DEF DmaSteps, ChFields
<1>2. GemmSteps(a) \in Seq(MmeFields) /\ Len(GemmSteps(a)) \in Nat \ {0}
  <2> DEFINE first == << "ABC_ADDR" >>
             cin   == IF a \in LoadsCin THEN << "CIN_ADDR" >> ELSE << >>
             bias  == IF a \in LoadsBias THEN << "BIAS_ADDR" >> ELSE << >>
             last  == << "DIMS", "ZP", "HEADER" >>
  <2>1. first \in Seq(MmeFields) /\ Len(first) = 1
    BY DEF MmeFields
  <2>2. cin \in Seq(MmeFields)
    <3>1. << "CIN_ADDR" >> \in Seq(MmeFields) /\ << >> \in Seq(MmeFields)
      BY DEF MmeFields
    <3> QED
      BY <3>1
  <2>3. bias \in Seq(MmeFields)
    <3>1. << "BIAS_ADDR" >> \in Seq(MmeFields) /\ << >> \in Seq(MmeFields)
      BY DEF MmeFields
    <3> QED
      BY <3>1
  <2>4. last \in Seq(MmeFields)
    BY DEF MmeFields
  <2>5. GemmSteps(a) = first \o cin \o bias \o last
    BY DEF GemmSteps
  <2> HIDE DEF first, cin, bias, last
  <2> QED
    BY <2>1, <2>2, <2>3, <2>4, <2>5
<1>3. CASE e = MME
  <2>1. WorkSteps(e, a) = GemmSteps(a) /\ Fields(e) = MmeFields
    BY <1>3 DEF WorkSteps, Fields
  <2> QED
    BY <1>2, <2>1
<1>4. CASE e # MME
  <2>1. WorkSteps(e, a) = DmaSteps /\ Fields(e) = ChFields
    BY <1>4 DEF WorkSteps, Fields
  <2>2. Len(WorkSteps(e, a)) = 3
    BY <1>1, <2>1
  <2> QED
    BY <1>1, <2>1, <2>2
<1> QED
  BY <1>3, <1>4

(***************************************************************************)
(* Types.  What the control helpers do to the call and its result.         *)
(***************************************************************************)

\* The values of the call variables between two calls.
LEMMA RestValues ==
    /\ "idle" \in PCs
    /\ "none" \in Ops
    /\ "none" \in Outcomes
    /\ 0 \in Engines
    /\ NoArg \in Tokens
    /\ 1 \in Nat
    /\ 0 \in 0 .. MaxPolls
    /\ {} \in SUBSET Engines
    /\ FALSE \in BOOLEAN
BY EnginesAreNumbers, MaxPollsAssumption DEF PCs, Ops, Outcomes, Tokens

\* A call that begins has well-typed variables.
LEMMA EnterType ==
    ASSUME NEW o \in Ops, NEW l \in PCs, NEW e \in Engines,
           NEW a \in Tokens, Enter(o, l, e, a)
    PROVE  CallType' /\ ResultType'
<1>1. clean' \in BOOLEAN
  BY DEF Enter
<1>2. /\ pc' \in PCs /\ op' \in Ops /\ eng' \in Engines /\ arg' \in Tokens
      /\ k' = 1 /\ polls' = 0 /\ seenBusy' = {}
  BY DEF Enter
<1>3. CallType'
  BY <1>1, <1>2, MaxPollsAssumption DEF CallType
<1>4. ResultType'
  BY RestValues DEF Enter, NoResult, ResultType
<1> QED
  BY <1>3, <1>4

\* So has a call that goes on to another position.
LEMMA GotoType ==
    ASSUME CallType, NEW l \in PCs, NEW e \in Engines, NEW i \in Nat,
           Goto(l, e, i)
    PROVE  CallType'
BY DEF Goto, CallType

\* A call that ends leaves a well-typed result, whatever its outcome.
LEMMA ReturnType ==
    ASSUME CallType, NEW out \in Outcomes, Return(out)
    PROVE  CallType' /\ ResultType' /\ PositionOK'
<1>1. CallType'
  BY RestValues DEF Return, CallType
<1>2. ResultType'
  BY DEF Return, CallType, ResultType
<1>3. PositionOK'
  BY DEF Return, PositionOK
<1> QED
  BY <1>1, <1>2, <1>3

\* So does a call that is over before its first register access.
LEMMA RefuseType ==
    ASSUME TypeOK, PositionOK, NEW o \in Ops, NEW e \in Engines,
           NEW a \in Tokens, NEW out \in Outcomes, Refuse(o, e, a, out)
    PROVE  TypeOK' /\ PositionOK'
<1>1. UNCHANGED << objVars, callVars, cardVars, abandoned >>
  BY DEF Refuse
<1>2. ResultType'
  BY DEF Refuse, ResultType
<1>3. ObjType' /\ CallType' /\ CardType' /\ abandoned' \in SUBSET Engines
  BY <1>1 DEF TypeOK, ObjType, CallType, CardType, objVars, callVars, cardVars
<1>4. PositionOK'
  BY <1>1 DEF PositionOK, callVars
<1> QED
  BY <1>2, <1>3, <1>4 DEF TypeOK

\* A step that leaves the fields of the object, or the card, alone.
LEMMA UnchangedType ==
    /\ ObjType /\ UNCHANGED objVars => ObjType'
    /\ CardType /\ UNCHANGED cardVars => CardType'
BY DEF ObjType, CardType, objVars, cardVars

\* A new object on a card out of reset is well typed.
LEMMA InitTypes == Init => TypeOK /\ PositionOK
<1> SUFFICES ASSUME Init PROVE TypeOK /\ PositionOK
  OBVIOUS
<1>1. ObjType
  BY DEF Init, ObjType
<1>2. CallType
  BY RestValues DEF Init, CallType
<1>3. ResultType
  BY RestValues DEF Init, ResultType, NoResult
<1>4. CardType
  <2>1. \A e \in Engines : [f \in Fields(e) |-> NoArg] \in Operands(e)
    BY DEF Operands
  <2>2. latched \in Operands(MME)
    <3>1. Fields(MME) = MmeFields
      BY DEF Fields
    <3> QED
      BY <3>1 DEF Init, Operands
  <2> QED
    BY <2>1, <2>2 DEF Init, CardType
<1>5. PositionOK
  BY DEF Init, PositionOK
<1> QED
  BY <1>1, <1>2, <1>3, <1>4, <1>5 DEF TypeOK, Init

\* Every step keeps the types and the position of the call: one step of the
\* proof per action.
LEMMA TypeStep ==
    ASSUME TypeOK, PositionOK, Next
    PROVE  TypeOK' /\ PositionOK'
<1> USE DEF TypeOK
<1>1. ASSUME NewCall PROVE TypeOK' /\ PositionOK'
  <2>1. ASSUME NEW o \in Ops, NEW l \in {"verify", "reset", "close", "status"},
               NEW e \in Engines, Enter(o, l, e, NoArg),
               UNCHANGED << objVars, cardVars, abandoned >>
        PROVE  TypeOK' /\ PositionOK'
    <3>1. l \in PCs /\ NoArg \in Tokens
      BY DEF PCs, Tokens
    <3>2. CallType' /\ ResultType'
      BY <2>1, <3>1, EnterType
    <3>3. ObjType' /\ CardType' /\ abandoned' \in SUBSET Engines
      BY <2>1, UnchangedType
    <3>4. PositionOK'
      <4>1. ResetLength \in Nat \ {0}
        BY NumChannelsAssumption DEF ResetLength
      <4> QED
        BY <2>1, <4>1 DEF Enter, PositionOK
    <3> QED
      BY <3>2, <3>3, <3>4
  <2>2. ASSUME NEW o \in Ops, NEW e \in Engines, NEW a \in Args(e),
               Enter(o, "operands", e, a),
               UNCHANGED << objVars, cardVars, abandoned >>
        PROVE  TypeOK' /\ PositionOK'
    <3>1. "operands" \in PCs /\ a \in Tokens
      BY DEF PCs, Tokens, Args
    <3>2. CallType' /\ ResultType'
      BY <2>2, <3>1, EnterType
    <3>3. ObjType' /\ CardType' /\ abandoned' \in SUBSET Engines
      BY <2>2, UnchangedType
    <3>4. PositionOK'
      <4>1. Len(WorkSteps(e, a)) \in Nat \ {0}
        BY WorkStepsType
      <4> QED
        BY <2>2, <4>1 DEF Enter, PositionOK
    <3> QED
      BY <3>2, <3>3, <3>4
  <2>3. {"init", "enter", "shutdown", "exit", "status", "dma", "gemm"} \subseteq Ops
    BY DEF Ops
  <2>4. {"ok", "error"} \subseteq Outcomes
    BY DEF Outcomes
  <2>5. CASE InitCall
    BY <2>1, <2>3, <2>5, EnginesAreNumbers DEF InitCall
  <2>6. CASE EnterCall
    BY <2>1, <2>3, <2>6, EnginesAreNumbers DEF EnterCall
  <2>7. CASE ShutdownCall
    <3>1. CASE Enter("shutdown", "reset", 0, NoArg)
               /\ UNCHANGED << objVars, cardVars, abandoned >>
      BY <2>1, <2>3, <3>1, EnginesAreNumbers
    <3>2. CASE Refuse("shutdown", 0, NoArg, "ok")
      BY <2>3, <2>4, <3>2, RefuseType, EnginesAreNumbers DEF Tokens
    <3> QED
      BY <2>7, <3>1, <3>2 DEF ShutdownCall
  <2>8. CASE ExitCall
    BY <2>1, <2>3, <2>8, EnginesAreNumbers DEF ExitCall
  <2>9. CASE StatusCall
    BY <2>1, <2>3, <2>9, EnginesAreNumbers DEF StatusCall
  <2>10. ASSUME NEW c \in Channels, NEW t \in Transfers, DmaCall(c, t)
         PROVE  TypeOK' /\ PositionOK'
    <3>1. c \in Engines /\ t \in Args(c) /\ t \in Tokens
      BY NumChannelsAssumption DEF Channels, Engines, Args, MME, Tokens
    <3>2. CASE Refuse("dma", c, t, "error")
      BY <2>3, <2>4, <3>1, <3>2, RefuseType
    <3> QED
      BY <2>2, <2>3, <2>10, <3>1, <3>2 DEF DmaCall
  <2>11. ASSUME NEW g \in Gemms, GemmCall(g)
         PROVE  TypeOK' /\ PositionOK'
    <3>1. MME \in Engines /\ g \in Args(MME) /\ g \in Tokens
      BY EnginesAreNumbers DEF Args, Tokens
    <3>2. CASE Refuse("gemm", MME, g, "error")
      BY <2>3, <2>4, <3>1, <3>2, RefuseType
    <3> QED
      BY <2>2, <2>3, <2>11, <3>1, <3>2 DEF GemmCall
  <2> QED
    BY <1>1, <2>5, <2>6, <2>7, <2>8, <2>9, <2>10, <2>11 DEF NewCall
<1>2. CASE VerifyOk
  <2>1. CallType'
    BY <1>2, GotoType, EnginesAreNumbers DEF VerifyOk, PCs
  <2>2. ObjType' /\ CardType' /\ UNCHANGED << result, abandoned >>
    BY <1>2, UnchangedType DEF VerifyOk
  <2>3. PositionOK'
    BY <1>2, InitStepsType, EnginesAreNumbers DEF VerifyOk, Goto, PositionOK
  <2> QED
    BY <2>1, <2>2, <2>3 DEF ResultType
<1>3. CASE VerifyFails
  <2>1. CallType' /\ ResultType' /\ PositionOK'
    BY <1>3, ReturnType DEF VerifyFails, Outcomes
  <2>2. ObjType' /\ CardType' /\ abandoned' \in SUBSET Engines
    BY <1>3, UnchangedType DEF VerifyFails, ObjType
  <2> QED
    BY <2>1, <2>2
<1>4. CASE ProgramStep
  <2>1. k \in 1 .. Len(InitSteps(eng)) /\ eng \in Engines
    BY <1>4 DEF ProgramStep, PositionOK, CallType
  <2>2. InitSteps(eng)[k] \in AllQueueRegs
    BY <2>1, InitStepsType
  <2>3. CardType' /\ abandoned' \in SUBSET Engines
    <3>1. qm' \in [Engines -> SUBSET AllQueueRegs]
      BY <1>4, <2>2 DEF ProgramStep, CardType
    <3> QED
      BY <1>4, <3>1 DEF ProgramStep, CardType
  <2>4. CASE k < Len(InitSteps(eng)) /\ Goto("program", eng, k + 1)
             /\ UNCHANGED << objVars, result >>
    <3>1. CallType'
      BY <2>1, <2>4, GotoType DEF PCs
    <3>2. PositionOK'
      BY <2>1, <2>4, InitStepsType DEF Goto, PositionOK
    <3> QED
      BY <2>3, <2>4, <3>1, <3>2, UnchangedType DEF ResultType
  <2>5. CASE eng # MME /\ Goto("program", eng + 1, 1)
             /\ UNCHANGED << objVars, result >>
    <3>1. eng + 1 \in Engines
      BY <2>1, <2>5, EnginesAreNumbers
    <3>2. CallType'
      BY <2>5, <3>1, GotoType DEF PCs
    <3>3. PositionOK'
      BY <2>5, <3>1, InitStepsType DEF Goto, PositionOK
    <3> QED
      BY <2>3, <2>5, <3>2, <3>3, UnchangedType DEF ResultType
  <2>6. CASE hwCaps' = Caps /\ initialized' = TRUE
             /\ inWith' = (inWith \/ op = "enter") /\ Return("ok")
             /\ UNCHANGED open
    <3>1. CallType' /\ ResultType' /\ PositionOK'
      BY <2>6, ReturnType DEF Outcomes
    <3>2. ObjType'
      BY <2>6 DEF ObjType
    <3> QED
      BY <2>3, <3>1, <3>2
  <2> QED
    BY <1>4, <2>4, <2>5, <2>6 DEF ProgramStep
<1>5. CASE ResetStep
  <2>1. k \in 1 .. NumChannels + 2
    BY <1>5 DEF ResetStep, PositionOK, ResetLength
  <2>2. CardType' /\ abandoned' \in SUBSET Engines
    <3>1. CASE k = 1
      BY <1>5, <3>1 DEF ResetStep, CardType
    <3>2. CASE k # 1
      <4>1. qm' \in [Engines -> SUBSET AllQueueRegs]
        BY <1>5, <3>2 DEF ResetStep, CardType
      <4> QED
        BY <1>5, <3>2, <4>1 DEF ResetStep, CardType
    <3> QED
      BY <3>1, <3>2
  <2>3. CASE k < ResetLength /\ Goto("reset", 0, k + 1)
             /\ UNCHANGED << objVars, result >>
    <3>1. CallType'
      BY <2>1, <2>3, GotoType, EnginesAreNumbers DEF PCs
    <3>2. PositionOK'
      BY <2>1, <2>3, NumChannelsAssumption DEF Goto, PositionOK, ResetLength
    <3> QED
      BY <2>2, <2>3, <3>1, <3>2, UnchangedType DEF ResultType
  <2>4. CASE hwCaps' = {} /\ initialized' = FALSE /\ UNCHANGED << open, inWith >>
             /\ IF op = "exit"
                THEN Goto("close", 0, 1) /\ UNCHANGED result
                ELSE Return("ok")
    <3>1. ObjType'
      BY <2>4 DEF ObjType
    <3>2. CASE op = "exit"
      <4>1. CallType'
        BY <2>4, <3>2, GotoType, EnginesAreNumbers DEF PCs
      <4>2. PositionOK'
        BY <2>4, <3>2 DEF Goto, PositionOK
      <4> QED
        BY <2>2, <2>4, <3>1, <3>2, <4>1, <4>2 DEF ResultType
    <3>3. CASE op # "exit"
      BY <2>2, <2>4, <3>1, <3>3, ReturnType DEF Outcomes
    <3> QED
      BY <3>2, <3>3
  <2> QED
    BY <1>5, <2>3, <2>4 DEF ResetStep
<1>6. CASE CloseBar
  <2>1. CallType' /\ ResultType' /\ PositionOK'
    BY <1>6, ReturnType DEF CloseBar, Outcomes
  <2>2. ObjType' /\ CardType' /\ abandoned' \in SUBSET Engines
    BY <1>6, UnchangedType DEF CloseBar, ObjType
  <2> QED
    BY <2>1, <2>2
<1>7. CASE OperandStep
  <2> DEFINE f == WorkSteps(eng, arg)[k]
  <2>1. /\ k \in 1 .. Len(WorkSteps(eng, arg))
        /\ arg \in Args(eng) /\ eng \in Engines
    BY <1>7 DEF OperandStep, PositionOK, CallType
  <2>2. f \in Fields(eng)
    BY <2>1, WorkStepsType
  <2>3. CardType' /\ abandoned' \in SUBSET Engines
    <3>1. operand' = [operand EXCEPT ![eng][f] = arg]
      BY <1>7 DEF OperandStep
    <3>2. DOMAIN operand' = Engines
          /\ \A e \in Engines : operand'[e] \in Operands(e)
      BY <2>1, <2>2, <3>1 DEF CardType, Operands
    <3>3. latched' \in Operands(MME)
      BY <1>7, <3>2, EnginesAreNumbers DEF OperandStep, CardType
    <3> QED
      BY <1>7, <3>2, <3>3 DEF OperandStep, CardType
  <2>4. CallType' /\ PositionOK'
    <3>1. CASE k < Len(WorkSteps(eng, arg)) /\ Goto("operands", eng, k + 1)
      <4>1. CallType'
        BY <2>1, <3>1, GotoType DEF PCs
      <4>2. PositionOK'
        BY <2>1, <3>1, WorkStepsType DEF Goto, PositionOK
      <4> QED
        BY <4>1, <4>2
    <3>2. CASE Goto("start", eng, 1)
      <4>1. CallType'
        BY <2>1, <3>2, GotoType DEF PCs
      <4>2. PositionOK'
        BY <2>1, <3>2 DEF Goto, PositionOK
      <4> QED
        BY <4>1, <4>2
    <3> QED
      BY <1>7, <3>1, <3>2 DEF OperandStep
  <2> QED
    BY <1>7, <2>3, <2>4, UnchangedType DEF OperandStep, ResultType
<1>8. CASE StartEngine
  <2>1. eng \in Engines /\ arg \in Args(eng)
    BY <1>8 DEF StartEngine, PositionOK, CallType
  <2>2. CardType' /\ abandoned' \in SUBSET Engines
    <3>1. (IF eng = MME THEN latched ELSE operand[eng]) \in Operands(eng)
      BY <2>1 DEF CardType
    <3>2. DOMAIN job' = Engines /\ \A e \in Engines : job'[e] \in Operands(e)
      BY <1>8, <2>1, <3>1 DEF StartEngine, CardType
    <3>3. busy' \in [Engines -> BOOLEAN]
      BY <1>8, <2>1 DEF StartEngine, CardType
    <3> QED
      BY <1>8, <3>2, <3>3 DEF StartEngine, CardType
  <2>3. CallType'
    BY <1>8, MaxPollsAssumption DEF StartEngine, CallType, StartPolls, PCs
  <2>4. PositionOK'
    BY <1>8, <2>1 DEF StartEngine, PositionOK
  <2> QED
    BY <1>8, <2>2, <2>3, <2>4, UnchangedType DEF StartEngine, ResultType
<1>9. CASE PollStep
  <2>1. ObjType' /\ CardType' /\ abandoned' \in SUBSET Engines
    BY <1>9, UnchangedType DEF PollStep
  <2>2. CASE Return("ok")
    BY <2>1, <2>2, ReturnType DEF Outcomes
  <2>3. CASE /\ polls' = Left(polls)
             /\ UNCHANGED << pc, op, eng, arg, k, seenBusy, clean, result >>
    <3>1. polls' \in 0 .. MaxPolls
      BY <1>9, <2>3, MaxPollsAssumption DEF PollStep, CallType, Left
    <3>2. CallType'
      BY <2>3, <3>1 DEF CallType
    <3>3. PositionOK'
      BY <2>3 DEF PositionOK
    <3> QED
      BY <2>1, <2>3, <3>2, <3>3 DEF ResultType
  <2> QED
    BY <1>9, <2>2, <2>3 DEF PollStep
<1>10. CASE PollTimeout
  <2>1. CallType' /\ ResultType' /\ PositionOK'
    BY <1>10, ReturnType DEF PollTimeout, TimeoutOutcome, Outcomes
  <2>2. ObjType' /\ CardType' /\ abandoned' \in SUBSET Engines
    BY <1>10, UnchangedType DEF PollTimeout, GivesUp, CallType
  <2> QED
    BY <2>1, <2>2
<1>11. CASE StatusStep
  <2>1. Observe(eng) \in SUBSET Engines
    BY <1>11 DEF StatusStep, Observe, CallType
  <2>2. ObjType' /\ CardType' /\ abandoned' \in SUBSET Engines
    BY <1>11, UnchangedType DEF StatusStep
  <2>3. CASE eng = NumChannels - 1
    <3>1. CallType'
      BY <1>11, <2>3, RestValues DEF StatusStep, CallType
    <3>2. ResultType'
      BY <1>11, <2>1, <2>3 DEF StatusStep, CallType, ResultType, Outcomes
    <3>3. PositionOK'
      BY <1>11, <2>3 DEF StatusStep, PositionOK
    <3> QED
      BY <2>2, <3>1, <3>2, <3>3
  <2>4. CASE eng # NumChannels - 1
    <3>1. eng' \in Engines
      BY <1>11, <2>4, EnginesAreNumbers DEF StatusStep, CallType
    <3>2. CallType'
      BY <1>11, <2>1, <2>4, <3>1 DEF StatusStep, CallType
    <3>3. PositionOK'
      BY <1>11, <2>4, <3>1 DEF StatusStep, PositionOK
    <3> QED
      BY <1>11, <2>2, <2>4, <3>2, <3>3 DEF StatusStep, ResultType
  <2> QED
    BY <2>3, <2>4
<1>12. CASE Raise
  <2>1. CallType' /\ ResultType' /\ PositionOK'
    BY <1>12, ReturnType DEF Raise, Outcomes
  <2>2. ObjType' /\ CardType' /\ abandoned' \in SUBSET Engines
    BY <1>12, UnchangedType DEF Raise, GivesUp, CallType, ObjType
  <2> QED
    BY <2>1, <2>2
<1>13. CASE Restart
  <2>1. CallType'
    BY <1>13, RestValues DEF Restart, CallType
  <2>2. ResultType'
    BY <1>13, RestValues DEF Restart, NoResult, ResultType
  <2>3. ObjType' /\ CardType' /\ abandoned' \in SUBSET Engines
    BY <1>13, UnchangedType DEF Restart, GivesUp, CallType, ObjType
  <2>4. PositionOK'
    BY <1>13 DEF Restart, PositionOK
  <2> QED
    BY <2>1, <2>2, <2>3, <2>4
<1>14. ASSUME NEW e \in Engines, EngineDone(e) PROVE TypeOK' /\ PositionOK'
  <2>1. ObjType' /\ ResultType' /\ abandoned' \in SUBSET Engines
    BY <1>14, UnchangedType DEF EngineDone, ResultType
  <2>2. CallType' /\ PositionOK'
    BY <1>14 DEF EngineDone, callVars, CallType, PositionOK
  <2>3. CardType'
    BY <1>14 DEF EngineDone, CardType
  <2> QED
    BY <2>1, <2>2, <2>3
<1> QED
  BY <1>1, <1>2, <1>3, <1>4, <1>5, <1>6, <1>7, <1>8, <1>9, <1>10, <1>11,
     <1>12, <1>13, <1>14 DEF Next, Progress

\* So does a step that changes nothing.
LEMMA TypeStutter ==
    ASSUME TypeOK, PositionOK, UNCHANGED vars
    PROVE  TypeOK' /\ PositionOK'
BY DEF vars, TypeOK, ObjType, CallType, ResultType, CardType, PositionOK

\* Whatever the card and the callers do, every variable keeps its type.
THEOREM TypeCorrect == Spec => []TypeOK
<1>1. Init => TypeOK /\ PositionOK
  BY InitTypes
<1>2. TypeOK /\ PositionOK /\ [Next]_vars => (TypeOK /\ PositionOK)'
  BY TypeStep, TypeStutter
<1> QED
  BY <1>1, <1>2, PTL DEF Spec

\* What every further proof takes for granted.
Typed == TypeOK /\ PositionOK

\* The types and the position hold initially and every step keeps them.
LEMMA TypedInvariant ==
    /\ Init => Typed
    /\ Typed /\ [Next]_vars => Typed'
BY InitTypes, TypeStep, TypeStutter DEF Typed

(***************************************************************************)
(* Who may have an engine running.                                         *)
(***************************************************************************)

\* Every step that ends a call while it polls leaves the engine in
\* abandoned, every other step keeps pc and busy together.
LEMMA OneEngineStep ==
    ASSUME Typed, OneEngineAtATime, [Next]_vars
    PROVE  OneEngineAtATime'
<1> USE DEF Typed, TypeOK, OneEngineAtATime
<1>1. ASSUME pc # "poll", UNCHANGED << busy, abandoned >>
      PROVE  OneEngineAtATime'
  BY <1>1
<1>2. ASSUME GivesUp, UNCHANGED busy PROVE OneEngineAtATime'
  BY <1>2 DEF GivesUp
<1>3. CASE NewCall
  BY <1>1, <1>3
     DEF NewCall, InitCall, EnterCall, ShutdownCall, ExitCall, StatusCall,
         DmaCall, GemmCall, Enter, Refuse, cardVars
<1>4. CASE VerifyOk
  BY <1>1, <1>4 DEF VerifyOk, cardVars
<1>5. CASE VerifyFails
  BY <1>1, <1>5 DEF VerifyFails, cardVars
<1>6. CASE ProgramStep
  BY <1>1, <1>6 DEF ProgramStep
<1>7. CASE ResetStep
  <2>1. CASE k = 1
    BY <1>7, <2>1, EnginesAreNumbers DEF ResetStep, CardType
  <2>2. CASE k # 1
    BY <1>1, <1>7, <2>2 DEF ResetStep
  <2> QED
    BY <2>1, <2>2
<1>8. CASE CloseBar
  BY <1>1, <1>8 DEF CloseBar, cardVars
<1>9. CASE OperandStep
  BY <1>1, <1>9 DEF OperandStep
<1>10. CASE StartEngine
  BY <1>10 DEF StartEngine, CardType
<1>11. CASE PollStep
  <2>1. CASE ~busy[eng] /\ Return("ok")
    BY <1>11, <2>1 DEF PollStep, Return, cardVars
  <2>2. CASE UNCHANGED << pc, eng >>
    BY <1>11, <2>2 DEF PollStep, cardVars
  <2> QED
    BY <1>11, <2>1, <2>2 DEF PollStep, PollDone
<1>12. CASE PollTimeout
  BY <1>2, <1>12 DEF PollTimeout, cardVars
<1>13. CASE StatusStep
  BY <1>1, <1>13 DEF StatusStep, cardVars
<1>14. CASE Raise
  BY <1>2, <1>14 DEF Raise, cardVars
<1>15. CASE Restart
  BY <1>2, <1>15 DEF Restart, cardVars
<1>16. ASSUME NEW e \in Engines, EngineDone(e) PROVE OneEngineAtATime'
  BY <1>16 DEF EngineDone, CardType, callVars
<1>17. CASE UNCHANGED vars
  BY <1>17 DEF vars
<1> QED
  BY <1>3, <1>4, <1>5, <1>6, <1>7, <1>8, <1>9, <1>10, <1>11, <1>12, <1>13,
     <1>14, <1>15, <1>16, <1>17 DEF Next, Progress

\* An engine runs only for the call that polls it or because it was given up.
THEOREM EngineOwnership == Spec => []OneEngineAtATime
<1>1. Init => OneEngineAtATime
  BY DEF Init, OneEngineAtATime
<1> QED
  BY <1>1, TypedInvariant, OneEngineStep, PTL DEF Spec

\* Nobody writes the operands of a running engine, or starts it again, unless
\* an earlier call gave it up.
THEOREM Undisturbed == Spec => BusyEngineUndisturbed
<1> DEFINE Act == \A e \in Engines :
                      busy[e] /\ (operand'[e] # operand[e] \/ job'[e] # job[e])
                          => e \in abandoned
<1>1. ASSUME Typed, OneEngineAtATime, [Next]_vars
      PROVE  [Act]_vars
  <2>1. CASE UNCHANGED << operand, job >>
    BY <2>1
  <2>2. CASE pc # "poll"
    BY <1>1, <2>2 DEF OneEngineAtATime
  <2>3. CASE pc = "poll" /\ ~UNCHANGED << operand, job >>
    BY <1>1, <2>3
       DEF Next, NewCall, Progress, InitCall, EnterCall, ShutdownCall,
           ExitCall, StatusCall, DmaCall, GemmCall, Enter, Refuse, VerifyOk,
           VerifyFails, ProgramStep, ResetStep, CloseBar, OperandStep,
           StartEngine, PollStep, PollTimeout, StatusStep, Raise, Restart,
           EngineDone, cardVars, vars
  <2> QED
    BY <2>1, <2>2, <2>3
<1>2. Spec => []Typed
  BY TypedInvariant, PTL DEF Spec
<1> QED
  BY <1>1, <1>2, EngineOwnership, PTL DEF Spec, BusyEngineUndisturbed

(***************************************************************************)
(* The queue managers.                                                     *)
(***************************************************************************)

\* In each program the enable bit comes after all the registers the queue
\* manager needs, and all of them are in the program.
LEMMA ProgramOrder ==
    \A e \in Engines :
        /\ Enable \notin QueueRegs(e)
        /\ \A r \in QueueRegs(e) :
              \E i \in 1 .. Len(InitSteps(e)) : InitSteps(e)[i] = r
        /\ \A j \in 1 .. Len(InitSteps(e)) : InitSteps(e)[j] = Enable =>
              \A r \in QueueRegs(e) : \E i \in 1 .. j - 1 : InitSteps(e)[i] = r
<1>1. TAKE e \in Engines
<1>2. CASE e = MME
  <2> DEFINE regs == {"PQ_BASE", "PQ_INDICES", "CP_MSG_BASE", "CQ_CFG0",
                      "GLBL_ERR", "GLBL_PROT"}
  <2>1. /\ Len(MmeInit) = 8
        /\ MmeInit[1] = "PQ_BASE" /\ MmeInit[2] = "PQ_INDICES"
        /\ MmeInit[3] = "CP_MSG_BASE" /\ MmeInit[4] = "CQ_CFG0"
        /\ MmeInit[5] = "GLBL_ERR" /\ MmeInit[6] = "GLBL_PROT"
        /\ MmeInit[7] = "GLBL_CFG0" /\ MmeInit[8] = "SM_BASE_ADDRESS"
    BY DEF MmeInit, Enable
  <2>2. InitSteps(e) = MmeInit /\ QueueRegs(e) = regs
    BY <1>2 DEF InitSteps, QueueRegs
  <2>3. \A r \in regs : \E i \in 1 .. 6 : MmeInit[i] = r
    BY <2>1
  <2>4. \A j \in 1 .. 8 : MmeInit[j] = "GLBL_CFG0" => j = 7
    BY <2>1
  <2>5. "GLBL_CFG0" \notin regs
    OBVIOUS
  <2> HIDE DEF regs
  <2>6. Enable = "GLBL_CFG0" /\ Len(InitSteps(e)) = 8
    BY <2>1, <2>2 DEF Enable
  <2>7. \A r \in QueueRegs(e) : \E i \in 1 .. 6 : InitSteps(e)[i] = r
    BY <2>2, <2>3
  <2>8. \A j \in 1 .. 8 : InitSteps(e)[j] = Enable => j - 1 = 6
    BY <2>2, <2>4, <2>6
  <2>9. \A r \in QueueRegs(e) : \E i \in 1 .. 8 : InitSteps(e)[i] = r
    BY <2>7
  <2>10. Enable \notin QueueRegs(e)
    BY <2>2, <2>5, <2>6
  <2> QED
    BY <2>6, <2>7, <2>8, <2>9, <2>10
<1>3. CASE e # MME
  <2> DEFINE regs == {"PQ_BASE", "PQ_INDICES", "CP_MSG_BASE", "CQ_CFG0",
                      "GLBL_ERR", "GLBL_PROT"} \cup {"CP_LDMA"}
  <2>1. /\ Len(DmaInit) = 9
        /\ DmaInit[1] = "PQ_BASE" /\ DmaInit[2] = "PQ_INDICES"
        /\ DmaInit[3] = "CP_LDMA" /\ DmaInit[4] = "CP_MSG_BASE"
        /\ DmaInit[5] = "CQ_CFG0" /\ DmaInit[6] = "GLBL_ERR"
        /\ DmaInit[7] = "GLBL_PROT" /\ DmaInit[8] = "GLBL_CFG0"
        /\ DmaInit[9] = "CH_CFG"
    BY DEF DmaInit, Enable
  <2>2. InitSteps(e) = DmaInit /\ QueueRegs(e) = regs
    BY <1>3 DEF InitSteps, QueueRegs
  <2>3. \A r \in regs : \E i \in 1 .. 7 : DmaInit[i] = r
    BY <2>1
  <2>4. \A j \in 1 .. 9 : DmaInit[j] = "GLBL_CFG0" => j = 8
    BY <2>1
  <2>5. "GLBL_CFG0" \notin regs
    OBVIOUS
  <2> HIDE DEF regs
  <2>6. Enable = "GLBL_CFG0" /\ Len(InitSteps(e)) = 9
    BY <2>1, <2>2 DEF Enable
  <2>7. \A r \in QueueRegs(e) : \E i \in 1 .. 7 : InitSteps(e)[i] = r
    BY <2>2, <2>3
  <2>8. \A j \in 1 .. 9 : InitSteps(e)[j] = Enable => j - 1 = 7
    BY <2>2, <2>4, <2>6
  <2>9. \A r \in QueueRegs(e) : \E i \in 1 .. 9 : InitSteps(e)[i] = r
    BY <2>7
  <2>10. Enable \notin QueueRegs(e)
    BY <2>2, <2>5, <2>6
  <2> QED
    BY <2>6, <2>7, <2>8, <2>9, <2>10
<1> QED
  BY <1>2, <1>3

\* The part of the inductive invariant that is about the queue managers.
QueueInv ==
    ProgrammedSoFar /\ QueueEnabledOnlyProgrammed /\ InitializedMeansProgrammed

\* Every step keeps it: init() adds registers in the order of its program,
\* shutdown() only takes enable bits away, nothing else touches them.
LEMMA QueueStep ==
    ASSUME Typed, QueueInv, [Next]_vars
    PROVE  QueueInv'
<1> USE DEF QueueInv, ProgrammedSoFar, QueueEnabledOnlyProgrammed,
            InitializedMeansProgrammed, Enabled
<1>1. ASSUME UNCHANGED qm, pc' # "program", initialized' => initialized
      PROVE  QueueInv'
  BY <1>1
<1>2. CASE NewCall
  BY <1>1, <1>2
     DEF NewCall, InitCall, EnterCall, ShutdownCall, ExitCall, StatusCall,
         DmaCall, GemmCall, Enter, Refuse, objVars, callVars, cardVars
<1>3. CASE VerifyOk
  <2>1. CASE Goto("verify_min", 0, 1)
    BY <1>1, <1>3, <2>1 DEF VerifyOk, Goto, objVars, cardVars
  <2>2. CASE Goto("program", 0, 1)
    BY <1>3, <2>2 DEF VerifyOk, Goto, objVars, cardVars
  <2> QED
    BY <1>3, <2>1, <2>2 DEF VerifyOk
<1>4. CASE ProgramStep
  <2> DEFINE s == InitSteps(eng)
  <2>1. eng \in Engines /\ k \in 1 .. Len(s) /\ Len(s) \in Nat
    BY <1>4, InitStepsType
       DEF ProgramStep, Typed, TypeOK, CallType, PositionOK
  <2>2. /\ DOMAIN qm = Engines
        /\ qm' = [qm EXCEPT ![eng] = @ \cup {s[k]}]
    BY <1>4 DEF ProgramStep, Typed, TypeOK, CardType
  <2>3. /\ \A e \in Engines : e # eng => qm'[e] = qm[e]
        /\ qm'[eng] = qm[eng] \cup {s[k]}
    BY <2>1, <2>2
  <2>4. \A i \in 1 .. k : s[i] \in qm'[eng]
    <3>1. \A i \in 1 .. k - 1 : s[i] \in qm[eng]
      BY <1>4 DEF ProgramStep
    <3> QED
      BY <2>1, <2>3, <3>1
  <2>5. QueueEnabledOnlyProgrammed'
    <3>1. SUFFICES ASSUME NEW e \in Engines, Enable \in qm'[e]
                   PROVE  QueueRegs(e) \subseteq qm'[e]
      OBVIOUS
    <3>2. CASE Enable \in qm[e]
      BY <2>1, <2>3, <3>2
    <3>3. CASE Enable \notin qm[e]
      <4>1. e = eng /\ s[k] = Enable
        BY <2>1, <2>3, <3>1, <3>3
      <4>2. \A r \in QueueRegs(e) : \E i \in 1 .. k - 1 : s[i] = r
        BY <2>1, <4>1, ProgramOrder
      <4> QED
        BY <2>1, <2>4, <4>1, <4>2
    <3> QED
      BY <3>2, <3>3
  <2>6. \A e \in 0 .. eng - 1 : e \in Engines /\ QueueRegs(e) \subseteq qm'[e]
    <3>1. \A e \in 0 .. eng - 1 : QueueRegs(e) \subseteq qm[e]
      BY <1>4 DEF ProgramStep
    <3>2. \A e \in 0 .. eng - 1 : e \in Engines /\ e # eng
      BY <2>1, NumChannelsAssumption DEF Engines
    <3> QED
      BY <2>3, <3>1, <3>2
  <2>7. k = Len(s) => \A e \in 0 .. eng : QueueRegs(e) \subseteq qm'[e]
    <3>1. SUFFICES ASSUME k = Len(s), NEW e \in 0 .. eng
                   PROVE  QueueRegs(e) \subseteq qm'[e]
      OBVIOUS
    <3>2. CASE e = eng
      <4>1. \A r \in QueueRegs(eng) : \E i \in 1 .. k : s[i] = r
        BY <2>1, <3>1, ProgramOrder
      <4> QED
        BY <2>4, <3>2, <4>1
    <3>3. CASE e # eng
      <4>1. eng \in Nat
        BY <2>1, EnginesAreNumbers
      <4>2. e \in 0 .. eng - 1
        BY <3>3, <4>1
      <4> QED
        BY <2>6, <4>2
    <3> QED
      BY <3>2, <3>3
  <2>8. InitializedMeansProgrammed /\ initialized' = initialized
          => InitializedMeansProgrammed'
    BY <2>1, <2>3
  <2>9. CASE k < Len(s) /\ Goto("program", eng, k + 1)
             /\ UNCHANGED << objVars, result >>
    <3>1. ProgrammedSoFar'
      BY <2>1, <2>4, <2>6, <2>9 DEF Goto
    <3> QED
      BY <2>5, <2>8, <2>9, <3>1 DEF objVars
  <2>10. CASE k = Len(s) /\ eng # MME /\ Goto("program", eng + 1, 1)
              /\ UNCHANGED << objVars, result >>
    <3>1. (eng + 1) - 1 = eng
      BY <2>1, EnginesAreNumbers
    <3>2. ProgrammedSoFar'
      BY <2>7, <2>10, <3>1 DEF Goto
    <3> QED
      BY <2>5, <2>8, <2>10, <3>2 DEF objVars
  <2>11. CASE k = Len(s) /\ eng = MME /\ Return("ok")
    <3>1. Engines = 0 .. eng
      BY <2>11 DEF Engines, MME
    <3>2. InitializedMeansProgrammed' /\ ProgrammedSoFar'
      BY <2>7, <2>11, <3>1 DEF Return
    <3> QED
      BY <2>5, <3>2
  <2> QED
    BY <1>4, <2>9, <2>10, <2>11 DEF ProgramStep
<1>5. CASE ResetStep
  <2>1. CASE k = 1
    BY <1>1, <1>5, <2>1 DEF ResetStep, Goto, Return, objVars
  <2>2. CASE k # 1
    <3>1. DOMAIN qm = Engines
      BY DEF Typed, TypeOK, CardType
    <3>2. qm' = [qm EXCEPT ![k - 2] = @ \ {Enable}]
      BY <1>5, <2>2 DEF ResetStep
    <3>3. \A e \in Engines : qm'[e] = qm[e] \/ qm'[e] = qm[e] \ {Enable}
      BY <3>1, <3>2
    <3>4. \A e \in Engines : Enable \notin QueueRegs(e)
      BY ProgramOrder
    <3>5. pc' # "program" /\ (initialized' => initialized)
      BY <1>5 DEF ResetStep, Goto, Return, objVars
    <3> QED
      BY <3>3, <3>4, <3>5
  <2> QED
    BY <2>1, <2>2
<1>6. CASE CloseBar \/ VerifyFails \/ PollTimeout
  BY <1>1, <1>6
     DEF CloseBar, VerifyFails, PollTimeout, Return, objVars, cardVars
<1>7. CASE OperandStep \/ StartEngine
  BY <1>1, <1>7 DEF OperandStep, StartEngine, Goto, objVars
<1>8. CASE PollStep
  BY <1>1, <1>8 DEF PollStep, Return, objVars, cardVars
<1>9. CASE StatusStep
  BY <1>1, <1>9 DEF StatusStep, objVars, cardVars
<1>10. CASE Raise \/ Restart
  BY <1>1, <1>10 DEF Raise, Restart, Return, cardVars
<1>11. ASSUME NEW e \in Engines, EngineDone(e) PROVE QueueInv'
  BY <1>11 DEF EngineDone, objVars, callVars
<1>12. CASE UNCHANGED vars
  BY <1>12 DEF vars
<1> QED
  BY <1>2, <1>3, <1>4, <1>5, <1>6, <1>7, <1>8, <1>9, <1>10, <1>11, <1>12
     DEF Next, Progress

\* It holds in every state that is reached.
LEMMA QueueInvariant == Spec => []QueueInv
<1>1. Init => QueueInv
  BY DEF Init, QueueInv, ProgrammedSoFar, QueueEnabledOnlyProgrammed,
         InitializedMeansProgrammed, Enabled
<1> QED
  BY <1>1, TypedInvariant, QueueStep, PTL DEF Spec

\* No queue manager is enabled with a register of it unprogrammed.
THEOREM EnabledAreProgrammed == Spec => []QueueEnabledOnlyProgrammed
<1>1. QueueInv => QueueEnabledOnlyProgrammed
  BY DEF QueueInv
<1> QED
  BY <1>1, QueueInvariant, PTL

\* An initialized object has a programmed card under it.
THEOREM InitializedIsProgrammed == Spec => []InitializedMeansProgrammed
<1>1. QueueInv => InitializedMeansProgrammed
  BY DEF QueueInv
<1> QED
  BY <1>1, QueueInvariant, PTL

\* All of it together: the inductive invariant.
IInv == Typed /\ QueueInv /\ OneEngineAtATime

LEMMA InductiveInvariant == Spec => []IInv
<1>1. Typed /\ QueueInv /\ OneEngineAtATime => IInv
  BY DEF IInv
<1>2. Spec => []Typed
  BY TypedInvariant, PTL DEF Spec
<1> QED
  BY <1>1, <1>2, QueueInvariant, EngineOwnership, PTL

-----------------------------------------------------------------------------
(***************************************************************************)
(* A call is bounded.                                                      *)
(***************************************************************************)
Nearer == StepsLeft' \in 0 .. StepsLeft - 1

LEMMA WorkStepsLength ==
    ASSUME NEW e \in Engines, NEW a \in Args(e)
    PROVE  Len(WorkSteps(e, a)) \in Nat
BY DEF WorkSteps, GemmSteps, DmaSteps

\* The sizes StepsLeft is made of.
LEMMA Sizes ==
    /\ Len(DmaInit) = 9 /\ Len(MmeInit) = 8
    /\ MME \in Nat /\ MME = NumChannels /\ ResetLength = MME + 2 /\ MaxPolls \in Nat
    /\ NumChannels # 0
    /\ Engines = 0 .. MME
BY NumChannelsAssumption, MaxPollsAssumption
DEF DmaInit, MmeInit, MME, ResetLength, Engines

\* In each state of a call there is at least one step left.
LEMMA SomeLeft ==
    ASSUME IInv, pc # "idle"
    PROVE  StepsLeft \in Nat \ {0}
<1>1. /\ pc \in PCs /\ eng \in Engines /\ k \in Nat /\ polls \in 0 .. MaxPolls
      /\ PositionOK
  BY DEF IInv, Typed, TypeOK, CallType
<1>2. CASE pc \in {"verify", "verify_min", "close", "start", "poll"}
  BY <1>1, <1>2, Sizes DEF StepsLeft
<1>3. CASE pc = "program"
  <2>1. k \in 1 .. Len(InitSteps(eng))
    BY <1>1, <1>3 DEF PositionOK
  <2>2. StepsLeft = 9 * (MME + 1 - eng) - k
    BY <1>3, Sizes DEF StepsLeft
  <2>3. Len(InitSteps(eng)) = IF eng = MME THEN 8 ELSE 9
    BY Sizes DEF InitSteps
  <2>4. eng \in 0 .. MME /\ MME \in Nat
    BY <1>1, Sizes
  <2> QED
    BY <2>1, <2>2, <2>3, <2>4
<1>4. CASE pc = "reset"
  BY <1>1, <1>4, Sizes DEF StepsLeft, PositionOK
<1>5. CASE pc = "operands"
  <2> DEFINE n == Len(WorkSteps(eng, arg))
  <2>1. n \in Nat /\ k \in 1 .. n
    BY <1>1, <1>5, WorkStepsLength DEF PositionOK
  <2>2. StepsLeft = n - k + 1 + (MaxPolls + 2)
    BY <1>5 DEF StepsLeft
  <2> QED
    BY <2>1, <2>2, Sizes
<1>6. CASE pc = "status"
  BY <1>1, <1>6, Sizes DEF StepsLeft
<1> QED
  BY <1>1, <1>2, <1>3, <1>4, <1>5, <1>6 DEF PCs

LEMMA EndIsNearer ==
    ASSUME IInv, pc # "idle", pc' = "idle"
    PROVE  Nearer
<1>1. StepsLeft' = 0
  BY DEF StepsLeft
<1> QED
  BY <1>1, SomeLeft DEF Nearer

LEMMA ProgressNearer ==
    ASSUME IInv, Progress
    PROVE  Nearer
<1>1. /\ pc \in PCs /\ eng \in Engines /\ k \in Nat /\ polls \in 0 .. MaxPolls
      /\ PositionOK
  BY DEF IInv, Typed, TypeOK, CallType
<1>2. pc # "idle"
  BY DEF Progress, VerifyOk, VerifyFails, ProgramStep, ResetStep, CloseBar, OperandStep,
         StartEngine, PollStep, PollTimeout, StatusStep
<1>3. \A out : Return(out) => pc' = "idle"
  BY DEF Return
<1>4. CASE pc' = "idle"
  BY <1>2, <1>4, EndIsNearer
<1>5. CASE pc' # "idle"
  <2>1. CASE VerifyOk
    <3>1. \/ pc = "verify" /\ pc' = "verify_min"
          \/ pc = "verify_min" /\ pc' = "program" /\ eng' = 0 /\ k' = 1
      BY <2>1 DEF VerifyOk, Goto
    <3>2. /\ pc = "verify" => StepsLeft = 9 * (MME + 1) + 1
          /\ pc = "verify_min" => StepsLeft = 9 * (MME + 1)
      BY Sizes DEF StepsLeft
    <3>3. /\ pc' = "verify_min" => StepsLeft' = 9 * (MME + 1)
          /\ pc' = "program" => StepsLeft' = 9 * (MME + 1 - eng') - k'
      BY Sizes DEF StepsLeft, MME
    <3>4. StepsLeft' = StepsLeft - 1 /\ StepsLeft \in Nat \ {0}
      BY <3>1, <3>2, <3>3, Sizes
    <3> QED
      BY <3>4 DEF Nearer
  <2>2. CASE ProgramStep
    <3>1. /\ pc = "program" /\ pc' = "program"
          /\ \/ k < Len(InitSteps(eng)) /\ eng' = eng /\ k' = k + 1
             \/ k = Len(InitSteps(eng)) /\ eng # MME /\ eng' = eng + 1 /\ k' = 1
      BY <1>3, <1>5, <2>2 DEF ProgramStep, Goto
    <3>2. /\ StepsLeft = 9 * (MME + 1 - eng) - k
          /\ StepsLeft' = 9 * (MME + 1 - eng') - k'
      BY <3>1, Sizes DEF StepsLeft, MME
    <3>3. Len(InitSteps(eng)) = IF eng = MME THEN 8 ELSE 9
      BY Sizes DEF InitSteps
    <3> QED
      BY <1>1, <3>1, <3>2, <3>3, Sizes DEF Nearer
  <2>3. CASE ResetStep
    <3>1. /\ pc = "reset"
          /\ \/ k < ResetLength /\ pc' = "reset" /\ k' = k + 1
             \/ k = ResetLength /\ pc' = "close"
      BY <1>3, <1>5, <2>3 DEF ResetStep, Goto
    <3>2. /\ StepsLeft = ResetLength - k + 2
          /\ pc' = "reset" => StepsLeft' = ResetLength - k' + 2
          /\ pc' = "close" => StepsLeft' = 1
      BY <3>1 DEF StepsLeft, ResetLength
    <3>3. k \in Nat /\ ResetLength \in Nat
      BY <1>1, Sizes
    <3> QED
      BY <3>1, <3>2, <3>3 DEF Nearer
  <2>4. CASE OperandStep
    <3> DEFINE n == Len(WorkSteps(eng, arg))
    <3>1. /\ pc = "operands" /\ eng' = eng /\ arg' = arg
          /\ IF k < n THEN pc' = "operands" /\ k' = k + 1 ELSE pc' = "start"
      BY <2>4 DEF OperandStep, Goto
    <3>2. n \in Nat /\ k \in 1 .. n
      BY <1>1, <3>1, WorkStepsLength DEF PositionOK
    <3>3. n' = n
      BY <3>1 DEF WorkSteps, GemmSteps, DmaSteps, MME
    <3>4. /\ StepsLeft = n - k + 1 + (MaxPolls + 2)
          /\ pc' = "operands" => StepsLeft' = n' - k' + 1 + (MaxPolls + 2)
          /\ pc' = "start" => StepsLeft' = MaxPolls + 2
      BY <3>1 DEF StepsLeft
    <3> HIDE DEF n
    <3> QED
      BY <3>1, <3>2, <3>3, <3>4, Sizes DEF Nearer
  <2>5. CASE StartEngine
    <3>1. pc = "start" /\ pc' = "poll" /\ polls' = MaxPolls
      BY <2>5 DEF StartEngine, StartPolls
    <3> QED
      BY <3>1, Sizes DEF StepsLeft, Nearer
  <2>6. CASE PollStep
    <3>1. pc = "poll" /\ pc' = "poll" /\ polls > 0 /\ polls' = polls - 1
      BY <1>3, <1>5, <2>6 DEF PollStep, Left
    <3> QED
      BY <1>1, <3>1, Sizes DEF StepsLeft, Nearer
  <2>7. CASE StatusStep
    <3>1. /\ pc = "status" /\ pc' = "status" /\ eng # NumChannels - 1
          /\ eng' = IF eng = MME THEN 0 ELSE eng + 1
      BY <1>5, <2>7 DEF StatusStep
    <3>2. /\ StepsLeft = IF eng = MME THEN NumChannels + 1 ELSE NumChannels - eng
          /\ StepsLeft' = IF eng' = MME THEN NumChannels + 1 ELSE NumChannels - eng'
      BY <3>1 DEF StepsLeft, MME
    <3> QED
      BY <1>1, <3>1, <3>2, Sizes DEF Nearer
  <2>8. CASE VerifyFails \/ CloseBar \/ PollTimeout
    BY <1>3, <1>5, <2>8 DEF VerifyFails, CloseBar, PollTimeout
  <2> QED
    BY <2>1, <2>2, <2>3, <2>4, <2>5, <2>6, <2>7, <2>8 DEF Progress
<1> QED
  BY <1>4, <1>5

\* Whatever fails and whatever the card does, a call makes no more steps than
\* its register programs and its polling loop have.
THEOREM Bounded == Spec => CallAdvances
<1>1. IInv /\ [Next]_vars => [pc # "idle" => UNCHANGED callVars \/ Nearer]_vars
  <2>1. ASSUME IInv, Next, pc # "idle" PROVE UNCHANGED callVars \/ Nearer
    <3>1. CASE Progress
      BY <2>1, <3>1, ProgressNearer
    <3>2. CASE Raise \/ Restart
      <4>1. pc' = "idle"
        BY <3>2 DEF Raise, Restart, Return
      <4> QED
        BY <2>1, <4>1, EndIsNearer
    <3>3. CASE \E e \in Engines : EngineDone(e)
      BY <3>3 DEF EngineDone
    <3>4. ~NewCall
      BY <2>1 DEF NewCall, InitCall, EnterCall, ShutdownCall, ExitCall, StatusCall, DmaCall,
                  GemmCall, Enter, Refuse
    <3> QED
      BY <2>1, <3>1, <3>2, <3>3, <3>4 DEF Next
  <2> QED
    BY <2>1
<1>2. [pc # "idle" => UNCHANGED callVars \/ Nearer]_vars
      => [pc # "idle" => UNCHANGED callVars \/ StepsLeft' \in 0 .. StepsLeft - 1]_vars
  BY DEF Nearer
<1> QED
  BY <1>1, <1>2, InductiveInvariant, PTL DEF Spec, CallAdvances
=============================================================================
