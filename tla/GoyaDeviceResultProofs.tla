---------------------- MODULE GoyaDeviceResultProofs ----------------------
(***************************************************************************)
(* Theorems about GoyaDevice: what its engines run, what the results of    *)
(* its calls mean, and that it implements DeviceService.                   *)
(***************************************************************************)
EXTENDS GoyaDeviceProofs, GoyaDeviceService, SequenceTheorems

(***************************************************************************)
(* Which call is at which label.                                           *)
(***************************************************************************)
OpFits ==
    /\ pc = "idle" => op = "none"
    /\ pc \in {"verify", "verify_min", "program"} => op \in {"init", "enter"}
    /\ pc = "reset" => op \in {"shutdown", "exit"}
    /\ pc = "close" => op = "exit"
    /\ pc \in {"operands", "start", "poll"} => op \in {"dma", "gemm"}
    /\ pc = "status" => op = "status"

LEMMA ThreeSteps ==
    ASSUME NEW S, NEW x \in S, NEW y \in S, NEW z \in S
    PROVE  << x, y, z >> \in Seq(S) /\ Len(<< x, y, z >>) = 3
OBVIOUS

\* Every action moves to a label that belongs to the call in progress.
LEMMA OpFitsInvariant ==
    /\ Init => OpFits
    /\ OpFits /\ [Next]_vars => OpFits'
<1>1. Init => OpFits
  BY DEF Init, OpFits
<1>2. ASSUME OpFits, NewCall PROVE OpFits'
  BY <1>2
     DEF OpFits, NewCall, InitCall, EnterCall, ShutdownCall, ExitCall,
         StatusCall, DmaCall, GemmCall, Enter, Refuse, callVars
<1>3. ASSUME OpFits, VerifyOk \/ ProgramStep \/ ResetStep PROVE OpFits'
  BY <1>3 DEF OpFits, VerifyOk, ProgramStep, ResetStep, Goto, Return
<1>4. ASSUME OpFits, VerifyFails \/ CloseBar \/ PollTimeout \/ Raise
      PROVE  OpFits'
  BY <1>4 DEF OpFits, VerifyFails, CloseBar, PollTimeout, Raise, Return
<1>5. ASSUME OpFits, OperandStep \/ StartEngine \/ PollStep PROVE OpFits'
  BY <1>5 DEF OpFits, OperandStep, StartEngine, PollStep, Goto, Return
<1>6. ASSUME OpFits, StatusStep \/ Restart PROVE OpFits'
  BY <1>6 DEF OpFits, StatusStep, Restart
<1>7. ASSUME OpFits, NEW e \in Engines, EngineDone(e) PROVE OpFits'
  BY <1>7 DEF OpFits, EngineDone, callVars
<1>8. ASSUME OpFits, UNCHANGED vars PROVE OpFits'
  BY <1>8 DEF OpFits, vars
<1> QED
  BY <1>1, <1>2, <1>3, <1>4, <1>5, <1>6, <1>7, <1>8 DEF Next, Progress

(***************************************************************************)
(* What an engine runs.                                                    *)
(***************************************************************************)

\* A work program writes every operand its engine reads, and the header, if
\* there is one, last.
LEMMA WorkStepsCover ==
    ASSUME NEW e \in Engines, NEW a \in Args(e)
    PROVE  /\ \A f \in Uses(e, a) :
                 \E i \in 1 .. Len(WorkSteps(e, a)) : WorkSteps(e, a)[i] = f
           /\ \A i \in 1 .. Len(WorkSteps(e, a)) :
                 WorkSteps(e, a)[i] = "HEADER" => i = Len(WorkSteps(e, a))
           /\ e = MME => WorkSteps(e, a)[Len(WorkSteps(e, a))] = "HEADER"
<1>1. CASE e # MME
  <2>1. WorkSteps(e, a) = DmaSteps /\ Uses(e, a) = ChFields
    BY <1>1 DEF WorkSteps, Uses
  <2>2. /\ Len(DmaSteps) = 3
        /\ DmaSteps[1] = "SRC" /\ DmaSteps[2] = "DST" /\ DmaSteps[3] = "TSIZE"
    BY DEF DmaSteps
  <2> QED
    BY <1>1, <2>1, <2>2 DEF ChFields
<1>2. CASE e = MME
  <2> DEFINE first == << "ABC_ADDR" >>
             cin   == IF a \in LoadsCin THEN << "CIN_ADDR" >> ELSE << >>
             bias  == IF a \in LoadsBias THEN << "BIAS_ADDR" >> ELSE << >>
             last  == << "DIMS", "ZP", "HEADER" >>
             p     == GemmSteps(a)
             c     == Len(cin)
             n     == Len(cin) + Len(bias)
  <2>1. first \in Seq(MmeFields) /\ Len(first) = 1 /\ first[1] = "ABC_ADDR"
    BY DEF MmeFields
  <2>2. cin \in Seq(MmeFields) /\ Len(cin) = (IF a \in LoadsCin THEN 1 ELSE 0)
        /\ (a \in LoadsCin => cin[1] = "CIN_ADDR")
    <3>1. CASE a \in LoadsCin
      BY <3>1 DEF MmeFields
    <3>2. CASE a \notin LoadsCin
      BY <3>2 DEF MmeFields
    <3> QED
      BY <3>1, <3>2
  <2>3. bias \in Seq(MmeFields) /\ Len(bias) = (IF a \in LoadsBias THEN 1 ELSE 0)
        /\ (a \in LoadsBias => bias[1] = "BIAS_ADDR")
    <3>1. CASE a \in LoadsBias
      BY <3>1 DEF MmeFields
    <3>2. CASE a \notin LoadsBias
      BY <3>2 DEF MmeFields
    <3> QED
      BY <3>1, <3>2
  <2>4. last \in Seq(MmeFields) /\ Len(last) = 3
    <3>1. "DIMS" \in MmeFields /\ "ZP" \in MmeFields /\ "HEADER" \in MmeFields
      BY DEF MmeFields
    <3> QED
      BY <3>1, ThreeSteps
  <2>5. last[1] = "DIMS" /\ last[2] = "ZP" /\ last[3] = "HEADER"
    OBVIOUS
  <2>6. p = ((first \o cin) \o bias) \o last
    BY DEF GemmSteps
  <2> HIDE DEF first, cin, bias, last, p
  <2> DEFINE q == first \o cin
             r == q \o bias
  <2>7. /\ q \in Seq(MmeFields) /\ Len(q) = 1 + c
        /\ q[1] = "ABC_ADDR"
        /\ a \in LoadsCin => q[2] = "CIN_ADDR"
    <3>1. /\ q \in Seq(MmeFields) /\ Len(q) = Len(first) + Len(cin)
          /\ \A j \in 1 .. Len(first) + Len(cin) :
                q[j] = IF j <= Len(first) THEN first[j] ELSE cin[j - Len(first)]
      BY <2>1, <2>2, ConcatProperties
    <3>2. Len(first) = 1 /\ Len(cin) \in {0, 1} /\ c = Len(cin)
      BY <2>1, <2>2
    <3>3. q[1] = first[1]
      BY <3>1, <3>2
    <3>4. a \in LoadsCin => q[2] = cin[1]
      BY <2>2, <3>1, <3>2
    <3> HIDE DEF q
    <3> QED
      BY <2>1, <2>2, <3>1, <3>2, <3>3, <3>4
  <2> HIDE DEF q
  <2>8. /\ r \in Seq(MmeFields) /\ Len(r) = 1 + n
        /\ r[1] = "ABC_ADDR"
        /\ a \in LoadsCin => r[2] = "CIN_ADDR"
        /\ a \in LoadsBias => r[2 + c] = "BIAS_ADDR"
    <3>1. \A i \in 1 .. Len(q) + Len(bias) :
             r[i] = IF i <= Len(q) THEN q[i] ELSE bias[i - Len(q)]
      BY <2>3, <2>7, ConcatProperties
    <3>2. r \in Seq(MmeFields) /\ Len(r) = Len(q) + Len(bias)
      BY <2>3, <2>7, ConcatProperties
    <3> QED
      BY <2>2, <2>3, <2>7, <3>1, <3>2
  <2> HIDE DEF r
  <2>9. /\ Len(p) = 4 + n
        /\ p[1] = "ABC_ADDR"
        /\ a \in LoadsCin => p[2] = "CIN_ADDR"
        /\ a \in LoadsBias => p[2 + c] = "BIAS_ADDR"
        /\ p[2 + n] = "DIMS" /\ p[3 + n] = "ZP" /\ p[4 + n] = "HEADER"
    <3>1. p = r \o last
      BY <2>6 DEF q, r
    <3>2. \A i \in 1 .. Len(r) + Len(last) :
             p[i] = IF i <= Len(r) THEN r[i] ELSE last[i - Len(r)]
      <4>1. \A i \in 1 .. Len(r) + Len(last) :
               (r \o last)[i] = IF i <= Len(r) THEN r[i] ELSE last[i - Len(r)]
        <5>1. r \in Seq(MmeFields) /\ last \in Seq(MmeFields)
          BY <2>4, <2>8
        <5> QED
          BY <5>1, ConcatProperties
      <4> QED
        BY <3>1, <4>1
    <3>3. Len(p) = Len(r) + Len(last)
      BY <2>4, <2>8, <3>1, ConcatProperties
    <3> QED
      BY <2>2, <2>3, <2>4, <2>5, <2>8, <3>2, <3>3
  <2>10. c \in 0 .. 1 /\ n \in 0 .. 2
    BY <2>2, <2>3
  <2>11. /\ WorkSteps(e, a) = p
         /\ Uses(e, a) = MmeFields \ (
                 (IF a \in LoadsCin THEN {} ELSE {"CIN_ADDR"})
            \cup (IF a \in LoadsBias THEN {} ELSE {"BIAS_ADDR"}))
    BY <1>2 DEF WorkSteps, Uses, p
  <2>12. ASSUME NEW f \in Uses(e, a)
         PROVE  \E i \in 1 .. Len(p) : p[i] = f
    <3>1. f \in MmeFields
          /\ (f = "CIN_ADDR" => a \in LoadsCin)
          /\ (f = "BIAS_ADDR" => a \in LoadsBias)
      BY <2>11, <2>12
    <3>2. {1, 2 + n, 3 + n, 4 + n} \subseteq 1 .. Len(p)
      BY <2>9, <2>10
    <3>3. a \in LoadsCin => 2 \in 1 .. Len(p)
      BY <2>9, <2>10
    <3>4. a \in LoadsBias => 2 + c \in 1 .. Len(p)
      BY <2>9, <2>10
    <3> QED
      BY <2>9, <3>1, <3>2, <3>3, <3>4 DEF MmeFields
  <2>13. ASSUME NEW i \in 1 .. Len(p), p[i] = "HEADER"
         PROVE  i = Len(p)
    <3>1. CASE i <= 1 + n
      <4>1. \/ i = 1
            \/ i = 2 /\ a \in LoadsCin
            \/ i = 2 + c /\ a \in LoadsBias
        BY <2>2, <2>3, <3>1
      <4> QED
        BY <2>9, <2>13, <4>1
    <3>2. CASE i \in {2 + n, 3 + n, 4 + n}
      BY <2>9, <2>13, <3>2
    <3> QED
      BY <2>9, <2>10, <3>1, <3>2
  <2> QED
    BY <1>2, <2>9, <2>11, <2>12, <2>13
<1> QED
  BY <1>1, <1>2

\* What a call has written of its operands so far, and that an engine about
\* to be started finds them whole.
OperandsWhole ==
    /\ pc = "operands" =>
          \A i \in 1 .. k - 1 : operand[eng][WorkSteps(eng, arg)[i]] = arg
    /\ pc = "start" =>
          \A f \in Uses(eng, arg) :
              (IF eng = MME THEN latched ELSE operand[eng])[f] = arg

\* The operands a call has written stay until it starts its engine.
LEMMA OperandsWholeStep ==
    ASSUME Typed, OperandsWhole, [Next]_vars
    PROVE  OperandsWhole'
<1>1. ASSUME pc' \notin {"operands", "start"} PROVE OperandsWhole'
  BY <1>1 DEF OperandsWhole
<1>2. ASSUME UNCHANGED << pc, eng, arg, k, operand, latched >>
      PROVE  OperandsWhole'
  BY <1>2 DEF OperandsWhole
<1>3. CASE NewCall
  <2>1. ASSUME NEW o, NEW l, NEW e, NEW a, Enter(o, l, e, a)
        PROVE  OperandsWhole' \/ l = "start"
    BY <2>1 DEF Enter, OperandsWhole
  <2>2. ASSUME NEW o, NEW e, NEW a, NEW out, Refuse(o, e, a, out)
        PROVE  OperandsWhole'
    BY <1>2, <2>2 DEF Refuse, callVars, cardVars
  <2> QED
    BY <1>3, <2>1, <2>2
       DEF NewCall, InitCall, EnterCall, ShutdownCall, ExitCall, StatusCall,
           DmaCall, GemmCall
<1>4. CASE OperandStep
  <2> DEFINE W == WorkSteps(eng, arg)
  <2>1. /\ eng \in Engines /\ arg \in Args(eng) /\ k \in 1 .. Len(W)
        /\ k \in Nat /\ pc = "operands"
    BY <1>4 DEF Typed, TypeOK, CallType, PositionOK, OperandStep
  <2>2. /\ W \in Seq(Fields(eng)) /\ W[k] \in Fields(eng) /\ Len(W) \in Nat
    BY <2>1, WorkStepsType
  <2>3. operand[eng] \in [Fields(eng) -> Args(eng) \cup {NoArg}]
        /\ DOMAIN operand = Engines
    BY <2>1 DEF Typed, TypeOK, CardType, Operands
  <2>4. operand' = [operand EXCEPT ![eng][W[k]] = arg]
    BY <1>4 DEF OperandStep
  <2>5. operand'[eng] = [operand[eng] EXCEPT ![W[k]] = arg]
    BY <2>1, <2>3, <2>4
  <2> HIDE DEF W
  <2>6. \A i \in 1 .. k : operand'[eng][W[i]] = arg
    <3> SUFFICES ASSUME NEW i \in 1 .. k PROVE operand'[eng][W[i]] = arg
      OBVIOUS
    <3>1. W[i] \in Fields(eng)
      BY <2>1, <2>2
    <3>2. CASE W[i] = W[k]
      BY <2>2, <2>3, <2>5, <3>2
    <3>3. CASE W[i] # W[k]
      <4>1. i \in 1 .. k - 1
        BY <2>1, <3>3
      <4>2. operand[eng][W[i]] = arg
        BY <2>1, <4>1 DEF OperandsWhole, W
      <4> QED
        BY <2>3, <2>5, <3>1, <3>3, <4>2
    <3> QED
      BY <3>2, <3>3
  <2>7. CASE k < Len(W)
    <3>1. pc' = "operands" /\ eng' = eng /\ arg' = arg /\ k' = k + 1
      BY <1>4, <2>7 DEF OperandStep, Goto, W
    <3>2. \A i \in 1 .. k' - 1 : operand'[eng'][WorkSteps(eng', arg')[i]] = arg'
      BY <2>1, <2>6, <3>1 DEF W
    <3> QED
      BY <3>1, <3>2 DEF OperandsWhole
  <2>8. CASE ~(k < Len(W))
    <3>1. pc' = "start" /\ eng' = eng /\ arg' = arg
      BY <1>4, <2>8 DEF OperandStep, Goto, W
    <3>2. k = Len(W)
      BY <2>1, <2>2, <2>8
    <3>3. \A f \in Uses(eng, arg) : operand'[eng][f] = arg
      BY <2>1, <2>6, <3>2, WorkStepsCover DEF W
    <3>4. eng = MME => latched' = operand'[MME]
      <4>1. eng = MME => W[k] = "HEADER"
        BY <2>1, <3>2, WorkStepsCover DEF W
      <4> QED
        BY <1>4, <4>1 DEF OperandStep, W
    <3> QED
      BY <3>1, <3>3, <3>4 DEF OperandsWhole
  <2> QED
    BY <2>7, <2>8
<1>5. CASE VerifyOk \/ VerifyFails \/ ProgramStep \/ ResetStep \/ CloseBar
  BY <1>1, <1>5
     DEF VerifyOk, VerifyFails, ProgramStep, ResetStep, CloseBar, Goto, Return
<1>6. CASE StartEngine \/ PollStep \/ PollTimeout \/ StatusStep
  BY <1>1, <1>6 DEF StartEngine, PollStep, PollTimeout, StatusStep, Return
<1>7. CASE Raise \/ Restart
  BY <1>1, <1>7 DEF Raise, Restart, Return
<1>8. ASSUME NEW e \in Engines, EngineDone(e) PROVE OperandsWhole'
  BY <1>2, <1>8 DEF EngineDone, callVars
<1>9. CASE UNCHANGED vars
  BY <1>2, <1>9 DEF vars
<1> QED
  BY <1>3, <1>4, <1>5, <1>6, <1>7, <1>8, <1>9 DEF Next, Progress

\* So does what the engines run: only a start changes a job, and it takes the
\* operands of its call.
LEMMA WholeJobStep ==
    ASSUME Typed, OperandsWhole, RunsWholeDescriptor, [Next]_vars
    PROVE  RunsWholeDescriptor'
<1>1. ASSUME UNCHANGED job, \A e \in Engines : busy'[e] => busy[e]
      PROVE  RunsWholeDescriptor'
  BY <1>1 DEF RunsWholeDescriptor
<1>2. CASE StartEngine
  <2>1. eng \in Engines /\ arg \in Args(eng) /\ pc = "start"
    BY <1>2 DEF Typed, TypeOK, CallType, PositionOK, StartEngine
  <2>2. DOMAIN job = Engines /\ busy \in [Engines -> BOOLEAN]
    BY DEF Typed, TypeOK, CardType
  <2> DEFINE new == IF eng = MME THEN latched ELSE operand[eng]
  <2>3. \A f \in Uses(eng, arg) : new[f] = arg
    BY <2>1 DEF OperandsWhole
  <2>4. busy' = [busy EXCEPT ![eng] = TRUE]
    BY <1>2 DEF StartEngine
  <2>5. \/ job' = [job EXCEPT ![eng] = new]
        \/ busy[eng] /\ job' = job
    BY <1>2 DEF StartEngine
  <2> HIDE DEF new
  <2>6. CASE job' = [job EXCEPT ![eng] = new]
    BY <2>1, <2>2, <2>3, <2>4, <2>6 DEF RunsWholeDescriptor
  <2>7. CASE busy[eng] /\ job' = job
    BY <1>1, <2>2, <2>4, <2>7
  <2> QED
    BY <2>5, <2>6, <2>7
<1>3. CASE NewCall
  BY <1>1, <1>3
     DEF NewCall, InitCall, EnterCall, ShutdownCall, ExitCall, StatusCall,
         DmaCall, GemmCall, Refuse, cardVars
<1>4. CASE VerifyOk \/ VerifyFails \/ ProgramStep \/ CloseBar
  BY <1>1, <1>4 DEF VerifyOk, VerifyFails, ProgramStep, CloseBar, cardVars
<1>5. CASE ResetStep
  BY <1>1, <1>5 DEF ResetStep, Typed, TypeOK, CardType
<1>6. CASE OperandStep \/ PollStep \/ PollTimeout \/ StatusStep
  BY <1>1, <1>6 DEF OperandStep, PollStep, PollTimeout, StatusStep, cardVars
<1>7. CASE Raise \/ Restart
  BY <1>1, <1>7 DEF Raise, Restart, cardVars
<1>8. ASSUME NEW e \in Engines, EngineDone(e) PROVE RunsWholeDescriptor'
  BY <1>1, <1>8 DEF EngineDone, Typed, TypeOK, CardType
<1>9. CASE UNCHANGED vars
  BY <1>1, <1>9 DEF vars
<1> QED
  BY <1>2, <1>3, <1>4, <1>5, <1>6, <1>7, <1>8, <1>9 DEF Next, Progress

\* No history of interrupted, repeated and timed-out calls makes an engine
\* run a mixture of two operand sets.
THEOREM WholeDescriptors == Spec => []RunsWholeDescriptor
<1>1. Init => OperandsWhole /\ RunsWholeDescriptor
  BY DEF Init, OperandsWhole, RunsWholeDescriptor
<1>2. Spec => []Typed
  BY TypedInvariant, PTL DEF Spec
<1> QED
  BY <1>1, <1>2, OperandsWholeStep, WholeJobStep, PTL DEF Spec

(***************************************************************************)
(* What results mean.                                                      *)
(***************************************************************************)

\* The engine a call polls was started on one whole operand set: the call's
\* own, unless the engine was running before.
PollsWholeJob ==
    pc = "poll" =>
        \E a \in Args(eng) :
            /\ \A f \in Uses(eng, a) : job[eng][f] = a
            /\ clean => a = arg

LEMMA PollsWholeStep ==
    ASSUME Typed, OperandsWhole, RunsWholeDescriptor, PollsWholeJob, [Next]_vars
    PROVE  PollsWholeJob'
<1>1. ASSUME pc' # "poll" PROVE PollsWholeJob'
  BY <1>1 DEF PollsWholeJob
<1>2. ASSUME UNCHANGED << pc, eng, arg, clean, job >> PROVE PollsWholeJob'
  BY <1>2 DEF PollsWholeJob
<1>3. CASE NewCall
  BY <1>1, <1>2, <1>3
     DEF NewCall, InitCall, EnterCall, ShutdownCall, ExitCall, StatusCall,
         DmaCall, GemmCall, Enter, Refuse, callVars, cardVars
<1>4. CASE StartEngine
  <2>1. eng \in Engines /\ arg \in Args(eng) /\ pc = "start" /\ DOMAIN job = Engines
    BY <1>4 DEF Typed, TypeOK, CallType, CardType, PositionOK, StartEngine
  <2> DEFINE new == IF eng = MME THEN latched ELSE operand[eng]
  <2>2. \A f \in Uses(eng, arg) : new[f] = arg
    BY <2>1 DEF OperandsWhole
  <2>3. /\ pc' = "poll" /\ eng' = eng /\ arg' = arg /\ clean' = ~busy[eng]
        /\ job' = [job EXCEPT ![eng] = new] \/ (busy[eng] /\ job' = job)
    BY <1>4 DEF StartEngine
  <2> HIDE DEF new
  <2>4. CASE job' = [job EXCEPT ![eng] = new]
    <3>1. \A f \in Uses(eng, arg) : job'[eng][f] = arg
      BY <2>1, <2>2, <2>4
    <3> QED
      BY <2>1, <2>3, <3>1 DEF PollsWholeJob
  <2>5. CASE busy[eng] /\ job' = job
    <3>1. \E a \in Args(eng) : \A f \in Uses(eng, a) : job'[eng][f] = a
      BY <2>1, <2>5 DEF RunsWholeDescriptor
    <3> QED
      BY <2>3, <2>5, <3>1 DEF PollsWholeJob
  <2> QED
    BY <2>3, <2>4, <2>5
<1>5. CASE PollStep
  BY <1>1, <1>2, <1>5 DEF PollStep, Return, cardVars
<1>6. CASE VerifyOk \/ VerifyFails \/ ProgramStep \/ ResetStep \/ CloseBar \/ OperandStep
  BY <1>1, <1>6
     DEF VerifyOk, VerifyFails, ProgramStep, ResetStep, CloseBar, OperandStep,
         Goto, Return
<1>7. CASE PollTimeout \/ StatusStep \/ Raise \/ Restart
  BY <1>1, <1>7 DEF PollTimeout, StatusStep, Raise, Restart, Return
<1>8. ASSUME NEW e \in Engines, EngineDone(e) PROVE PollsWholeJob'
  BY <1>2, <1>8 DEF EngineDone, callVars
<1>9. CASE UNCHANGED vars
  BY <1>2, <1>9 DEF vars
<1> QED
  BY <1>3, <1>4, <1>5, <1>6, <1>7, <1>8, <1>9 DEF Next, Progress

\* What status() has read as idle is idle: nothing is started meanwhile.
ReadSoFar(e) == eng # MME /\ (e = MME \/ e < eng)
IdleSoFar ==
    pc = "status" =>
        \A e \in Engines : ReadSoFar(e) /\ e \notin seenBusy => ~busy[e]

LEMMA IdleSoFarStep ==
    ASSUME Typed, IdleSoFar, [Next]_vars
    PROVE  IdleSoFar'
<1>1. ASSUME pc' # "status" PROVE IdleSoFar'
  BY <1>1 DEF IdleSoFar
<1>2. ASSUME UNCHANGED << pc, eng, seenBusy >>,
             \A e \in Engines : busy'[e] => busy[e]
      PROVE  IdleSoFar'
  BY <1>2 DEF IdleSoFar, ReadSoFar
<1>3. CASE NewCall
  <2>1. ASSUME NEW o, NEW l, NEW e, NEW a, Enter(o, l, e, a),
               l = "status" => e = MME
        PROVE  IdleSoFar'
    BY <2>1 DEF Enter, IdleSoFar, ReadSoFar
  <2>2. ASSUME NEW o, NEW e, NEW a, NEW out, Refuse(o, e, a, out)
        PROVE  IdleSoFar'
    BY <1>2, <2>2 DEF Refuse, callVars, cardVars
  <2> QED
    BY <1>3, <2>1, <2>2
       DEF NewCall, InitCall, EnterCall, ShutdownCall, ExitCall, StatusCall,
           DmaCall, GemmCall
<1>4. CASE StatusStep
  <2>1. eng \in Engines /\ pc = "status" /\ UNCHANGED busy
    BY <1>4 DEF Typed, TypeOK, CallType, StatusStep, cardVars
  <2>2. CASE eng = NumChannels - 1
    BY <1>1, <1>4, <2>2 DEF StatusStep
  <2>3. CASE eng # NumChannels - 1
    <3>1. /\ eng' = IF eng = MME THEN 0 ELSE eng + 1
          /\ seenBusy' = Observe(eng)
      BY <1>4, <2>3 DEF StatusStep
    <3> SUFFICES ASSUME NEW e \in Engines, ReadSoFar(e)', e \notin seenBusy'
                 PROVE  ~busy[e]
      BY <2>1 DEF IdleSoFar
    <3>2. e = eng \/ ReadSoFar(e)
      BY <2>1, <3>1, EnginesAreNumbers DEF ReadSoFar, Engines, MME
    <3> QED
      BY <2>1, <3>1, <3>2 DEF IdleSoFar, Observe
  <2> QED
    BY <2>2, <2>3
<1>5. CASE VerifyOk \/ VerifyFails \/ ProgramStep \/ ResetStep \/ CloseBar
  BY <1>1, <1>5
     DEF VerifyOk, VerifyFails, ProgramStep, ResetStep, CloseBar, Goto, Return
<1>6. CASE OperandStep \/ StartEngine \/ PollTimeout \/ Raise \/ Restart
  BY <1>1, <1>6
     DEF OperandStep, StartEngine, PollTimeout, Raise, Restart, Goto, Return
<1>7. CASE PollStep
  BY <1>1, <1>7 DEF PollStep, Return
<1>8. ASSUME NEW e \in Engines, EngineDone(e) PROVE IdleSoFar'
  BY <1>2, <1>8 DEF EngineDone, callVars, Typed, TypeOK, CardType
<1>9. CASE UNCHANGED vars
  BY <1>2, <1>9 DEF vars
<1> QED
  BY <1>3, <1>4, <1>5, <1>6, <1>7, <1>8, <1>9 DEF Next, Progress

\* The capability mask never outlives the flag, a card is reset only under an
\* object that is up, and an accessor closed only under one that is down.
DownTogether ==
    /\ ~initialized => hwCaps = {}
    /\ pc = "reset" => initialized
    /\ pc = "close" => ~initialized

LEMMA DownStep ==
    ASSUME DownTogether, [Next]_vars
    PROVE  DownTogether'
<1> USE DEF DownTogether
<1>1. CASE NewCall
  BY <1>1
     DEF NewCall, InitCall, EnterCall, ShutdownCall, ExitCall, StatusCall,
         DmaCall, GemmCall, Enter, Refuse, objVars, callVars
<1>2. CASE VerifyOk \/ VerifyFails
  BY <1>2 DEF VerifyOk, VerifyFails, Goto, Return, objVars
<1>3. CASE ProgramStep
  BY <1>3 DEF ProgramStep, Goto, Return, objVars
<1>4. CASE ResetStep
  <2>1. CASE pc' = "reset" /\ UNCHANGED objVars
    BY <1>4, <2>1 DEF ResetStep, objVars
  <2>2. CASE hwCaps' = {} /\ ~initialized' /\ pc' \in {"close", "idle"}
    BY <2>2
  <2> QED
    BY <1>4, <2>1, <2>2 DEF ResetStep, Goto, Return
<1>5. CASE CloseBar \/ OperandStep \/ StartEngine
  BY <1>5 DEF CloseBar, OperandStep, StartEngine, Goto, Return, objVars
<1>6. CASE PollStep \/ PollTimeout \/ StatusStep
  BY <1>6 DEF PollStep, PollTimeout, StatusStep, Return, objVars
<1>7. CASE Raise \/ Restart
  BY <1>7 DEF Raise, Restart, Return
<1>8. ASSUME NEW e \in Engines, EngineDone(e) PROVE DownTogether'
  BY <1>8 DEF EngineDone, objVars, callVars
<1>9. CASE UNCHANGED vars
  BY <1>9 DEF vars
<1> QED
  BY <1>1, <1>2, <1>3, <1>4, <1>5, <1>6, <1>7, <1>8, <1>9 DEF Next, Progress

CallFacts ==
    /\ Typed /\ OpFits
    /\ OperandsWhole /\ RunsWholeDescriptor /\ PollsWholeJob
    /\ IdleSoFar /\ DownTogether

LEMMA CallFactsInvariant == Spec => []CallFacts
<1>1. Init => CallFacts
  BY TypedInvariant, OpFitsInvariant
     DEF Init, CallFacts, OperandsWhole, RunsWholeDescriptor, PollsWholeJob,
         IdleSoFar, DownTogether
<1>2. CallFacts /\ [Next]_vars => CallFacts'
  BY TypedInvariant, OpFitsInvariant, OperandsWholeStep, WholeJobStep,
     PollsWholeStep, IdleSoFarStep, DownStep
     DEF CallFacts
<1> QED
  BY <1>1, <1>2, PTL DEF Spec

\* How a result comes about, and what happens to it: a call in progress has
\* none to speak of, a call that returns leaves one, and until the next call
\* engines may end, but neither start nor change their jobs.
ResultsMean == SuccessMeansDone /\ StatusIdleIsIdle /\ ExitMeansDown

LEMMA ResultStep ==
    ASSUME CallFacts, ResultsMean, [Next]_vars
    PROVE  ResultsMean'
<1> USE DEF ResultsMean
<1>1. ASSUME pc' # "idle" \/ result'.out # "ok"
             \/ result'.op \in {"none", "init", "enter", "shutdown"}
      PROVE  ResultsMean'
  BY <1>1 DEF SuccessMeansDone, StatusIdleIsIdle, ExitMeansDown
<1>2. ASSUME UNCHANGED << pc, result, job, initialized, hwCaps, open >>,
             \A e \in Engines : busy'[e] => busy[e],
             result.eng \in Engines
      PROVE  ResultsMean'
  BY <1>2
     DEF SuccessMeansDone, StatusIdleIsIdle, ExitMeansDown, Finished
<1>3. /\ result.eng \in Engines /\ eng \in Engines
      /\ busy \in [Engines -> BOOLEAN]
  BY DEF CallFacts, Typed, TypeOK, ResultType, CallType, CardType
<1>4. CASE NewCall
  <2>1. ASSUME NEW o, NEW l \in {"verify", "reset", "close", "status", "operands"},
               NEW e, NEW a, Enter(o, l, e, a)
        PROVE  ResultsMean'
    BY <1>1, <2>1 DEF Enter
  <2>2. ASSUME NEW o \in {"dma", "gemm", "shutdown"}, NEW e, NEW a,
               NEW out, Refuse(o, e, a, out), out = "error" \/ o = "shutdown"
        PROVE  ResultsMean'
    BY <2>2 DEF Refuse, SuccessMeansDone, StatusIdleIsIdle, ExitMeansDown
  <2> QED
    BY <1>4, <2>1, <2>2
       DEF NewCall, InitCall, EnterCall, ShutdownCall, ExitCall, StatusCall,
           DmaCall, GemmCall
<1>5. CASE VerifyOk \/ OperandStep \/ StartEngine
  BY <1>1, <1>5 DEF VerifyOk, OperandStep, StartEngine, Goto
<1>6. CASE VerifyFails \/ Raise \/ Restart
  BY <1>1, <1>6 DEF VerifyFails, Raise, Restart, Return, NoResult
<1>7. CASE ProgramStep
  <2>1. CASE pc' = "program"
    BY <1>1, <2>1
  <2>2. CASE Return("ok")
    BY <1>1, <1>7, <2>2 DEF ProgramStep, Return, CallFacts, OpFits
  <2> QED
    BY <1>7, <2>1, <2>2 DEF ProgramStep, Goto
<1>8. CASE ResetStep
  <2>1. CASE pc' \in {"reset", "close"}
    BY <1>1, <2>1
  <2>2. CASE op # "exit" /\ Return("ok")
    BY <1>1, <1>8, <2>2 DEF ResetStep, Return, CallFacts, OpFits
  <2> QED
    BY <1>8, <2>1, <2>2 DEF ResetStep, Goto
<1>9. CASE CloseBar
  BY <1>9
     DEF CloseBar, Return, CallFacts, OpFits, DownTogether, SuccessMeansDone,
         StatusIdleIsIdle, ExitMeansDown
<1>10. CASE PollStep
  <2>1. CASE pc' = "poll"
    BY <1>1, <2>1
  <2>2. CASE ~busy[eng] /\ Return("ok")
    <3>1. /\ pc = "poll" /\ op \in {"dma", "gemm"}
          /\ \E a \in Args(eng) : Finished(eng, a) /\ (clean => a = arg)
      BY <1>10, <2>2 DEF PollStep, CallFacts, OpFits, PollsWholeJob, Finished
    <3>2. /\ result' = [op |-> op, eng |-> eng, arg |-> arg, out |-> "ok",
                        clean |-> clean, seenBusy |-> seenBusy]
          /\ UNCHANGED << busy, job >>
      BY <1>10, <2>2 DEF PollStep, Return, cardVars
    <3> QED
      BY <3>1, <3>2
         DEF SuccessMeansDone, StatusIdleIsIdle, ExitMeansDown, Finished
  <2> QED
    BY <1>10, <2>1, <2>2 DEF PollStep, PollDone
<1>11. CASE PollTimeout
  BY <1>1, <1>11 DEF PollTimeout, TimeoutOutcome, Return
<1>12. CASE StatusStep
  <2>1. CASE eng # NumChannels - 1
    BY <1>1, <1>12, <2>1 DEF StatusStep
  <2>2. CASE eng = NumChannels - 1
    <3>1. /\ result'.op = "status" /\ result'.seenBusy = Observe(eng)
          /\ UNCHANGED busy /\ pc = "status"
      BY <1>12, <2>2 DEF StatusStep, CallFacts, OpFits, cardVars
    <3>2. \A e \in Engines : e = eng \/ ReadSoFar(e)
      BY <2>2, NumChannelsAssumption DEF ReadSoFar, Engines, MME
    <3>3. \A e \in Engines \ Observe(eng) : ~busy[e]
      BY <1>3, <3>1, <3>2 DEF CallFacts, IdleSoFar, Observe
    <3> QED
      BY <3>1, <3>3 DEF SuccessMeansDone, StatusIdleIsIdle, ExitMeansDown
  <2> QED
    BY <2>1, <2>2
<1>13. ASSUME NEW e \in Engines, EngineDone(e) PROVE ResultsMean'
  BY <1>2, <1>3, <1>13 DEF EngineDone, objVars, callVars
<1>14. CASE UNCHANGED vars
  BY <1>2, <1>3, <1>14 DEF vars
<1> QED
  BY <1>4, <1>5, <1>6, <1>7, <1>8, <1>9, <1>10, <1>11, <1>12, <1>13, <1>14
     DEF Next, Progress

LEMMA ResultsInvariant == Spec => []ResultsMean
<1>1. Init => ResultsMean
  BY DEF Init, NoResult, ResultsMean, SuccessMeansDone, StatusIdleIsIdle,
         ExitMeansDown
<1> QED
  BY <1>1, CallFactsInvariant, ResultStep, PTL DEF Spec

\* dma_transfer and gemm return normally only after their engine has run one
\* whole operand set to its end: the caller's own if the engine was idle when it
\* was started, and otherwise the caller's or that of the job it was running.
THEOREM SuccessIsDone == Spec => []SuccessMeansDone
<1>1. ResultsMean => SuccessMeansDone
  BY DEF ResultsMean
<1> QED
  BY <1>1, ResultsInvariant, PTL

\* What status() reports as idle is idle until the next call.
THEOREM IdleIsIdle == Spec => []StatusIdleIsIdle
<1>1. ResultsMean => StatusIdleIsIdle
  BY DEF ResultsMean
<1> QED
  BY <1>1, ResultsInvariant, PTL

\* A with statement left normally leaves the object down and the accessor
\* closed.
THEOREM ExitIsDown == Spec => []ExitMeansDown
<1>1. ResultsMean => ExitMeansDown
  BY DEF ResultsMean
<1> QED
  BY <1>1, ResultsInvariant, PTL

(***************************************************************************)
(* The flag, the capability mask and the enable bits.                      *)
(***************************************************************************)
Agree ==
    /\ initialized <=> hwCaps = Caps
    /\ \A e \in Engines : initialized <=> Enabled(e)

\* Without failures they differ only while init() or a reset is half-way, and
\* then the engines behind have been enabled, or disabled.
AgreeSoFar ==
    /\ pc \notin {"program", "reset"} => Agree
    /\ pc = "program" => \A e \in 0 .. eng - 1 : Enabled(e)
    /\ pc = "reset" => \A e \in Engines : e < k - 2 => ~Enabled(e)

\* Both init programs set the enable bit.
LEMMA ProgramsEnable ==
    \A e \in Engines : \E i \in 1 .. Len(InitSteps(e)) : InitSteps(e)[i] = Enable
<1>1. Len(DmaInit) = 9 /\ DmaInit[8] = Enable
  BY DEF DmaInit
<1>2. Len(MmeInit) = 8 /\ MmeInit[7] = Enable
  BY DEF MmeInit
<1>3. TAKE e \in Engines
<1>4. CASE e = MME
  BY <1>2, <1>4 DEF InitSteps
<1>5. CASE e # MME
  BY <1>1, <1>5 DEF InitSteps
<1> QED
  BY <1>4, <1>5

LEMMA AgreeStep ==
    ASSUME ~BarMayFail, Typed, ProgrammedSoFar, AgreeSoFar, [Next]_vars
    PROVE  AgreeSoFar'
<1>1. ASSUME UNCHANGED << initialized, hwCaps, qm >>,
             pc \notin {"program", "reset"},
             \/ pc' \notin {"program", "reset"}
             \/ pc' = "program" /\ eng' = 0
             \/ pc' = "reset" /\ k' = 1
      PROVE  AgreeSoFar'
  <2>1. Agree /\ Agree'
    BY <1>1 DEF AgreeSoFar, Agree, Enabled
  <2>2. CASE pc' \notin {"program", "reset"}
    BY <2>1, <2>2 DEF AgreeSoFar
  <2>3. CASE pc' = "program" /\ eng' = 0
    BY <2>3 DEF AgreeSoFar
  <2>4. CASE pc' = "reset" /\ k' = 1
    <3>1. \A e \in Engines : ~(e < k' - 2)
      BY <2>4, NumChannelsAssumption DEF Engines
    <3> QED
      BY <2>4, <3>1 DEF AgreeSoFar
  <2> QED
    BY <1>1, <2>2, <2>3, <2>4
<1>2. ASSUME UNCHANGED << initialized, hwCaps, qm, pc, eng, k >>
      PROVE  AgreeSoFar'
  BY <1>2 DEF AgreeSoFar, Agree, Enabled
<1>3. /\ eng \in Engines /\ k \in Nat
      /\ qm \in [Engines -> SUBSET AllQueueRegs]
  BY DEF Typed, TypeOK, CallType, CardType
<1>4. CASE NewCall
  <2>1. ASSUME NEW o, NEW l, NEW e, NEW a, Enter(o, l, e, a), l # "program",
               UNCHANGED << objVars, cardVars >>
        PROVE  AgreeSoFar'
    BY <1>1, <2>1 DEF Enter, objVars, cardVars
  <2>2. ASSUME NEW o, NEW e, NEW a, NEW out, Refuse(o, e, a, out)
        PROVE  AgreeSoFar'
    BY <1>2, <2>2 DEF Refuse, objVars, callVars, cardVars
  <2> QED
    BY <1>4, <2>1, <2>2
       DEF NewCall, InitCall, EnterCall, ShutdownCall, ExitCall, StatusCall,
           DmaCall, GemmCall
<1>5. CASE VerifyOk
  BY <1>1, <1>5 DEF VerifyOk, Goto, objVars, cardVars
<1>6. CASE ProgramStep
  <2>1. pc = "program" /\ k \in 1 .. Len(InitSteps(eng))
    BY <1>6 DEF ProgramStep, Typed, PositionOK
  <2>2. \A e \in Engines : qm[e] \subseteq qm'[e]
    BY <1>3, <1>6 DEF ProgramStep
  <2>3. \A e \in 0 .. eng - 1 : Enable \in qm'[e]
    <3>1. 0 .. eng - 1 \subseteq Engines
      BY <1>3, NumChannelsAssumption DEF Engines
    <3> QED
      BY <2>1, <2>2, <3>1 DEF AgreeSoFar, Enabled
  <2>4. k = Len(InitSteps(eng)) => Enable \in qm'[eng]
    <3>1. InitSteps(eng)[k] \in qm'[eng]
      BY <1>3, <1>6 DEF ProgramStep
    <3>2. \A i \in 1 .. k - 1 : InitSteps(eng)[i] \in qm'[eng]
      BY <1>3, <2>1, <2>2 DEF ProgrammedSoFar
    <3> QED
      BY <1>3, <2>1, <3>1, <3>2, ProgramsEnable
  <2>5. CASE Goto("program", eng, k + 1)
    BY <2>3, <2>5 DEF Goto, AgreeSoFar, Enabled
  <2>6. CASE k = Len(InitSteps(eng)) /\ Goto("program", eng + 1, 1)
    <3>1. \A e \in 0 .. eng : Enable \in qm'[e]
      BY <1>3, <2>3, <2>4, <2>6, EnginesAreNumbers
    <3> QED
      BY <1>3, <2>6, <3>1, EnginesAreNumbers DEF Goto, AgreeSoFar, Enabled
  <2>7. CASE /\ k = Len(InitSteps(eng)) /\ eng = MME
             /\ hwCaps' = Caps /\ initialized' = TRUE /\ Return("ok")
    <3>1. \A e \in Engines : Enable \in qm'[e]
      BY <2>3, <2>4, <2>7, NumChannelsAssumption DEF Engines, MME
    <3> QED
      BY <2>7, <3>1 DEF Return, AgreeSoFar, Agree, Enabled
  <2> QED
    BY <1>6, <2>5, <2>6, <2>7 DEF ProgramStep
<1>7. CASE ResetStep
  <2>1. pc = "reset" /\ k \in 1 .. NumChannels + 2
    BY <1>7 DEF ResetStep, Typed, PositionOK, ResetLength
  <2>2. \A e \in Engines : e < k - 1 => Enable \notin qm'[e]
    <3>1. CASE k = 1
      BY <3>1, NumChannelsAssumption DEF Engines
    <3>2. CASE k # 1
      <4>1. k - 2 \in Engines /\ qm' = [qm EXCEPT ![k - 2] = @ \ {Enable}]
        BY <1>7, <2>1, <3>2, NumChannelsAssumption DEF ResetStep, Engines
      <4> QED
        BY <1>3, <2>1, <4>1, EnginesAreNumbers DEF AgreeSoFar, Enabled
    <3> QED
      BY <3>1, <3>2
  <2>3. CASE Goto("reset", 0, k + 1)
    <3>1. pc' = "reset" /\ k' - 2 = k - 1
      BY <1>3, <2>3 DEF Goto
    <3> QED
      BY <2>2, <3>1 DEF AgreeSoFar, Enabled
  <2>4. CASE /\ k = ResetLength /\ hwCaps' = {} /\ initialized' = FALSE
             /\ pc' \in {"close", "idle"}
    <3>1. \A e \in Engines : Enable \notin qm'[e]
      BY <2>2, <2>4, NumChannelsAssumption DEF ResetLength, Engines
    <3> QED
      BY <2>4, <3>1 DEF AgreeSoFar, Agree, Enabled, Caps
  <2> QED
    BY <1>7, <2>3, <2>4 DEF ResetStep, Goto, Return
<1>8. CASE CloseBar \/ OperandStep \/ StartEngine
  BY <1>1, <1>8
     DEF CloseBar, OperandStep, StartEngine, Goto, Return, objVars, cardVars
<1>9. CASE PollStep \/ PollTimeout \/ StatusStep
  BY <1>1, <1>9
     DEF PollStep, PollTimeout, StatusStep, Return, objVars, cardVars
<1>10. CASE VerifyFails \/ Raise \/ Restart
  BY <1>10 DEF VerifyFails, Raise, Restart
<1>11. ASSUME NEW e \in Engines, EngineDone(e) PROVE AgreeSoFar'
  BY <1>2, <1>11 DEF EngineDone, objVars, callVars
<1>12. CASE UNCHANGED vars
  BY <1>2, <1>12 DEF vars
<1> QED
  BY <1>4, <1>5, <1>6, <1>7, <1>8, <1>9, <1>10, <1>11, <1>12
     DEF Next, Progress

\* Over an accessor that never fails, the object and the card agree between
\* calls.
THEOREM FlagsAreTrue ==
    ASSUME ~BarMayFail
    PROVE  Spec => []FlagsMatchCard
<1>1. Init => AgreeSoFar
  BY DEF Init, AgreeSoFar, Agree, Enabled, Caps
<1>2. Typed /\ QueueInv /\ AgreeSoFar /\ [Next]_vars => AgreeSoFar'
  BY AgreeStep DEF QueueInv
<1>3. AgreeSoFar => FlagsMatchCard
  BY DEF AgreeSoFar, Agree, FlagsMatchCard
<1>4. Spec => []Typed
  BY TypedInvariant, PTL DEF Spec
<1> QED
  BY <1>1, <1>2, <1>3, <1>4, QueueInvariant, PTL DEF Spec

-----------------------------------------------------------------------------
(***************************************************************************)
(* The device object implements DeviceService: every step of GoyaDevice is *)
(* a step of the service, under the mapping of GoyaDeviceService, or       *)
(* changes nothing that the service shows.                                 *)
(***************************************************************************)
\* The mapped variables.
Ready == initialized
InCall == [op |-> op, work |-> Work(op, eng, arg)]
HasStarted == pc = "poll"
Doing == [e \in Engines |-> IF busy[e] THEN Carried(e) ELSE NoArg]
Answered == [op |-> result.op, out |-> result.out,
             work |-> Work(result.op, result.eng, result.arg)]

Facts == CallFacts /\ OneEngineAtATime /\ RunsWholeDescriptor

LEMMA FactsInvariant == Spec => []Facts
BY CallFactsInvariant, EngineOwnership, WholeDescriptors, PTL DEF Facts

\* What the engine and the call of a state look like in the service.
LEMMA MappedType ==
    ASSUME Facts
    PROVE  /\ eng \in Engines /\ arg \in Tokens /\ pc \in PCs
           /\ pc \in {"operands", "start", "poll"} =>
                 arg \in Args(eng) /\ arg \in Transfers \cup Gemms
           /\ busy \in [Engines -> BOOLEAN]
           /\ DOMAIN job = Engines
BY DEF Facts, CallFacts, Typed, TypeOK, CallType, CardType, PositionOK, Args

\* A running engine is seen to carry one whole operand set, which is a job.
LEMMA BusyCarries ==
    ASSUME Facts, NEW e \in Engines
    PROVE  /\ busy[e] => Carried(e) \in Args(e)
           /\ busy[e] <=> Doing[e] # NoArg
<1>1. ASSUME busy[e] PROVE Carried(e) \in Args(e) /\ Carried(e) # NoArg
  <2>1. PICK a \in Args(e) : \A f \in Uses(e, a) : job[e][f] = a
    BY <1>1 DEF Facts, RunsWholeDescriptor
  <2>2. LastField(e) \in Uses(e, a)
    BY DEF LastField, Uses, MmeFields, ChFields
  <2>3. Carried(e) = a
    BY <2>1, <2>2 DEF Carried
  <2> QED
    BY <2>1, <2>3, NoArgAssumption DEF Args
<1> QED
  BY <1>1 DEF Doing

\* The jobs of the service change with busy and job only.
LEMMA DoingKept ==
    ASSUME UNCHANGED << busy, job >>
    PROVE  Doing' = Doing
BY DEF Doing, Carried

LEMMA DoingEnds ==
    ASSUME Facts, NEW e \in Engines, UNCHANGED job,
           busy' = [busy EXCEPT ![e] = FALSE]
    PROVE  Doing' = [Doing EXCEPT ![e] = NoArg]
<1>1. \A d \in Engines : Carried(d)' = Carried(d)
  BY DEF Carried
<1> QED
  BY <1>1, MappedType DEF Doing

(***************************************************************************)
(* The steps.                                                              *)
(***************************************************************************)

\* A step of the service, or one that it does not show.
Shown == Service!Next \/ UNCHANGED Service!vars

LEMMA Unseen ==
    ASSUME UNCHANGED << initialized, op, eng, arg, pc, busy, job, abandoned,
                        result >>
    PROVE  UNCHANGED Service!vars
BY DoingKept DEF Service!vars, Doing, Work

\* A call that begins is a call of the service.
LEMMA CallBegins ==
    ASSUME Facts, NEW o, NEW l, NEW e \in Engines, NEW a,
           Enter(o, l, e, a), UNCHANGED << objVars, cardVars, abandoned >>,
           l # "poll",
           \/ o \in {"init", "enter", "shutdown", "exit", "status"}
           \/ o \in {"dma", "gemm"} /\ initialized /\ a \in Transfers \cup Gemms
    PROVE  Shown
<1> DEFINE c == [op |-> o, work |-> Work(o, e, a)]
<1>1. c \in Service!Calls
  BY DEF Work, Service!Calls, Service!Lifecycle, Service!WorkOps, Service!NoWork
<1>2. /\ InCall = Service!NoCall /\ InCall' = c
      /\ Answered' = Service!NoAnswer
      /\ HasStarted' = HasStarted /\ Doing' = Doing
      /\ Ready' = Ready /\ abandoned' = abandoned
  BY DoingKept
     DEF Facts, CallFacts, OpFits, Enter, objVars, cardVars, InCall, Answered,
         HasStarted, Ready, Work, NoResult, Service!NoCall, Service!NoAnswer,
         Service!NoWork
<1>3. c.op \in Service!WorkOps => Ready
  BY DEF Service!WorkOps, Ready
<1>4. Service!Call(c)
  BY <1>2, <1>3
     DEF Service!Call, InCall, Answered, HasStarted, Doing, Ready
<1> QED
  BY <1>1, <1>4 DEF Shown, Service!Next

\* A call that returns or raises is answered.
LEMMA CallAnswered ==
    ASSUME Facts, pc # "idle", NEW out, Return(out)
    PROVE  Service!Answer(out)
<1>1. op # "none"
  BY MappedType DEF Facts, CallFacts, OpFits, PCs
<1>2. InCall # Service!NoCall
  BY <1>1 DEF InCall, Service!NoCall
<1>3. /\ InCall' = Service!NoCall /\ ~HasStarted'
      /\ Answered' = [op |-> op, out |-> out, work |-> Work(op, eng, arg)]
  BY DEF Return, InCall, HasStarted, Answered, Work, Service!NoCall,
         Service!NoWork
<1> QED
  BY <1>2, <1>3
     DEF Service!Answer, Service!Answered, InCall, HasStarted, Answered

\* What a call gives up is what the service lets go.
LEMMA GivesUpIsLetGo ==
    ASSUME Facts, GivesUp
    PROVE  Service!LetGo
<1>1. CASE pc = "poll"
  <2>1. Work(op, eng, arg) = << eng, arg >> /\ eng \in Engines
    BY <1>1, MappedType DEF Facts, CallFacts, OpFits, Work
  <2>2. Service!Engine = eng
    BY <2>1 DEF Service!Engine
  <2>3. busy[eng] <=> Doing[eng] # NoArg
    BY <2>1, BusyCarries
  <2> QED
    BY <1>1, <2>2, <2>3 DEF GivesUp, Service!LetGo, Doing
<1>2. CASE pc # "poll"
  BY <1>2 DEF GivesUp, Service!LetGo
<1> QED
  BY <1>1, <1>2

\* An exception, wherever it is raised.
LEMMA FailureShown ==
    ASSUME Facts, pc # "idle", Return("error"), GivesUp,
           UNCHANGED << initialized, busy, job >>
    PROVE  Shown
<1>1. Service!Answer("error") /\ Service!LetGo
  BY CallAnswered, GivesUpIsLetGo
<1>2. Service!Fail
  BY <1>1, DoingKept DEF Service!Fail, Doing
<1> QED
  BY <1>2 DEF Shown, Service!Next

LEMMA NewCallShown ==
    ASSUME Facts, NewCall
    PROVE  Shown
<1>1. ASSUME NEW o, NEW e, NEW a, NEW out, Refuse(o, e, a, out),
             ~initialized,
             [op |-> o, work |-> Work(o, e, a)] \in Service!Calls,
             \/ o \in {"dma", "gemm"} /\ out = "error"
             \/ o = "shutdown" /\ out = "ok"
      PROVE  Shown
  <2> DEFINE c == [op |-> o, work |-> Work(o, e, a)]
  <2>1. /\ InCall = Service!NoCall /\ Doing' = Doing
        /\ UNCHANGED << op, eng, arg, pc, initialized, abandoned >>
        /\ Answered' = [op |-> o, out |-> out, work |-> Work(o, e, a)]
    BY <1>1, DoingKept
       DEF Facts, CallFacts, OpFits, Refuse, objVars, callVars, cardVars,
           InCall, Answered, Work, Service!NoCall, Service!NoWork
  <2>2. Service!AnswerAtOnce(c)
    BY <1>1, <2>1
       DEF Service!AnswerAtOnce, Service!Answered, Service!WorkOps, InCall,
           Answered, Doing, Work
  <2> QED
    BY <1>1, <2>2 DEF Shown, Service!Next
<1>2. CASE InitCall
  BY <1>2, CallBegins, EnginesAreNumbers DEF InitCall
<1>3. CASE EnterCall
  BY <1>3, CallBegins, EnginesAreNumbers DEF EnterCall
<1>4. CASE ExitCall
  BY <1>4, CallBegins, EnginesAreNumbers DEF ExitCall
<1>5. CASE StatusCall
  BY <1>5, CallBegins, EnginesAreNumbers DEF StatusCall
<1>6. CASE ShutdownCall
  <2>1. [op |-> "shutdown", work |-> Work("shutdown", 0, NoArg)]
           \in Service!Calls
    BY DEF Work, Service!Calls, Service!Lifecycle, Service!NoWork
  <2> QED
    BY <1>1, <1>6, <2>1, CallBegins, EnginesAreNumbers DEF ShutdownCall
<1>7. ASSUME NEW o \in {"dma", "gemm"}, NEW e \in Engines,
             NEW a \in Transfers \cup Gemms
      PROVE  [op |-> o, work |-> Work(o, e, a)] \in Service!Calls
  BY DEF Work, Service!Calls, Service!WorkOps
<1>8. ASSUME NEW c \in Channels, NEW t \in Transfers, DmaCall(c, t)
      PROVE  Shown
  <2>1. c \in Engines /\ t \in Transfers \cup Gemms
    BY NumChannelsAssumption DEF Channels, Engines
  <2> QED
    BY <1>1, <1>7, <1>8, <2>1, CallBegins DEF DmaCall, RequireInit
<1>9. ASSUME NEW g \in Gemms, GemmCall(g)
      PROVE  Shown
  BY <1>1, <1>7, <1>9, CallBegins, EnginesAreNumbers DEF GemmCall, RequireInit
<1> QED
  BY <1>2, <1>3, <1>4, <1>5, <1>6, <1>8, <1>9 DEF NewCall, Shown

\* init(), shutdown() and the end of a with statement.
LEMMA LifecycleShown ==
    ASSUME Facts, VerifyOk \/ VerifyFails \/ ProgramStep \/ ResetStep \/ CloseBar
    PROVE  Shown
<1>1. CASE VerifyOk
  <2>1. /\ pc # "poll" /\ pc' # "poll" /\ op \in {"init", "enter"}
        /\ UNCHANGED << op, arg, initialized, busy, job, abandoned, result >>
    BY <1>1 DEF VerifyOk, Goto, objVars, cardVars, Facts, CallFacts, OpFits
  <2>2. UNCHANGED Service!vars
    BY <2>1, DoingKept DEF Service!vars, Doing, Work
  <2> QED
    BY <2>2 DEF Shown
<1>2. CASE VerifyFails
  BY <1>2, FailureShown DEF VerifyFails, GivesUp, cardVars
<1>3. CASE ProgramStep
  <2>1. pc = "program" /\ op \in {"init", "enter"}
        /\ UNCHANGED << busy, job, abandoned >>
    BY <1>3 DEF ProgramStep, Facts, CallFacts, OpFits
  <2>2. CASE pc' = "program" /\ UNCHANGED << op, arg, initialized, result >>
    <3>1. UNCHANGED Service!vars
      BY <2>1, <2>2, DoingKept DEF Service!vars, Doing, Work
    <3> QED
      BY <3>1 DEF Shown
  <2>3. CASE initialized' = TRUE /\ Return("ok")
    <3>1. Service!Answer("ok")
      BY <2>1, <2>3, CallAnswered
    <3>2. Service!BecomeReady
      BY <2>1, <2>3, <3>1, DoingKept DEF Service!BecomeReady, Doing
    <3> QED
      BY <3>2 DEF Shown, Service!Next
  <2> QED
    BY <1>3, <2>2, <2>3 DEF ProgramStep, Goto, objVars
<1>4. CASE ResetStep
  <2>1. /\ pc = "reset" /\ op \in {"shutdown", "exit"} /\ initialized
        /\ UNCHANGED job
    BY <1>4 DEF ResetStep, Facts, CallFacts, OpFits, DownTogether
  <2>2. ResetLength \in Nat /\ ResetLength # 1
    BY NumChannelsAssumption DEF ResetLength
  <2>3. CASE k = 1
    <3>1. /\ busy' = [busy EXCEPT ![MME] = FALSE]
          /\ abandoned' = abandoned \ {MME}
          /\ pc' = "reset" /\ UNCHANGED << op, arg, initialized, result >>
      BY <1>4, <2>2, <2>3 DEF ResetStep, Goto, objVars
    <3>2. Doing' = [Doing EXCEPT ![MME] = NoArg]
      BY <2>1, <3>1, DoingEnds, EnginesAreNumbers
    <3>3. Service!Stop
      BY <2>1, <3>1, <3>2 DEF Service!Stop, Doing, Work
    <3> QED
      BY <3>3 DEF Shown, Service!Next
  <2>4. CASE k # 1
    <3>1. UNCHANGED << busy, abandoned >> /\ Doing' = Doing
      BY <1>4, <2>1, <2>4, DoingKept DEF ResetStep
    <3>2. CASE pc' = "reset" /\ UNCHANGED << op, arg, initialized, result >>
      <4>1. UNCHANGED Service!vars
        BY <2>1, <3>1, <3>2 DEF Service!vars, Doing, Work
      <4> QED
        BY <4>1 DEF Shown
    <3>3. CASE /\ initialized' = FALSE /\ op = "exit" /\ pc' = "close"
               /\ UNCHANGED << op, arg, result >>
      <4>1. Service!GoDown
        BY <2>1, <3>1, <3>3 DEF Service!GoDown, Doing, Work
      <4> QED
        BY <4>1 DEF Shown, Service!Next
    <3>4. CASE initialized' = FALSE /\ op # "exit" /\ Return("ok")
      <4>1. Service!Answer("ok")
        BY <2>1, <3>4, CallAnswered
      <4>2. Service!GoDown
        BY <2>1, <3>1, <3>4, <4>1 DEF Service!GoDown, Doing
      <4> QED
        BY <4>2 DEF Shown, Service!Next
    <3> QED
      BY <1>4, <3>2, <3>3, <3>4 DEF ResetStep, Goto, objVars
  <2> QED
    BY <2>3, <2>4
<1>5. CASE CloseBar
  <2>1. pc = "close" /\ op = "exit" /\ ~initialized /\ Return("ok")
        /\ UNCHANGED << initialized, busy, job, abandoned >>
    BY <1>5 DEF CloseBar, cardVars, Facts, CallFacts, OpFits, DownTogether
  <2>2. Service!Answer("ok")
    BY <2>1, CallAnswered
  <2>3. Service!Leave
    BY <2>1, <2>2, DoingKept DEF Service!Leave, Doing
  <2> QED
    BY <2>3 DEF Shown, Service!Next
<1> QED
  BY <1>1, <1>2, <1>3, <1>4, <1>5

\* An engine is handed the whole of its call's operands, once.
LEMMA StartShown ==
    ASSUME Facts, StartEngine
    PROVE  Shown
<1>1. /\ pc = "start" /\ pc' = "poll" /\ eng \in Engines /\ arg \in Args(eng)
      /\ op \in {"dma", "gemm"}
      /\ busy \in [Engines -> BOOLEAN] /\ DOMAIN job = Engines
      /\ busy' = [busy EXCEPT ![eng] = TRUE]
      /\ UNCHANGED << initialized, op, eng, arg, result, abandoned >>
  BY MappedType DEF StartEngine, objVars, Facts, CallFacts, OpFits
<1>2. /\ Service!Engine = eng /\ Service!Job = arg /\ Service!HasWork
      /\ UNCHANGED << InCall, Answered, Ready, abandoned >>
  BY <1>1
     DEF Service!Engine, Service!Job, Service!HasWork, Service!WorkOps, Work,
         InCall, Answered, Ready
<1>3. Doing[eng] # NoArg => eng \in abandoned
  BY <1>1, BusyCarries DEF Facts, OneEngineAtATime
<1>4. \A e \in Engines : e # eng => Doing'[e] = Doing[e]
  BY <1>1 DEF StartEngine, Doing, Carried
<1> DEFINE new == IF eng = MME THEN latched ELSE operand[eng]
<1>5. CASE job' = [job EXCEPT ![eng] = new]
  <2>1. \A f \in Uses(eng, arg) : job'[eng][f] = arg
    BY <1>1, <1>5 DEF Facts, CallFacts, OperandsWhole
  <2>2. LastField(eng) \in Uses(eng, arg)
    BY DEF LastField, Uses, MmeFields, ChFields
  <2>3. Carried(eng)' = arg
    BY <1>1, <2>1, <2>2 DEF Carried
  <2>4. Doing' = [Doing EXCEPT ![eng] = arg]
    BY <1>1, <1>4, <2>3 DEF Doing
  <2> QED
    BY <1>1, <1>2, <1>3, <2>4
       DEF Shown, Service!Next, Service!Start, Doing, InCall, Answered, Ready
<1>6. CASE busy[eng] /\ job' = job
  <2>1. Doing[eng] # NoArg
    BY <1>1, <1>6, BusyCarries
  <2>2. busy' = busy
    BY <1>1, <1>6
  <2>3. Doing' = Doing
    BY <1>6, <2>2, DoingKept
  <2> QED
    BY <1>1, <1>2, <1>3, <2>1, <2>3
       DEF Shown, Service!Next, Service!Start, Doing, InCall, Answered, Ready
<1> QED
  BY <1>5, <1>6 DEF StartEngine

\* The rest of a transfer or of a gemm.
LEMMA WorkShown ==
    ASSUME Facts, OperandStep \/ PollStep \/ PollTimeout
    PROVE  Shown
<1>1. CASE OperandStep
  <2>1. pc # "poll" /\ pc' # "poll"
        /\ UNCHANGED << op, eng, arg, initialized, busy, job, abandoned, result >>
    BY <1>1 DEF OperandStep, Goto, objVars
  <2>2. UNCHANGED Service!vars
    BY <2>1, DoingKept DEF Service!vars, Doing, Work
  <2> QED
    BY <2>2 DEF Shown
<1>2. CASE PollStep
  <2>1. pc = "poll" /\ op \in {"dma", "gemm"}
        /\ UNCHANGED << initialized, busy, job, abandoned >>
    BY <1>2 DEF PollStep, objVars, cardVars, Facts, CallFacts, OpFits
  <2>2. CASE UNCHANGED << pc, op, eng, arg, result >>
    BY <2>1, <2>2, Unseen DEF Shown
  <2>3. CASE ~busy[eng] /\ Return("ok")
    <3>1. Service!Engine = eng /\ Service!HasWork
      BY <2>1 DEF Service!Engine, Service!HasWork, Service!WorkOps, Work
    <3>2. Service!Answer("ok")
      BY <2>1, <2>3, CallAnswered
    <3>3. Doing[eng] = NoArg
      BY <2>3, MappedType, BusyCarries
    <3>4. Service!Succeed
      BY <2>1, <3>1, <3>2, <3>3, DoingKept DEF Service!Succeed, Doing
    <3> QED
      BY <3>4 DEF Shown, Service!Next
  <2> QED
    BY <1>2, <2>2, <2>3 DEF PollStep, PollDone
<1>3. CASE PollTimeout
  <2>1. /\ pc = "poll" /\ op \in {"dma", "gemm"} /\ Return("timeout") /\ GivesUp
        /\ UNCHANGED << initialized, busy, job >>
    BY <1>3
       DEF PollTimeout, TimeoutOutcome, objVars, cardVars, Facts, CallFacts,
           OpFits
  <2>2. Service!Answer("timeout") /\ Service!LetGo /\ Service!HasWork
    BY <2>1, CallAnswered, GivesUpIsLetGo
       DEF Service!HasWork, Service!WorkOps
  <2>3. Service!Fail
    BY <2>1, <2>2, DoingKept DEF Service!Fail, Doing
  <2> QED
    BY <2>3 DEF Shown, Service!Next
<1> QED
  BY <1>1, <1>2, <1>3

LEMMA StatusShown ==
    ASSUME Facts, StatusStep
    PROVE  Shown
<1>1. pc = "status" /\ op = "status"
      /\ UNCHANGED << arg, initialized, busy, job, abandoned >>
  BY DEF StatusStep, objVars, cardVars, Facts, CallFacts, OpFits
<1>2. CASE pc' = "status" /\ UNCHANGED << op, result >>
  <2>1. UNCHANGED Service!vars
    BY <1>1, <1>2, DoingKept DEF Service!vars, Doing, Work
  <2> QED
    BY <2>1 DEF Shown
<1>3. CASE eng = NumChannels - 1
  <2>1. /\ InCall # Service!NoCall /\ InCall' = Service!NoCall
        /\ ~HasStarted'
        /\ Answered' = [op |-> "status", out |-> "ok", work |-> << >>]
    BY <1>1, <1>3
       DEF StatusStep, InCall, Answered, HasStarted, Work, Service!NoCall,
           Service!NoWork
  <2>2. Service!Answer("ok")
    BY <1>1, <2>1
       DEF Service!Answer, Service!Answered, InCall, Answered, HasStarted, Work
  <2>3. Service!ReportStatus
    BY <1>1, <2>2, DoingKept DEF Service!ReportStatus, Doing
  <2> QED
    BY <2>3 DEF Shown, Service!Next
<1> QED
  BY <1>1, <1>2, <1>3 DEF StatusStep

\* What happens to a call from outside, and what the engines do.
LEMMA OutsideShown ==
    ASSUME Facts, Raise \/ Restart \/ \E e \in Engines : EngineDone(e)
    PROVE  Shown
<1>1. CASE Raise
  BY <1>1, FailureShown DEF Raise, cardVars
<1>2. CASE Restart
  <2>1. Service!LetGo
    BY <1>2, GivesUpIsLetGo DEF Restart
  <2>2. /\ InCall' = Service!NoCall /\ ~HasStarted' /\ ~Ready'
        /\ Answered' = Service!NoAnswer /\ Doing' = Doing
    BY <1>2, DoingKept
       DEF Restart, cardVars, InCall, HasStarted, Ready, Answered, NoResult,
           Work, Service!NoCall, Service!NoAnswer, Service!NoWork
  <2>3. Service!Crash
    BY <2>1, <2>2
       DEF Service!Crash, InCall, HasStarted, Ready, Answered, Doing
  <2> QED
    BY <2>3 DEF Shown, Service!Next
<1>3. ASSUME NEW e \in Engines, EngineDone(e) PROVE Shown
  <2>1. /\ busy[e] /\ busy' = [busy EXCEPT ![e] = FALSE]
        /\ abandoned' = abandoned \ {e}
        /\ UNCHANGED << initialized, op, eng, arg, pc, job, result >>
    BY <1>3 DEF EngineDone, objVars, callVars
  <2>2. Doing[e] # NoArg /\ Doing' = [Doing EXCEPT ![e] = NoArg]
    BY <2>1, BusyCarries, DoingEnds
  <2>3. Service!Finish(e)
    BY <2>1, <2>2 DEF Service!Finish, Doing, Work
  <2> QED
    BY <2>3 DEF Shown, Service!Next
<1> QED
  BY <1>1, <1>2, <1>3

\* The device object keeps its promise: GoyaDevice implements DeviceService.
THEOREM Implements == Spec => ServiceSpec
<1>1. Init => Service!Init
  <2> SUFFICES ASSUME Init PROVE Service!Init
    OBVIOUS
  <2>1. /\ InCall = Service!NoCall /\ Answered = Service!NoAnswer
        /\ ~HasStarted /\ ~Ready /\ abandoned = {}
        /\ Doing = [e \in Engines |-> NoArg]
    BY DEF Init, NoResult, InCall, Answered, HasStarted, Ready, Doing, Work,
           Service!NoCall, Service!NoAnswer, Service!NoWork
  <2> QED
    BY <2>1
       DEF Service!Init, InCall, Answered, HasStarted, Ready, Doing
<1>2. Facts /\ [Next]_vars => [Service!Next]_(Service!vars)
  <2>1. ASSUME Facts, Next PROVE Shown
    BY <2>1, NewCallShown, LifecycleShown, StartShown, WorkShown, StatusShown,
       OutsideShown
       DEF Next, Progress
  <2>2. ASSUME UNCHANGED vars PROVE UNCHANGED Service!vars
    BY <2>2, Unseen DEF vars
  <2> QED
    BY <2>1, <2>2 DEF Shown
<1> QED
  BY <1>1, <1>2, FactsInvariant, PTL DEF Spec, ServiceSpec, Service!Spec
=============================================================================
