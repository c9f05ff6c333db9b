------------------------- MODULE FirmwareBootProofs -------------------------
(***************************************************************************)
(* Theorems about the firmware loader, for images of any number of words,  *)
(* any number of polls before the deadline and a link that may go at any   *)
(* moment.                                                                 *)
(***************************************************************************)
EXTENDS FirmwareBoot, SequenceTheorems, TLAPS

USE NumWordsAssumption, MaxTicksAssumption

\* A record type of the CPU's side stays one when a field is replaced.
LEMMA MailType ==
    ASSUME NEW m \in Mail
    PROVE  /\ \A s \in Statuses : [m EXCEPT !.status = s] \in Mail
           /\ \A c \in Commands : [m EXCEPT !.cmd = c] \in Mail
           /\ [m EXCEPT !.error = TRUE] \in Mail
           /\ m \in Snap
BY DEF Mail, Snap

LEMMA SnapTypes ==
    /\ NoSnap \in Mail
    /\ NoSnap \in Snap
    /\ AllOnes \in Snap
BY DEF NoSnap, AllOnes, Mail, Snap, Commands, Statuses, NA

LEMMA Bounds ==
    /\ 1 \in Words
    /\ 0 \in 0 .. MaxTicks
    /\ 0 \in 0 .. 2
BY DEF Words

\* The type invariant in two parts: the call and the card.
CallTyped ==
    /\ pc \in {"idle", "read", "file", "write", "signal", "loop", "sleep"}
    /\ image \in Images \cup {Junk}
    /\ w \in Words
    /\ ticks \in 0 .. MaxTicks
    /\ reader \in Readers
    /\ nread \in 0 .. 2
    /\ snap \in Snap
    /\ result \in [out : Outcomes, reader : Readers, snap : Snap,
                   errorThen : BOOLEAN]
    /\ errorThen \in BOOLEAN

CardTyped ==
    /\ link \in BOOLEAN
    /\ mail \in Mail
    /\ dram \in [Words -> Images \cup {Junk}]
    /\ fetched \in Seq(Images \cup {Junk})
    /\ Len(fetched) <= NumWords
    /\ dramUp \in BOOLEAN
    /\ overwritten \in BOOLEAN

\* A poll is begun, and followed by a sleep, only before the deadline.
TicksLeft ==
    pc = "sleep" \/ (pc = "read" /\ reader = "poll") => ticks > 0

Typed == CallTyped /\ CardTyped /\ TicksLeft

LEMMA CardKept == CardTyped /\ UNCHANGED cpuVars => CardTyped'
BY DEF CardTyped, cpuVars

\* A call ends with a result of the type.
LEMMA ReturnType ==
    ASSUME CallTyped, NEW s \in Snap, NEW e \in BOOLEAN, NEW out \in Outcomes,
           Return(out, s, e)
    PROVE  CallTyped'
<1>1. result' \in [out : Outcomes, reader : Readers, snap : Snap,
                   errorThen : BOOLEAN]
  BY DEF CallTyped, Return
<1>2. reader' \in Readers /\ image' \in Images \cup {Junk} /\ errorThen' \in BOOLEAN
  BY DEF Return, Readers
<1> QED
  BY <1>1, <1>2, Bounds, SnapTypes DEF CallTyped, Return

LEMMA GoOnType ==
    ASSUME CallTyped, NEW l \in {"file", "write", "sleep"}, GoOnAt(l)
    PROVE  CallTyped'
BY Bounds, SnapTypes DEF CallTyped, GoOnAt, Readers

LEMMA ReadType ==
    ASSUME CallTyped, CardTyped, pc = "read"
    PROVE  LET field == ReadOrder[nread + 1]
               s == [snap EXCEPT ![field] = Reads[field]]
               e == IF field = "status" THEN mail.error \/ ~link ELSE errorThen
           IN  /\ s \in Snap
               /\ e \in BOOLEAN
               /\ nread = 0 => field = "status"
               /\ nread = 1 => field = "error"
               /\ nread = 2 => field = "cmd"
<1> DEFINE field == ReadOrder[nread + 1]
<1>1. /\ nread \in {0, 1, 2}
      /\ nread = 0 => field = "status"
      /\ nread = 1 => field = "error"
      /\ nread = 2 => field = "cmd"
  BY DEF CallTyped, ReadOrder
<1>2. Reads \in Snap /\ snap \in Snap /\ mail.error \in BOOLEAN
  BY MailType, SnapTypes DEF CallTyped, CardTyped, Reads, Mail
<1>3. [snap EXCEPT ![field] = Reads[field]] \in Snap
  <2>1. CASE field = "status"
    BY <1>2, <2>1 DEF Snap
  <2>2. CASE field = "error"
    BY <1>2, <2>2 DEF Snap
  <2>3. CASE field = "cmd"
    BY <1>2, <2>3 DEF Snap
  <2> QED
    BY <1>1, <2>1, <2>2, <2>3
<1> QED
  BY <1>1, <1>2, <1>3 DEF CallTyped

-----------------------------------------------------------------------------
(***************************************************************************)
(* Type correctness.                                                       *)
(***************************************************************************)
LEMMA InitType == Init => Typed
<1> SUFFICES ASSUME Init PROVE Typed
  OBVIOUS
<1>1. CallTyped
  <2>1. result \in [out : Outcomes, reader : Readers, snap : Snap,
                    errorThen : BOOLEAN]
    BY SnapTypes DEF Init, NoResult, Outcomes, Readers
  <2>2. reader \in Readers /\ image \in Images \cup {Junk} /\ errorThen \in BOOLEAN
    BY DEF Init, Rest, Readers
  <2> QED
    BY <2>1, <2>2, Bounds, SnapTypes DEF Init, Rest, CallTyped
<1>2. CardTyped
  <2>1. fetched \in Seq(Images \cup {Junk}) /\ Len(fetched) <= NumWords
    BY DEF Init
  <2> QED
    BY <2>1, SnapTypes DEF Init, CardTyped
<1> QED
  BY <1>1, <1>2 DEF Init, Rest, Typed, TicksLeft

LEMMA ReadRegisterType == Typed /\ ReadRegister => Typed'
<1> SUFFICES ASSUME CallTyped, CardTyped, TicksLeft, ReadRegister
             PROVE  Typed'
  BY DEF Typed
<1> DEFINE field == ReadOrder[nread + 1]
           s == [snap EXCEPT ![field] = Reads[field]]
           e == IF field = "status" THEN mail.error \/ ~link ELSE errorThen
<1>1. s \in Snap /\ e \in BOOLEAN /\ pc = "read"
  BY ReadType DEF ReadRegister
<1>2. \/ /\ nread < 2 /\ nread' = nread + 1 /\ snap' = s /\ errorThen' = e
         /\ UNCHANGED << pc, image, w, ticks, reader, result >>
      \/ UseStatus(s, e)
  BY DEF ReadRegister
<1> HIDE DEF field, s, e
<1>3. CardTyped'
  BY CardKept DEF ReadRegister
<1>4. CASE /\ nread < 2 /\ nread' = nread + 1 /\ snap' = s /\ errorThen' = e
           /\ UNCHANGED << pc, image, w, ticks, reader, result >>
  <2>1. nread' \in 0 .. 2
    BY <1>4 DEF CallTyped
  <2> QED
    BY <1>1, <1>3, <1>4, <2>1 DEF CallTyped, Typed, TicksLeft
<1>5. CASE UseStatus(s, e)
  <2>2. CASE \E out \in Outcomes : Return(out, s, e)
    BY <1>1, <1>3, <2>2, ReturnType DEF Return, Typed, TicksLeft
  <2>3. CASE GoOnAt("file") \/ (reader = "poll" /\ GoOnAt("sleep"))
    BY <1>1, <1>3, <2>3, GoOnType DEF GoOnAt, Typed, TicksLeft
  <2> QED
    BY <1>5, <2>2, <2>3 DEF UseStatus, PollVerdict, Outcomes
<1> QED
  BY <1>2, <1>4, <1>5

\* The other steps of a call.
LEMMA CallStepType ==
    ASSUME Typed,
           \/ \E f \in Images, t \in 0 .. MaxTicks : LoadAndBoot(f, t)
           \/ LoadFile \/ WriteWord \/ SignalFitReady \/ PollLoop \/ Sleep
           \/ HaltCpu \/ Abort
    PROVE  Typed'
<1> SUFFICES ASSUME CallTyped, CardTyped, TicksLeft
             PROVE  Typed'
  BY DEF Typed
<1>1. ASSUME NEW f \in Images, NEW t \in 0 .. MaxTicks, LoadAndBoot(f, t)
      PROVE  Typed'
  <2>1. NoResult \in [out : Outcomes, reader : Readers, snap : Snap,
                      errorThen : BOOLEAN]
    BY SnapTypes DEF NoResult, Outcomes, Readers
  <2>2. CallTyped'
    BY <1>1, <2>1, Bounds DEF LoadAndBoot, ReadStatus, CallTyped, Readers
  <2> QED
    BY <1>1, <2>2, CardKept DEF LoadAndBoot, ReadStatus, Typed, TicksLeft
<1>2. CASE LoadFile
  <2>1. CallTyped'
    BY <1>2, GoOnType, ReturnType DEF LoadFile, CallTyped, Outcomes
  <2> QED
    BY <1>2, <2>1, CardKept DEF LoadFile, GoOnAt, Return, Typed, TicksLeft
<1>3. CASE WriteWord
  <2>1. dram' \in [Words -> Images \cup {Junk}]
    BY <1>3 DEF WriteWord, CallTyped, CardTyped
  <2>2. w' \in Words
    BY <1>3, Bounds DEF WriteWord, CallTyped, Words, LastWord
  <2>3. pc' \in {"write", "signal"}
    BY <1>3 DEF WriteWord
  <2>4. CallTyped'
    BY <1>3, <2>2, <2>3 DEF WriteWord, CallTyped
  <2>5. CardTyped'
    BY <1>3, <2>1 DEF WriteWord, CardTyped
  <2> QED
    BY <1>3, <2>3, <2>4, <2>5 DEF WriteWord, Typed, TicksLeft
<1>4. CASE SignalFitReady
  <2>1. mail' \in Mail
    BY <1>4, MailType DEF SignalFitReady, Command, CardTyped, Commands
  <2> QED
    BY <1>4, <2>1 DEF SignalFitReady, CallTyped, CardTyped, Typed, TicksLeft
<1>5. CASE PollLoop
  <2>1. CallTyped'
    BY <1>5, Bounds DEF PollLoop, ReadStatus, CallTyped, Readers
  <2> QED
    BY <1>5, <2>1, CardKept DEF PollLoop, ReadStatus, Typed, TicksLeft
<1>6. CASE Sleep
  <2>1. ticks > 0 /\ ticks \in 0 .. MaxTicks
    BY <1>6 DEF Sleep, TicksLeft, CallTyped
  <2>2. ticks' \in 0 .. MaxTicks
    BY <1>6, <2>1 DEF Sleep, NextTick
  <2> QED
    BY <1>6, <2>2, CardKept DEF Sleep, CallTyped, Typed, TicksLeft
<1>7. CASE HaltCpu
  <2>1. mail' \in Mail
    BY <1>7, MailType DEF HaltCpu, Command, CardTyped, Commands
  <2>2. CallTyped'
    BY <1>7, SnapTypes DEF HaltCpu, callVars, CallTyped, NoResult, Outcomes, Readers
  <2> QED
    BY <1>7, <2>1, <2>2 DEF HaltCpu, CardTyped, callVars, Typed, TicksLeft
<1>8. CASE Abort
  <2>1. CallTyped'
    BY <1>8, ReturnType DEF Abort, CallTyped, Outcomes
  <2> QED
    BY <1>8, <2>1, CardKept DEF Abort, Return, Typed, TicksLeft
<1> QED
  BY <1>1, <1>2, <1>3, <1>4, <1>5, <1>6, <1>7, <1>8

\* The CPU and the link.
LEMMA CardStepType == Typed /\ (Cpu \/ LinkLost) => Typed'
<1> SUFFICES ASSUME CallTyped, CardTyped, TicksLeft, Cpu \/ LinkLost
             PROVE  Typed'
  BY DEF Typed
<1>1. CallTyped' /\ TicksLeft'
  BY DEF Cpu, LinkLost, callVars, CallTyped, TicksLeft
<1>2. CASE LinkLost
  BY <1>1, <1>2 DEF LinkLost, CardTyped, Typed
<1>3. CASE Cpu
  <2>1. ASSUME CpuStage PROVE CardTyped'
    <3>1. PICK s \in StageAfter[mail.status] :
             /\ mail' = [mail EXCEPT !.status = s]
             /\ dramUp' = (dramUp \/ s = DRAM_RDY)
      BY <2>1 DEF CpuStage
    <3>2. s \in Statuses
      <4>1. mail.status \in Statuses
        BY DEF CardTyped, Mail
      <4> QED
        BY <3>1, <4>1 DEF StageAfter, Statuses
    <3>3. mail' \in Mail
      BY <3>1, <3>2, MailType DEF CardTyped
    <3> QED
      BY <1>3, <2>1, <3>1, <3>3 DEF CpuStage, Cpu, CardTyped
  <2>2. ASSUME CpuFetch PROVE CardTyped'
    <3>1. Len(fetched) \in Nat /\ Len(fetched) < NumWords
      BY <2>2 DEF CpuFetch, CardTyped
    <3>2. dram[Len(fetched) + 1] \in Images \cup {Junk}
      BY <3>1 DEF CardTyped, Words
    <3>3. /\ fetched' \in Seq(Images \cup {Junk})
          /\ Len(fetched') = Len(fetched) + 1
      BY <2>2, <3>2 DEF CpuFetch, CardTyped
    <3>4. mail' \in Mail
      BY <2>2, MailType DEF CpuFetch, CardTyped, Statuses
    <3> QED
      BY <1>3, <2>2, <3>1, <3>3, <3>4 DEF CpuFetch, Cpu, CardTyped
  <2>3. ASSUME CpuHalt PROVE CardTyped'
    <3>1. mail' \in Mail
      BY <2>3, MailType DEF CpuHalt, CardTyped, Statuses
    <3>2. fetched' \in Seq(Images \cup {Junk}) /\ Len(fetched') <= NumWords
      BY <2>3 DEF CpuHalt
    <3> QED
      BY <1>3, <2>3, <3>1, <3>2 DEF CpuHalt, Cpu, CardTyped
  <2>4. ASSUME CpuError PROVE CardTyped'
    <3>1. mail' \in Mail
      BY <2>4, MailType DEF CpuError, CardTyped
    <3> QED
      BY <1>3, <2>4, <3>1 DEF CpuError, Cpu, CardTyped
  <2> QED
    BY <1>1, <1>3, <2>1, <2>2, <2>3, <2>4 DEF Cpu, Typed
<1> QED
  BY <1>2, <1>3
LEMMA TypeInvariant == Spec => []Typed
<1>1. Typed /\ [Next]_vars => Typed'
  <2>1. ASSUME Typed, UNCHANGED vars PROVE Typed'
    BY <2>1 DEF vars, Typed, CallTyped, CardTyped, TicksLeft
  <2> QED
    BY <2>1, ReadRegisterType, CallStepType, CardStepType DEF Next, Progress
<1> QED
  BY <1>1, InitType, PTL DEF Spec

\* The types of the loader, its mailbox and the CPU, however long an image and
\* its deadline are.
THEOREM TypeCorrect == Spec => []TypeOK
<1>1. Typed => TypeOK
  BY DEF Typed, CallTyped, CardTyped, TypeOK
<1> QED
  BY <1>1, TypeInvariant, PTL

-----------------------------------------------------------------------------
(***************************************************************************)
(* A good status had no error.                                             *)
(***************************************************************************)
\* An error pending, or a link lost, when the status was read is still there
\* when the error register is read.
ErrorSeen ==
    /\ pc = "read" /\ nread = 1 /\ errorThen => mail.error \/ ~link
    /\ pc = "read" /\ nread = 2 /\ errorThen => snap.error

GoodInv == ErrorSeen /\ GoodStatusHadNoError

\* No step takes an error back or restores the link.
LEMMA ErrorStays ==
    ASSUME Typed, [Next]_vars, mail.error \/ ~link
    PROVE  mail'.error \/ ~link'
<1>1. mail \in Mail /\ link \in BOOLEAN
  BY DEF Typed, CardTyped
<1>2. CASE UNCHANGED << mail, link >>
  BY <1>2
<1>3. CASE \E c \in Commands : Command(c) /\ link' = link
  BY <1>1, <1>3 DEF Command, Mail
<1>4. CASE LinkLost
  BY <1>4 DEF LinkLost
<1>5. CASE Cpu
  <2>1. link' = link
    BY <1>5 DEF Cpu
  <2>2. CASE mail.error
    BY <1>5, <2>2 DEF Cpu, CpuStage, CpuFetch, CpuHalt, CpuError
  <2> QED
    BY <2>1, <2>2
<1> QED
  <2>1. CASE ReadRegister \/ LoadFile \/ PollLoop \/ Sleep \/ Abort
    BY <1>2, <2>1 DEF ReadRegister, LoadFile, PollLoop, Sleep, Abort, cpuVars
  <2>2. CASE WriteWord
    BY <1>2, <2>2 DEF WriteWord
  <2>3. CASE SignalFitReady \/ HaltCpu
    BY <1>3, <2>3 DEF SignalFitReady, HaltCpu, Commands
  <2>4. CASE \E f \in Images, t \in 0 .. MaxTicks : LoadAndBoot(f, t)
    BY <1>2, <2>4 DEF LoadAndBoot, cpuVars
  <2>5. CASE UNCHANGED vars
    BY <1>2, <2>5 DEF vars
  <2> QED
    BY <1>4, <1>5, <2>1, <2>2, <2>3, <2>4, <2>5 DEF Next, Progress

\* A call returns good only from a status it took for good.
LEMMA GoodReturn ==
    ASSUME GoodStatusHadNoError, NEW out, NEW s, NEW e, Return(out, s, e),
           out = "ok" /\ reader = "poll" => ~e
    PROVE  GoodInv'
BY DEF GoodInv, GoodStatusHadNoError, ErrorSeen, Return

LEMMA GoodReadRegister ==
    ASSUME Typed, GoodInv, ReadRegister
    PROVE  GoodInv'
<1> DEFINE field == ReadOrder[nread + 1]
           s == [snap EXCEPT ![field] = Reads[field]]
           e == IF field = "status" THEN mail.error \/ ~link ELSE errorThen
<1>1. /\ pc = "read" /\ UNCHANGED cpuVars
      /\ nread = 0 => field = "status"
      /\ nread = 1 => field = "error"
      /\ nread = 2 => field = "cmd"
  BY ReadType DEF ReadRegister, Typed
<1>2. \/ /\ nread < 2 /\ nread' = nread + 1 /\ snap' = s /\ errorThen' = e
         /\ UNCHANGED << pc, image, w, ticks, reader, result >>
      \/ nread = 2 /\ UseStatus(s, e)
  BY DEF ReadRegister
<1>3. nread \in 0 .. 2 /\ snap \in Snap /\ mail \in Mail
  BY DEF Typed, CallTyped, CardTyped
<1>4. CASE /\ nread < 2 /\ nread' = nread + 1 /\ snap' = s /\ errorThen' = e
           /\ UNCHANGED << pc, image, w, ticks, reader, result >>
  <2>1. GoodStatusHadNoError'
    BY <1>4 DEF GoodInv, GoodStatusHadNoError
  <2>2. CASE nread = 0
    <3>1. errorThen' => mail.error \/ ~link
      <4>1. field = "status" /\ errorThen' = e
        BY <1>1, <1>4, <2>2
      <4> HIDE DEF field, s
      <4> QED
        BY <4>1, Zenon
    <3>2. mail' = mail /\ link' = link
      BY <1>1 DEF cpuVars
    <3>3. ErrorSeen'
      <4>1. nread' = 1
        BY <1>4, <2>2
      <4> HIDE DEF field, s, e
      <4> QED
        BY <3>1, <3>2, <4>1 DEF ErrorSeen
    <3> QED
      BY <2>1, <3>3 DEF GoodInv
  <2>3. CASE nread = 1
    <3>1. nread' = 2 /\ errorThen' = errorThen /\ snap'.error = Reads.error
      BY <1>1, <1>3, <1>4, <2>3 DEF Snap
    <3>2. errorThen => Reads.error
      BY <1>1, <2>3 DEF GoodInv, ErrorSeen, Reads, AllOnes
    <3> QED
      BY <2>1, <3>1, <3>2 DEF GoodInv, ErrorSeen
  <2> QED
    BY <1>3, <1>4, <2>2, <2>3
<1>5. CASE nread = 2 /\ UseStatus(s, e)
  <2>1. e = errorThen /\ s.error = snap.error
    BY <1>1, <1>3, <1>5 DEF Snap
  <2>2. errorThen => s.error
    BY <1>1, <1>5, <2>1 DEF GoodInv, ErrorSeen
  <2> HIDE DEF s, e
  <2>3. CASE reader = "poll" /\ Return(PollVerdict(s), s, e)
    <3>1. PollVerdict(s) = "ok" => ~e
      BY <2>1, <2>2 DEF PollVerdict
    <3> QED
      BY <2>3, <3>1, GoodReturn DEF GoodInv
  <2>4. CASE reader # "poll" /\ \E out \in Outcomes : Return(out, s, e)
    BY <2>4, GoodReturn DEF GoodInv
  <2>5. CASE GoOnAt("file") \/ GoOnAt("sleep")
    BY <2>5 DEF GoodInv, GoodStatusHadNoError, ErrorSeen, GoOnAt
  <2> QED
    BY <1>5, <2>3, <2>4, <2>5 DEF UseStatus, Outcomes
<1> QED
  BY <1>2, <1>4, <1>5

LEMMA GoodStep ==
    ASSUME Typed, GoodInv, [Next]_vars
    PROVE  GoodInv'
<1>1. CASE \E f \in Images, t \in 0 .. MaxTicks : LoadAndBoot(f, t)
  BY <1>1 DEF LoadAndBoot, ReadStatus, GoodInv, GoodStatusHadNoError, ErrorSeen,
              NoResult
<1>2. CASE LoadFile
  <2>1. CASE GoOnAt("write")
    BY <2>1 DEF GoodInv, GoodStatusHadNoError, ErrorSeen, GoOnAt
  <2>2. CASE Return("error", snap, errorThen)
    BY <2>2, GoodReturn DEF GoodInv
  <2> QED
    BY <1>2, <2>1, <2>2 DEF LoadFile
<1>3. CASE WriteWord
  BY <1>3 DEF WriteWord, GoodInv, GoodStatusHadNoError, ErrorSeen
<1>4. CASE SignalFitReady
  BY <1>4 DEF SignalFitReady, GoodInv, GoodStatusHadNoError, ErrorSeen
<1>5. CASE PollLoop
  BY <1>5 DEF PollLoop, ReadStatus, GoodInv, GoodStatusHadNoError, ErrorSeen
<1>6. CASE Sleep
  BY <1>6 DEF Sleep, GoodInv, GoodStatusHadNoError, ErrorSeen
<1>7. CASE HaltCpu
  BY <1>7 DEF HaltCpu, callVars, GoodInv, GoodStatusHadNoError, ErrorSeen,
              NoResult
<1>8. CASE Abort
  BY <1>8, GoodReturn DEF Abort, GoodInv
<1>9. CASE Cpu \/ LinkLost \/ UNCHANGED vars
  <2>1. UNCHANGED << callVars, result >>
    BY <1>9 DEF Cpu, LinkLost, vars, callVars
  <2> QED
    BY <2>1, ErrorStays DEF callVars, GoodInv, GoodStatusHadNoError, ErrorSeen
<1> QED
  BY <1>1, <1>2, <1>3, <1>4, <1>5, <1>6, <1>7, <1>8, <1>9, GoodReadRegister
     DEF Next, Progress

\* A boot status that poll_cpu_boot returns as good was good when it was read:
\* no error was pending then, and the link was up.
THEOREM GoodStatus == Spec => []GoodStatusHadNoError
<1>1. Init => GoodInv
  BY DEF Init, Rest, NoResult, GoodInv, GoodStatusHadNoError, ErrorSeen
<1>2. Typed /\ GoodInv /\ [Next]_vars => GoodInv'
  BY GoodStep
<1>3. GoodInv => GoodStatusHadNoError
  BY DEF GoodInv
<1> QED
  BY <1>1, <1>2, <1>3, TypeInvariant, PTL DEF Spec

-----------------------------------------------------------------------------
(***************************************************************************)
(* The CPU boots one image, whole.                                         *)
(***************************************************************************)
\* What a call has written so far, unless its writes go nowhere.
Written ==
    /\ pc # "idle" => image \in Images
    /\ pc # "write" => w = 1
    /\ pc = "write" /\ link => \A j \in Words : j < w => dram[j] = image
    /\ pc = "signal" /\ link => \A j \in Words : dram[j] = image

\* What the CPU has words to take of is one image, all there, and what it has
\* taken is of the same.
Pending ==
    Awaited /\ ~overwritten =>
        \E f \in Images :
            /\ \A j \in Words : dram[j] = f
            /\ \A j \in 1 .. Len(fetched) : fetched[j] = f

WholeInv == Written /\ Pending /\ BootsWholeImage

\* A step that leaves the card alone.
LEMMA WholeKept ==
    ASSUME WholeInv, UNCHANGED cpuVars, Written'
    PROVE  WholeInv'
BY DEF cpuVars, WholeInv, Pending, Awaited, BootsWholeImage

LEMMA WrittenReturn ==
    ASSUME NEW out, NEW s, NEW e, Return(out, s, e)
    PROVE  Written'
BY DEF Return, Written

LEMMA WrittenGoOn ==
    ASSUME Written, pc \in {"read", "file"}, UNCHANGED << link, dram >>,
           \E l \in {"file", "write", "sleep"} : GoOnAt(l)
    PROVE  Written'
<1>1. /\ pc' \in {"file", "write", "sleep"} /\ pc # "write" /\ pc # "idle"
      /\ image' = image /\ w' = w /\ dram' = dram
  BY DEF GoOnAt
<1>2. \A j \in Words : ~(j < 1)
  BY DEF Words
<1> QED
  BY <1>1, <1>2 DEF Written

LEMMA WrittenReadRegister ==
    ASSUME Typed, Written, ReadRegister
    PROVE  Written'
<1> DEFINE field == ReadOrder[nread + 1]
           s == [snap EXCEPT ![field] = Reads[field]]
           e == IF field = "status" THEN mail.error \/ ~link ELSE errorThen
<1>1. pc = "read" /\ UNCHANGED << link, dram >>
  BY DEF ReadRegister, cpuVars
<1>2. \/ UNCHANGED << pc, image, w >>
      \/ UseStatus(s, e)
  BY DEF ReadRegister
<1> HIDE DEF field, s, e
<1>3. CASE UNCHANGED << pc, image, w >>
  BY <1>1, <1>3 DEF Written
<1>4. CASE UseStatus(s, e)
  <2>1. CASE \E out \in Outcomes : Return(out, s, e)
    BY <2>1, WrittenReturn
  <2>2. CASE GoOnAt("file") \/ GoOnAt("sleep")
    BY <1>1, <2>2, WrittenGoOn
  <2> QED
    BY <1>4, <2>1, <2>2 DEF UseStatus, PollVerdict, Outcomes
<1> QED
  BY <1>2, <1>3, <1>4

\* A word written under a CPU with words to take is of the image it takes, or
\* it counts as overwritten.
LEMMA WholeWriteWord ==
    ASSUME Typed, WholeInv, WriteWord
    PROVE  WholeInv'
<1>1. /\ pc = "write" /\ UNCHANGED << image, link, mail, fetched >>
      /\ dram' = IF link THEN [dram EXCEPT ![w] = image] ELSE dram
      /\ overwritten' = (overwritten \/ (Awaited /\ dram' # dram))
      /\ \/ w < NumWords /\ w' = w + 1 /\ pc' = "write"
         \/ ~(w < NumWords) /\ w' = 1 /\ pc' = "signal"
  BY DEF WriteWord, LastWord
<1>2. w \in 1 .. NumWords /\ dram \in [Words -> Images \cup {Junk}]
  BY DEF Typed, CallTyped, CardTyped, Words
<1>3. ASSUME link, NEW j \in Words, j <= w
      PROVE  dram'[j] = image'
  <2>1. \A i \in Words : i < w => dram[i] = image
    BY <1>1, <1>3 DEF WholeInv, Written
  <2> QED
    BY <1>1, <1>2, <1>3, <2>1 DEF Words
<1>4. Written'
  <2>1. CASE w < NumWords /\ w' = w + 1 /\ pc' = "write"
    <3>1. \A j \in Words : j < w' => j <= w
      BY <1>2, <2>1 DEF Words
    <3> QED
      BY <1>1, <1>3, <2>1, <3>1 DEF WholeInv, Written
  <2>2. CASE ~(w < NumWords) /\ w' = 1 /\ pc' = "signal"
    <3>1. \A j \in Words : j <= w
      BY <1>2, <2>2 DEF Words
    <3> QED
      BY <1>1, <1>3, <2>2, <3>1 DEF WholeInv, Written
  <2> QED
    BY <1>1, <2>1, <2>2
<1>5. BootsWholeImage'
  BY <1>1 DEF WholeInv, BootsWholeImage
<1>6. Pending'
  <2>1. Awaited' = Awaited
    BY <1>1 DEF Awaited
  <2>2. ASSUME Awaited, ~overwritten' PROVE dram' = dram /\ ~overwritten
    BY <1>1, <2>2
  <2> QED
    BY <1>1, <2>1, <2>2 DEF WholeInv, Pending
<1> QED
  BY <1>4, <1>5, <1>6 DEF WholeInv

LEMMA WholeCallStep ==
    ASSUME Typed, WholeInv,
           \/ \E f \in Images, t \in 0 .. MaxTicks : LoadAndBoot(f, t)
           \/ Progress \/ HaltCpu \/ Abort
    PROVE  WholeInv'
<1>1. ASSUME NEW f \in Images, NEW t \in 0 .. MaxTicks, LoadAndBoot(f, t)
      PROVE  WholeInv'
  <2>1. pc' = "read" /\ image' \in Images /\ w' = w /\ pc = "idle" /\ UNCHANGED cpuVars
    BY <1>1 DEF LoadAndBoot, ReadStatus
  <2> QED
    BY <2>1, WholeKept DEF WholeInv, Written
<1>2. CASE ReadRegister
  <2>1. Written'
    BY <1>2, WrittenReadRegister DEF WholeInv
  <2> QED
    BY <1>2, <2>1, WholeKept DEF ReadRegister
<1>3. CASE LoadFile
  <2>1. pc = "file" /\ UNCHANGED cpuVars
        /\ (GoOnAt("write") \/ Return("error", snap, errorThen))
    BY <1>3 DEF LoadFile
  <2>2. Written'
    BY <2>1, WrittenGoOn, WrittenReturn DEF WholeInv, cpuVars
  <2> QED
    BY <2>1, <2>2, WholeKept
<1>4. CASE WriteWord
  BY <1>4, WholeWriteWord
<1>5. CASE SignalFitReady
  <2>1. /\ pc = "signal" /\ pc' = "loop"
        /\ UNCHANGED << image, w, link, dram, fetched, overwritten >>
        /\ mail' = IF link THEN [mail EXCEPT !.cmd = "FIT_RDY"] ELSE mail
    BY <1>5 DEF SignalFitReady, Command
  <2>2. Written' /\ BootsWholeImage'
    BY <2>1 DEF WholeInv, Written, BootsWholeImage
  <2>3. CASE Awaited \/ ~link
    <3>1. Awaited' => Awaited
      BY <2>1, <2>3 DEF Awaited
    <3> QED
      BY <2>1, <2>2, <3>1 DEF WholeInv, Pending
  <2>4. CASE ~Awaited /\ link
    <3>1. image \in Images /\ \A j \in Words : dram[j] = image
      BY <2>1, <2>4 DEF WholeInv, Written
    <3>2. Awaited' => Len(fetched') = 0
      BY <2>1, <2>4 DEF Awaited
    <3> QED
      BY <2>1, <2>2, <3>1, <3>2 DEF WholeInv, Pending
  <2> QED
    BY <2>3, <2>4
<1>6. CASE PollLoop \/ Sleep
  <2>1. /\ pc \in {"loop", "sleep"} /\ pc' \in {"loop", "read"}
        /\ UNCHANGED << image, w, cpuVars >>
    BY <1>6 DEF PollLoop, ReadStatus, Sleep
  <2> QED
    BY <2>1, WholeKept DEF WholeInv, Written
<1>7. CASE HaltCpu
  <2>1. /\ UNCHANGED << pc, image, w, link, dram, fetched, overwritten >>
        /\ mail' = IF link THEN [mail EXCEPT !.cmd = "GOTO_WFE"] ELSE mail
    BY <1>7 DEF HaltCpu, Command, callVars
  <2>2. Awaited' => Awaited
    BY <2>1 DEF Awaited, Typed, CardTyped, Mail
  <2> QED
    BY <2>1, <2>2 DEF WholeInv, Written, Pending, BootsWholeImage
<1>8. CASE Abort
  BY <1>8, WrittenReturn, WholeKept DEF Abort
<1> QED
  BY <1>1, <1>2, <1>3, <1>4, <1>5, <1>6, <1>7, <1>8 DEF Progress

LEMMA WholeCardStep ==
    ASSUME Typed, WholeInv, Cpu \/ LinkLost
    PROVE  WholeInv'
<1>1. UNCHANGED << pc, image, w, dram >> /\ (link' => link)
  BY DEF Cpu, CpuStage, CpuFetch, CpuHalt, CpuError, LinkLost, callVars
<1>2. Written'
  BY <1>1 DEF WholeInv, Written
<1>3. fetched \in Seq(Images \cup {Junk}) /\ Len(fetched) \in Nat /\ mail \in Mail
  BY DEF Typed, CardTyped
<1>4. CASE CpuFetch
  <2>1. Len(fetched) < NumWords /\ mail.cmd = "FIT_RDY" /\ overwritten' = overwritten
        /\ fetched' = Append(fetched, dram[Len(fetched) + 1])
    BY <1>4 DEF CpuFetch
  <2>2. ASSUME ~overwritten'
        PROVE  \E f \in Images : /\ \A j \in Words : dram'[j] = f
                                 /\ \A j \in 1 .. Len(fetched') : fetched'[j] = f
    <3>1. PICK f \in Images : /\ \A j \in Words : dram[j] = f
                              /\ \A j \in 1 .. Len(fetched) : fetched[j] = f
      BY <2>1, <2>2 DEF WholeInv, Pending, Awaited
    <3>2. Len(fetched) + 1 \in Words
      BY <1>3, <2>1 DEF Words
    <3>3. fetched' = Append(fetched, f)
      BY <2>1, <3>1, <3>2
    <3>4. \A j \in 1 .. Len(fetched') : fetched'[j] = f
      BY <1>3, <3>1, <3>3
    <3> QED
      BY <1>1, <3>1, <3>4
  <2>3. Pending' /\ BootsWholeImage'
    BY <2>2 DEF Pending, BootsWholeImage, Words
  <2> QED
    BY <1>2, <2>3 DEF WholeInv
<1>5. CASE CpuHalt
  <2>1. fetched' = << >> /\ mail'.cmd = "GOTO_WFE"
    BY <1>3, <1>5 DEF CpuHalt, Mail
  <2>2. Len(fetched') = 0 /\ NumWords # 0
    BY <2>1
  <2> QED
    BY <1>2, <2>1, <2>2 DEF WholeInv, Pending, Awaited, BootsWholeImage
<1>6. CASE CpuStage \/ CpuError \/ LinkLost
  <2>1. fetched' = fetched /\ overwritten' = overwritten
    BY <1>6 DEF CpuStage, CpuError, LinkLost
  <2>2. mail'.cmd = mail.cmd
    BY <1>3, <1>6 DEF CpuStage, CpuError, LinkLost, Mail
  <2> QED
    BY <1>1, <1>2, <2>1, <2>2 DEF WholeInv, Pending, Awaited, BootsWholeImage
<1> QED
  BY <1>4, <1>5, <1>6 DEF Cpu

\* However long an image is and whenever calls end, the CPU halts, stops with an
\* error or loses its link: no CPU boots from the words of two images or from
\* words nobody wrote, unless a call replaced words of the image it was taking
\* or told to take by those of another.
THEOREM WholeImages == Spec => []BootsWholeImage
<1>1. Init => WholeInv
  <2> SUFFICES ASSUME Init PROVE WholeInv
    OBVIOUS
  <2>1. Len(fetched) = 0 /\ NumWords # 0
    BY DEF Init
  <2> QED
    BY <2>1 DEF Init, Rest, NoSnap, WholeInv, Written, Pending, Awaited,
                BootsWholeImage
<1>2. Typed /\ WholeInv /\ [Next]_vars => WholeInv'
  <2>1. ASSUME WholeInv, UNCHANGED vars PROVE WholeInv'
    BY <2>1 DEF vars, WholeInv, Written, Pending, Awaited, BootsWholeImage
  <2> QED
    BY <2>1, WholeCallStep, WholeCardStep DEF Next
<1>3. WholeInv => BootsWholeImage
  BY DEF WholeInv
<1> QED
  BY <1>1, <1>2, <1>3, TypeInvariant, PTL DEF Spec

-----------------------------------------------------------------------------
(***************************************************************************)
(* A call is bounded.                                                      *)
(***************************************************************************)
Nearer == StepsLeft' \in 0 .. StepsLeft - 1

\* A call that ends has no steps left, and had some.
LEMMA EndIsNearer ==
    ASSUME Typed, pc # "idle", pc' = "idle"
    PROVE  Nearer
<1>1. /\ NumWords \in Nat /\ ticks \in Nat /\ w \in 1 .. NumWords /\ nread \in 0 .. 2
      /\ pc \in {"read", "file", "write", "signal", "loop", "sleep"}
      /\ TicksLeft
  BY NumWordsAssumption, MaxTicksAssumption DEF Typed, CallTyped, Words
<1>2. StepsLeft' = 0
  BY DEF StepsLeft
<1>3. StepsLeft \in Nat /\ StepsLeft > 0
  <2>1. CASE pc = "read"
    BY <1>1, <2>1 DEF StepsLeft, TicksLeft
  <2>2. CASE pc = "sleep"
    BY <1>1, <2>2 DEF StepsLeft, TicksLeft
  <2>3. CASE pc \in {"file", "write", "signal", "loop"}
    BY <1>1, <2>3 DEF StepsLeft
  <2> QED
    BY <1>1, <2>1, <2>2, <2>3
<1> QED
  BY <1>2, <1>3 DEF Nearer

LEMMA CallStepNearer ==
    ASSUME Typed, Progress
    PROVE  Nearer
<1>1. /\ NumWords \in Nat /\ ticks \in Nat /\ w \in 1 .. NumWords /\ nread \in 0 .. 2
      /\ TicksLeft
  BY NumWordsAssumption, MaxTicksAssumption DEF Typed, CallTyped, Words
<1>2. \A out, s, e : Return(out, s, e) => pc' = "idle"
  BY DEF Return
<1>3. pc # "idle"
  BY DEF Progress, ReadRegister, LoadFile, WriteWord, SignalFitReady, PollLoop, Sleep
<1>4. CASE pc' = "idle"
  BY <1>3, <1>4, EndIsNearer
<1>5. CASE pc' # "idle"
  <2>1. CASE ReadRegister
    <3>1. /\ pc = "read"
          /\ \/ nread < 2 /\ nread' = nread + 1 /\ UNCHANGED << pc, w, ticks, reader >>
             \/ \E s, e : nread = 2 /\ UseStatus(s, e)
      BY <2>1 DEF ReadRegister
    <3>2. CASE nread < 2 /\ nread' = nread + 1 /\ UNCHANGED << pc, w, ticks, reader >>
      BY <1>1, <3>1, <3>2 DEF StepsLeft, Nearer, TicksLeft
    <3>3. CASE \E s, e : nread = 2 /\ UseStatus(s, e)
      <4>1. /\ nread = 2 /\ ticks' = ticks
            /\ \/ reader = "check" /\ pc' = "file"
               \/ reader = "poll" /\ pc' = "sleep"
        BY <1>2, <1>5, <3>3 DEF UseStatus, GoOnAt
      <4> QED
        BY <1>1, <3>1, <4>1 DEF StepsLeft, Nearer, TicksLeft
    <3> QED
      BY <3>1, <3>2, <3>3
  <2>2. CASE LoadFile
    <3>1. pc = "file" /\ pc' = "write" /\ ticks' = ticks /\ w' = w
      BY <1>2, <1>5, <2>2 DEF LoadFile, GoOnAt
    <3> QED
      BY <1>1, <3>1 DEF StepsLeft, Nearer
  <2>3. CASE WriteWord
    <3>1. /\ pc = "write" /\ ticks' = ticks
          /\ IF w < NumWords THEN w' = w + 1 /\ pc' = "write" ELSE pc' = "signal"
      BY <2>3 DEF WriteWord, LastWord
    <3> QED
      BY <1>1, <3>1 DEF StepsLeft, Nearer
  <2>4. CASE SignalFitReady
    <3>1. pc = "signal" /\ pc' = "loop" /\ ticks' = ticks
      BY <2>4 DEF SignalFitReady
    <3> QED
      BY <1>1, <3>1 DEF StepsLeft, Nearer
  <2>5. CASE PollLoop
    <3>1. /\ pc = "loop" /\ pc' = "read" /\ ticks' = ticks /\ nread' = 0
          /\ reader' = IF ticks > 0 THEN "poll" ELSE "final"
      BY <2>5 DEF PollLoop, ReadStatus
    <3> QED
      BY <1>1, <3>1 DEF StepsLeft, Nearer
  <2>6. CASE Sleep
    <3>1. pc = "sleep" /\ pc' = "loop" /\ ticks' = ticks - 1
      BY <2>6 DEF Sleep, NextTick
    <3> QED
      BY <1>1, <3>1 DEF StepsLeft, Nearer, TicksLeft
  <2> QED
    BY <2>1, <2>2, <2>3, <2>4, <2>5, <2>6 DEF Progress
<1> QED
  BY <1>4, <1>5

\* Whatever the CPU and the link do, a call of load_and_boot_firmware makes no
\* more steps than the words of its image and its deadline allow.
THEOREM Bounded == Spec => BootAdvances
<1>1. Typed /\ [Next]_vars
      => [pc # "idle" => UNCHANGED callVars \/ Nearer]_vars
  <2>1. ASSUME Typed, Next, pc # "idle" PROVE UNCHANGED callVars \/ Nearer
    <3>1. CASE Progress
      BY <2>1, <3>1, CallStepNearer
    <3>2. CASE Abort
      <4>1. pc' = "idle"
        BY <3>2 DEF Abort, Return
      <4> QED
        BY <2>1, <4>1, EndIsNearer
    <3>3. CASE Cpu \/ LinkLost
      BY <3>3 DEF Cpu, LinkLost
    <3> QED
      BY <2>1, <3>1, <3>2, <3>3 DEF Next, LoadAndBoot, HaltCpu
  <2> QED
    BY <2>1
<1>2. [pc # "idle" => UNCHANGED callVars \/ Nearer]_vars
      => [pc # "idle" => UNCHANGED callVars \/ StepsLeft' \in 0 .. StepsLeft - 1]_vars
  BY DEF Nearer
<1> QED
  BY <1>1, <1>2, TypeInvariant, PTL DEF Spec, BootAdvances
=============================================================================
