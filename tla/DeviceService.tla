--------------------------- MODULE DeviceService ---------------------------
(***************************************************************************)
(* What the device object promises its caller (the docstrings and the      *)
(* exceptions of src/src/goya/device.py), without registers: calls are     *)
(* made one at a time and answered once; work is accepted only while the   *)
(* object is ready; a call hands its job to its engine once, as a whole,   *)
(* and succeeds only after that engine has come to rest.  What a failed    *)
(* call leaves running is known to have been given up.                     *)
(***************************************************************************)
CONSTANTS
    Engines,
    ResetEngine,    \* the engine a shutdown stops
    Jobs,
    NoJob           \* what an engine at rest is doing

VARIABLES
    ready,          \* work is accepted
    call,           \* the call in progress
    started,        \* its job has been handed over
    doing,          \* the job of each engine
    givenUp,        \* engines whose call is over and that may still run
    answer          \* of the last call, until the next one

vars == << ready, call, started, doing, givenUp, answer >>

NoWork == << >>
Lifecycle == {"init", "enter", "shutdown", "exit", "status"}
WorkOps == {"dma", "gemm"}

NoCall == [op |-> "none", work |-> NoWork]
NoAnswer == [op |-> "none", work |-> NoWork, out |-> "none"]

Calls ==
    [op : Lifecycle, work : {NoWork}]
    \cup [op : WorkOps, work : Engines \X Jobs]

Init ==
    /\ ready = FALSE
    /\ call = NoCall
    /\ started = FALSE
    /\ doing = [e \in Engines |-> NoJob]
    /\ givenUp = {}
    /\ answer = NoAnswer

HasWork == call.op \in WorkOps
Engine == call.work[1]
Job == call.work[2]

Answered(c, out) == [op |-> c.op, work |-> c.work, out |-> out]

\* The call in progress is over.
Answer(out) ==
    /\ call # NoCall
    /\ answer' = Answered(call, out)
    /\ call' = NoCall
    /\ started' = FALSE

Call(c) ==
    /\ call = NoCall
    /\ c.op \in WorkOps => ready
    /\ call' = c
    /\ answer' = NoAnswer
    /\ UNCHANGED << ready, started, doing, givenUp >>

\* Without init(): work is refused and shutdown() has nothing to do.
AnswerAtOnce(c) ==
    /\ call = NoCall
    /\ ~ready
    /\ \/ c.op \in WorkOps /\ answer' = Answered(c, "error")
       \/ c.op = "shutdown" /\ answer' = Answered(c, "ok")
    /\ UNCHANGED << ready, call, started, doing, givenUp >>

BecomeReady ==
    /\ call.op \in {"init", "enter"}
    /\ ready' = TRUE
    /\ Answer("ok")
    /\ UNCHANGED << doing, givenUp >>

\* shutdown() and the end of a with statement: one engine is stopped, then
\* the object is not ready any more; leaving a with statement goes on.
Stop ==
    /\ call.op \in {"shutdown", "exit"}
    /\ doing' = [doing EXCEPT ![ResetEngine] = NoJob]
    /\ givenUp' = givenUp \ {ResetEngine}
    /\ UNCHANGED << ready, call, started, answer >>

GoDown ==
    /\ ready
    /\ ready' = FALSE
    /\ \/ call.op = "shutdown" /\ Answer("ok")
       \/ call.op = "exit" /\ UNCHANGED << call, started, answer >>
    /\ UNCHANGED << doing, givenUp >>

Leave ==
    /\ call.op = "exit"
    /\ ~ready
    /\ Answer("ok")
    /\ UNCHANGED << ready, doing, givenUp >>

ReportStatus ==
    /\ call.op = "status"
    /\ Answer("ok")
    /\ UNCHANGED << ready, doing, givenUp >>

\* The job is handed over once.  Only an engine that was given up can be
\* running at that time; it keeps its job or takes the new one.
Start ==
    /\ HasWork
    /\ ~started
    /\ started' = TRUE
    /\ \/ doing' = [doing EXCEPT ![Engine] = Job]
       \/ doing[Engine] # NoJob /\ doing' = doing
    /\ doing[Engine] # NoJob => Engine \in givenUp
    /\ UNCHANGED << ready, call, givenUp, answer >>

Finish(e) ==
    /\ doing[e] # NoJob
    /\ doing' = [doing EXCEPT ![e] = NoJob]
    /\ givenUp' = givenUp \ {e}
    /\ UNCHANGED << ready, call, started, answer >>

Succeed ==
    /\ HasWork
    /\ started
    /\ doing[Engine] = NoJob
    /\ Answer("ok")
    /\ UNCHANGED << ready, doing, givenUp >>

\* What the call has started and not seen the end of is given up.
LetGo ==
    givenUp' = IF started /\ doing[Engine] # NoJob
               THEN givenUp \cup {Engine} ELSE givenUp

Fail ==
    /\ \/ Answer("error")
       \/ HasWork /\ started /\ Answer("timeout")
    /\ LetGo
    /\ UNCHANGED << ready, doing >>

\* The process ends; the card goes on.
Crash ==
    /\ ready' = FALSE
    /\ call' = NoCall
    /\ started' = FALSE
    /\ answer' = NoAnswer
    /\ LetGo
    /\ UNCHANGED doing

Next ==
    \/ \E c \in Calls : Call(c) \/ AnswerAtOnce(c)
    \/ BecomeReady \/ Stop \/ GoDown \/ Leave \/ ReportStatus
    \/ Start \/ Succeed \/ Fail \/ Crash
    \/ \E e \in Engines : Finish(e)

Spec == Init /\ [][Next]_vars
=============================================================================
