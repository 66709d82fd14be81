----------------------------- MODULE DebugSession -----------------------------
(***************************************************************************)
(* A debugging session: the debugger (ProgramControl) and the debuggee     *)
(* (FunctionHook) as two concurrent processes over the shared record and   *)
(* the kernel's process state.                                             *)
(***************************************************************************)
EXTENDS ProgramControl, FunctionHook

(* The debugger right after its start: RL_SETUP with a cleared segment.    *)
Init ==
    /\ operation = "NONE" /\ result = "FUNCTION_CALL"
    /\ item0 = "NO_ERROR" /\ item1 = 0 /\ fname = NoCall
    /\ proc = "dead" /\ wstat = "none"
    /\ hpc = "boot" /\ call = NoCall /\ times = 0 /\ lock = 0
    /\ dpc = "idle" /\ level = "setup" /\ handler = "none" /\ goal = {}
    /\ cmd = "none" /\ pid = 0 /\ shown = Null

Next == ControlNext \/ HookNext

Spec == Init /\ [][Next]_vars

(* Both processes are scheduled; the application goes on to its next GL    *)
(* call or ends.  Nothing is assumed of the user, nor of signals.          *)
Fairness ==
    /\ WF_vars(ControlStep)
    /\ WF_vars(InHook)
    /\ WF_vars(AppContinues)

FairSpec == Spec /\ Fairness

TypeOK ==
    /\ operation \in Operations /\ result \in Results
    /\ item0 \in Items /\ item1 \in {0, 1} /\ fname \in Calls \cup {NoCall}
    /\ proc \in {"running", "stopped", "dead"} /\ wstat \in WaitStatus
    /\ hpc \in HookPoints /\ call \in Calls \cup {NoCall}
    /\ times \in 0..MaxTimes /\ lock \in {0, 1}
    /\ dpc \in ControlPoints /\ level \in {"setup", "trace", "run"}
    /\ handler \in Handlers /\ goal \subseteq Calls /\ cmd \in Commands
    /\ pid \in {0, 1} /\ shown \in Calls \cup {NoCall, Null}

-----------------------------------------------------------------------------
(* What the user relies on at RL_TRACE_EXECUTE: the debuggee is stopped in *)
(* the command loop of the call on display, with nothing left to wait for. *)
TraceIsParked ==
    AtTrace => /\ pid # 0 /\ proc = "stopped" /\ wstat = "none"
               /\ hpc = "read" /\ shown = call

(* A synchronous command is written to a debuggee that will read it: no    *)
(* operation is lost or served by a later stop.  (The exceptions are       *)
(* launching, and a debuggee that is gone.)                                *)
CommandMeetsLoop ==
    (dpc = "cont" /\ cmd # "start" /\ proc # "dead") =>
        proc = "stopped" /\ wstat = "none" /\ hpc \in {"read", "leave"}

(* When a command is answered the debuggee waits for the next one: an      *)
(* answer is never the stop of an earlier command.                         *)
AnswerIsFresh ==
    (dpc = "reply" /\ cmd # "start" /\ proc # "dead") =>
        /\ proc = "stopped" /\ wstat = "none"
        /\ hpc = IF cmd = "exec" THEN "leave" ELSE "read"

(* A blocking waitpid behind PTRACE_CONT never waits for a debuggee that   *)
(* is stopped with its stop reported already and waits for PTRACE_CONT:    *)
(* neither would ever go on.  (The waitpid behind the polling loop can:    *)
(* see PauseReturns.)                                                      *)
NeverStuck ==
    dpc \in {"exec", "wait", "ewait"} => ~(proc = "stopped" /\ wstat = "none")

(* The hook passes each call of the application to the original at most    *)
(* once, whatever the debugger does with it.                               *)
CalledOnce == times <= 1

(* The application gets control back from a hook only after the original   *)
(* was executed, unless the user skipped the call.                         *)
NeverDropped ==
    [][hpc \notin {"boot", "app"} /\ hpc' = "app" /\ handler # "skip"
          => times' >= 1]_vars

(* The command loop is run under G.lock, which EXIT_CS at its end releases *)
(* (FunctionHooks.pl:314): a hook that is in it, or decides whether to     *)
(* enter it, holds the mutex.                                              *)
LockedInLoop == hpc \in CommandLoop \cup {"decide"} => lock = 1

(* However a hook is left, G.lock is free then, or the ENTER_CS of the next*)
(* call would block for ever; and what is served for a call that is not    *)
(* executed yet is served under G.lock: only the loop of a call that was   *)
(* executed, and halted by an error, may run without it.                   *)
LockIsKept ==
    /\ hpc \in {"boot", "app", "untraced", "halt", "report"} => lock = 0
    /\ (hpc \in CommandLoop \cup {"decide", "halt", "report"} /\ lock = 0)
          => times >= 1

(* DBG_DONE: "Quit command loop for the current call and proceed to next   *)
(* call" (debuglib.h:395): its answer is a call that is not yet executed.  *)
DoneProceeds ==
    (dpc = "reply" /\ cmd \in Dones /\ proc # "dead") =>
        result = "FUNCTION_CALL" /\ times = 0

(* DBG_CALL_ORIGFUNCTION is answered by DBG_RETURN_VALUE or DBG_ERROR_CODE *)
(* (debuglib.h:89 and 195).                                                *)
OrigIsAnswered ==
    (dpc = "reply" /\ cmd = "orig") => result \in {"RETURN_VALUE", "ERROR_CODE"}

(* RL_TRACE_EXECUTE means that there is a debuggee, however a jump ended:  *)
(* waitForEndOfExecution() is the "last statement!!" of the jumps          *)
(* (mainWindow.cpp:1070), so none may set a run level behind it.           *)
TraceHasDebuggee == AtTrace => pid # 0

(* DBG_FUNCTION_CALL: "Returned when a new call is reached and the command *)
(* loop has been entered" (debuglib.h:77), so at RL_TRACE_EXECUTE, with    *)
(* that as the answer, the debuggee is in its command loop.                *)
FunctionCallReached ==
    (AtTrace /\ pid # 0 /\ proc # "dead" /\ result = "FUNCTION_CALL")
        => hpc = "read"

(* The promise of SteppedProgram.                                          *)
Phase == IF pid = 0 \/ proc = "dead" THEN "absent"
         ELSE IF hpc \in CommandLoop THEN "parked" ELSE "running"

Stepped == INSTANCE SteppedProgram WITH
    phase    <- Phase,
    executed <- IF Phase = "parked" THEN times ELSE 0,
    user     <- AtTrace /\ pid # 0

KeepsThePromise == Stepped!Spec

-----------------------------------------------------------------------------
(* Every command is answered, and so is the start of the debuggee: the     *)
(* debugger leaves each of these blocking waits.                           *)
CommandAnswered == \A p \in {"exec", "wait"} : dpc = p ~> dpc # p

(* DBG_STOP_EXECUTION brings the debuggee to a stop in its hook, unless it *)
(* ends or gets another operation.                                         *)
PauseParks ==
    operation = "STOP_EXECUTION" /\ proc = "running" ~>
        proc # "running" \/ operation # "STOP_EXECUTION"

(* The debugger notices: it leaves RL_TRACE_EXECUTE_RUN after a pause.     *)
PauseReturns ==
    operation = "STOP_EXECUTION" /\ level = "run" ~> level # "run"

(* A debuggee that a signal stopped is not left there: the session ends.   *)
(* (In the no-trace mode the polling may take the signal, and the debuggee *)
(* stays stopped until the user kills it.)                                 *)
FaultEndsSession ==
    proc = "stopped" /\ wstat = "signal" /\ handler \notin NoTraceHandlers
        ~> pid = 0

(* A GL error that halts a no-trace run (items[1]: "if 1 stop execution on *)
(* OpenGL error", debuglib.h:147) is handled as one once it is polled.     *)
HaltIsHandled ==
    [][dpc = "poll" /\ dpc' # "poll" /\ result = "ERROR_CODE"
          => dpc' = "econt"]_vars

(* A GL error that halts a no-trace run gets the user back to the main     *)
(* loop, whichever of its stops executeContinueOnError meets.              *)
HaltReturns == dpc = "econt" ~> dpc = "idle"

(* killProgram returns to the user interface.                              *)
KillEnds == dpc = "kill" ~> dpc # "kill"

-----------------------------------------------------------------------------
(***************************************************************************)
(* The inductive invariant behind CommandMeetsLoop, CalledOnce,            *)
(* DoneProceeds and NeverDropped: where the debuggee can be for each       *)
(* control point of the debugger.  It needs that nothing but stop() stops  *)
(* the debuggee behind the debugger's back (no fork events), and that an   *)
(* application with GL errors is not halted for them in a no-trace run,    *)
(* which repeats a call (ErrorRepeats) and runs its command loop without   *)
(* G.lock (UnlockedLoop), and gets no signals, as nextStep                 *)
(* drops the answer of callDone after a GL error, the news of a signal     *)
(* with it.                                                                *)
(***************************************************************************)
Undisturbed ==
    /\ "fork" \notin Env
    /\ "glerror" \in Env =>
         "fault" \notin Env /\ (Halts \subseteq {0} \/ NoTraceModes = {})

Dead    == proc = "dead"
Moving  == proc = "running" /\ wstat = "none"
Held    == proc = "stopped" /\ wstat = "none"
Stopped == proc = "stopped" /\ wstat = "stop"
Faulted == proc = "stopped" /\ hpc = "app" /\ "fault" \in Env

(* Stopped in its command loop with everything reported, t executions of   *)
(* its call behind it.                                                     *)
HeldAt(t) == Dead \/ (Held /\ hpc = "read" /\ times = t)

(* On its way from the application to the stop of its next call.           *)
Arriving ==
    \/ Dead
    \/ Faulted /\ wstat = "signal"
    \/ Moving /\ hpc = "app"
    \/ Moving /\ hpc \in {"decide", "store"} /\ times = 0
    \/ /\ \/ Moving /\ hpc = "stop"
          \/ Stopped /\ hpc = "read"
       /\ times = 0 /\ result = "FUNCTION_CALL"

(* Serving an operation of the command loop that leads from s to t         *)
(* executions of the call.                                                 *)
Serving(s, t) ==
    \/ Dead
    \/ Moving /\ hpc = "read" /\ times = s
    \/ /\ \/ Moving /\ hpc = "stop"
          \/ Stopped /\ hpc = "read"
       /\ times = t

(* The mode is set, and an error in it is not reported.                    *)
ModeSet == item0 \in Modes /\ ("glerror" \in Env => item1 = 0)

(* Acknowledging DBG_EXECUTE, and behind the acknowledgement.              *)
Acknowledging ==
    \/ Dead
    \/ Moving /\ hpc = "read" /\ times = 0
    \/ /\ \/ Moving /\ hpc = "ack"
          \/ Stopped /\ hpc = "leave"
       /\ times = 0 /\ result = "EXECUTE_IN_PROGRESS"

Acknowledged ==
    Held /\ hpc = "leave" /\ times = 0 /\ result = "EXECUTE_IN_PROGRESS"

(* In the no-trace mode, up to the stop that ends it, whose status may     *)
(* have been taken.                                                        *)
Roaming ==
    \/ Dead /\ result \in {"EXECUTE_IN_PROGRESS", "FUNCTION_CALL"}
    \/ /\ Moving /\ hpc \in {"leave", "app", "decide", "untraced", "store"}
       /\ hpc # "app" => times = 0
       /\ result = "EXECUTE_IN_PROGRESS" /\ ModeSet
    \/ Faulted /\ wstat \in {"signal", "none"} /\ result = "EXECUTE_IN_PROGRESS"
    \/ /\ \/ Moving /\ hpc = "stop"
          \/ (Held \/ Stopped) /\ hpc = "read"
       /\ times = 0 /\ result = "FUNCTION_CALL"

Launching ==
    \/ Dead /\ wstat = "exit"
    \/ Moving /\ hpc = "boot"
    \/ proc = "stopped" /\ wstat = "trap" /\ hpc = "app"

OperationOf(c) == IF c = "start" THEN "NONE"
                  ELSE IF c = "orig" THEN "CALL_ORIG"
                  ELSE IF c = "exec" THEN "EXECUTE"
                  ELSE IF c \in Dones THEN "DONE" ELSE "AUX"

StepCmds == {"orig", "auxStep", "auxQuiet"}
Executed == IF cmd \in {"auxStep", "auxQuiet"} THEN 1 ELSE 0
Untraced == handler \in NoTraceHandlers
DoneDue  == Dead \/ handler = "skip" \/ times = 1

LockInv ==
    /\ LockedInLoop
    /\ lock = 1 => hpc \in CommandLoop \cup {"decide"}
    /\ hpc \notin {"halt", "report", "fail"}
    /\ times <= 1

CommandInv ==
    /\ dpc \in {"cont", "wait", "reply"} =>
         /\ pid # 0 /\ cmd \notin {"none", "doneError"}
         /\ cmd \in StepCmds => ~Untraced
    /\ dpc \in {"cont", "wait"} => operation = OperationOf(cmd)
    /\ cmd = "exec" => Untraced

ContInv ==
    dpc = "cont" =>
        /\ cmd = "start" => Held /\ hpc = "app"
        /\ cmd \in {"orig"} \cup AuxCmds => HeldAt(Executed)
        /\ cmd \in Dones => (HeldAt(0) \/ HeldAt(1)) /\ DoneDue
        /\ cmd = "exec" => HeldAt(0) /\ ModeSet

WaitInv ==
    dpc = "wait" =>
        /\ cmd = "start" => Arriving
        /\ cmd = "orig" => Serving(0, 1)
        /\ cmd \in AuxCmds => Serving(Executed, Executed)
        /\ cmd \in Dones => Arriving \/ (Moving /\ hpc = "read" /\ DoneDue)
        /\ cmd = "exec" => Acknowledging /\ ModeSet

ReplyInv ==
    dpc = "reply" =>
        /\ cmd = "start" => HeldAt(0) /\ ~Dead
        /\ cmd = "orig" => HeldAt(1) /\ ~Dead
        /\ cmd \in AuxCmds => HeldAt(Executed)
        /\ cmd \in AuxCmds \ {"auxIdle"} => ~Dead
        /\ cmd \in Dones => Dead \/ (HeldAt(0) /\ result = "FUNCTION_CALL")
        /\ cmd = "done" => ~Dead
        /\ cmd = "exec" => Acknowledged /\ ModeSet /\ operation = "EXECUTE"

RunInv ==
    /\ dpc = "resume" =>
         Acknowledged /\ ModeSet /\ cmd = "exec" /\ pid # 0 /\ operation = "EXECUTE"
    /\ dpc \in {"poll", "alive"} \/ (dpc = "events" /\ Untraced) =>
         Roaming /\ Untraced /\ pid # 0 /\ operation \in {"EXECUTE", "STOP_EXECUTION"}
    /\ dpc = "final" =>
         /\ pid # 0
         /\ \/ Dead
            \/ Moving /\ hpc = "stop" /\ times = 0
            \/ (Held \/ Stopped) /\ hpc = "read" /\ times = 0

RestInv ==
    /\ dpc \in {"idle", "crashed", "loop"} => HeldAt(0)
    /\ dpc = "loop" => ~Untraced
    /\ dpc = "events" /\ ~Untraced => HeldAt(0)
    /\ dpc \in {"loop", "events"} => pid # 0
    /\ dpc = "exec" => Launching /\ operation = "NONE"
    /\ dpc = "kill" => pid = 0
    /\ pid = 0 => Dead /\ shown = Null
    /\ Dead => wstat \in {"none", "exit"}
    /\ dpc = "exec" \/ cmd = "start" => shown = Null
    /\ level = "setup" => pid = 0 \/ dpc = "exec" \/ cmd = "start"
    /\ dpc \notin {"cont", "wait", "reply", "resume"} => cmd = "none"
    /\ dpc \notin {"econt", "ewait"}

(* Without GL errors no command is sent whose answer would be dropped.     *)
ErrorInv ==
    "glerror" \notin Env =>
        item0 # "GL_ERROR" /\ cmd \notin {"auxQuiet", "doneQuiet"}

IInv == /\ TypeOK /\ LockInv /\ CommandInv /\ ContInv /\ WaitInv
        /\ ReplyInv /\ RunInv /\ RestInv /\ ErrorInv
-----------------------------------------------------------------------------
(***************************************************************************)
(* The inductive invariant behind KeepsThePromise: a debuggee that is gone *)
(* is noticed before the user gets control again.  nextStep drops the      *)
(* answer of callDone after a GL error, so the application must not both   *)
(* raise GL errors and end.                                                *)
(***************************************************************************)
Noticed == ~({"exit", "glerror"} \subseteq Env)

(* Where the debuggee may be gone while the debugger thinks it has one.    *)
GoneInv ==
    Dead /\ pid # 0 =>
        \/ dpc = "exec"
        \/ dpc = "wait" /\ cmd \in {"start", "done"}
        \/ dpc \in {"poll", "alive", "events"} /\ Untraced
           /\ result = "EXECUTE_IN_PROGRESS"

PInv == IInv /\ GoneInv

(* TraceIsParked holds besides where no jump sets a run level behind the   *)
(* end of its session and none but the hook writes a name into the record. *)
NoJumps == "jump" \notin TracedHandlers /\ NoTraceModes \subseteq {"RUN"}

(* The call on display is the one in the record and that of the hook.      *)
ShownInv ==
    /\ handler \notin {"jump", "jump!"}
    /\ hpc \in {"stop", "read", "ack", "leave"} => fname = call
    /\ dpc \in {"idle", "loop"} \/ (dpc = "events" /\ ~Untraced)
          \/ cmd \in {"auxNext", "auxIdle"} => pid = 0 \/ shown = fname
    /\ dpc = "exec" \/ cmd = "start" => level = "setup"
    /\ level # "setup" /\ pid = 0 => dpc = "kill"

QInv == PInv /\ ShownInv
=============================================================================
