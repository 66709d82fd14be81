---------------------------- MODULE ProgramControl ----------------------------
(***************************************************************************)
(* The debugger: the commands of ProgramControl (progControl.cpp) in the   *)
(* order in which the run-level handlers of MainWindow (mainWindow.cpp)    *)
(* issue them.  It is one thread; Qt delivers the user's clicks only in    *)
(* the main loop (dpc = "idle") and where a handler calls processEvents    *)
(* (dpc = "events").                                                       *)
(*                                                                         *)
(* A command is: write the record, PTRACE_CONT ("cont"), blocking waitpid  *)
(* ("wait"), look at the answer ("reply").  The other control points:      *)
(* "exec" the first waitpid of runProgram, "loop" the condition of a       *)
(* traced loop, "resume" the second PTRACE_CONT of dbgCommandExecute*,     *)
(* "poll" checkExecuteState, "alive" childAlive, "final" the waitpid       *)
(* behind the polling loop, "econt" and "ewait" executeContinueOnError and *)
(* the waitpid behind it, "kill" the waitpid of killProgram, "crashed" a   *)
(* NULL m_pCurrentCall was used.                                           *)
(***************************************************************************)
EXTENDS DbgRecord

CONSTANTS
    NoTraceModes,   \* modes the user may run in with "no trace" checked
    TracedHandlers, \* buttons the user may press with "no trace" unchecked
    Halts,          \* settings of tbToggleHaltOnError, a subset of {0, 1}
    PsLoop          \* a GLSLDB_OSX build, whose checkChildStatus runs ps

ASSUME ControlAssumption ==
    /\ NoTraceModes \subseteq Modes
    /\ TracedHandlers \subseteq {"step", "skip", "run", "jump", "capture"}
    /\ Halts \subseteq {0, 1}
    /\ PsLoop \in BOOLEAN

ControlPoints == {"idle", "exec", "cont", "wait", "reply", "resume", "events",
                  "loop", "poll", "alive", "final", "econt", "ewait", "kill",
                  "crashed"}

(* doneQuiet, doneError: DBG_DONE whose answer nextStep and                *)
(* waitForEndOfExecution drop.  A read-back command stands for the one or  *)
(* more of a getShaderCode or a capture, and is named for what follows it: *)
(* the done of the same step, the end of getNextCall, the main loop.       *)
Dones    == {"done", "doneQuiet", "doneError"}
AuxCmds  == {"auxStep", "auxQuiet", "auxNext", "auxIdle"}
Commands == {"none", "start", "orig", "exec"} \cup Dones \cup AuxCmds

(* The handlers that run at RL_TRACE_EXECUTE_RUN.                          *)
NoTraceHandlers == {"run!", "jump!"}
Handlers == {"none", "start", "step", "stepping", "skip", "run", "jump",
             "capture"} \cup NoTraceHandlers

-----------------------------------------------------------------------------
(* Write an operation and start the command protocol.                      *)
Send(op, c) ==
    /\ operation' = op /\ cmd' = c /\ dpc' = "cont"

Idle == dpc' = "idle" /\ handler' = "none" /\ cmd' = "none" /\ goal' = {}

(* killProgram: SIGKILL, forget the pid, then wait for "pid 0" ("kill").  *)
KillProgram ==
    /\ IF proc = "dead" THEN UNCHANGED os ELSE proc' = "dead" /\ wstat' = "exit"
    /\ pid' = 0
    /\ shown' = Null
    /\ dpc' = "kill"

(* A critical error: kill, RL_SETUP, return from the handler, which for    *)
(* waitForEndOfExecution means back to the jump that called it.            *)
Abort ==
    /\ KillProgram
    /\ handler' = IF handler = "jump!" /\ cmd # "exec" THEN handler ELSE "none"
    /\ cmd' = "none" /\ goal' = {}
    /\ UNCHANGED <<rec, hook, level>>

(* runProgram up to its first wait.                                        *)
Launch ==
    /\ dpc = "idle" /\ level = "setup"
    /\ operation' = "NONE" /\ result' = "FUNCTION_CALL"       \* clearShmem
    /\ item0' = "NO_ERROR" /\ item1' = 0 /\ fname' = NoCall
    /\ proc' = "running" /\ wstat' = "none" /\ hpc' = "boot"
    /\ times' = 0 /\ lock' = 0 /\ call' = NoCall
    /\ pid' = 1 /\ dpc' = "exec" /\ handler' = "start"
    /\ UNCHANGED <<level, goal, cmd, shown>>

(* runProgram gives up: SIGKILL without a wait.                            *)
LaunchFailed ==
    /\ Idle
    /\ proc' = "dead" /\ wstat' = "exit"
    /\ pid' = 0
    /\ UNCHANGED <<rec, hook, level, shown>>

ExecWait ==
    /\ dpc = "exec" /\ WaitpidReturns
    /\ IF StatusIsNone
       THEN /\ dpc' = "cont" /\ cmd' = "start"
            /\ Waitpid
            /\ UNCHANGED <<rec, hook, level, handler, goal, pid, shown>>
       ELSE LaunchFailed

-----------------------------------------------------------------------------
(* The buttons at RL_TRACE_EXECUTE.                                        *)
AtTrace == dpc = "idle" /\ level = "trace"

(* singleStep starts with callOrigFunc, which uses m_pCurrentCall.         *)
SingleStep(h, targets) ==
    /\ level' = "run" /\ handler' = h /\ goal' = targets
    /\ IF shown = Null
       THEN dpc' = "crashed" /\ UNCHANGED <<operation, cmd>>
       ELSE Send("CALL_ORIG", "orig")
    /\ UNCHANGED <<result, item0, item1, fname, os, hook, pid, shown>>

Targets == {DrawCalls, ShaderSwitches} \cup {{f} : f \in Calls}

StepClicked == AtTrace /\ "step" \in TracedHandlers /\ SingleStep("step", {})
RunClicked  == AtTrace /\ "run" \in TracedHandlers /\ SingleStep("run", {})
JumpClicked == AtTrace /\ "jump" \in TracedHandlers
               /\ \E targets \in Targets : SingleStep("jump", targets)

(* Commands to "pid 0" fail in their wait, as killProgram's own does.      *)
SkipClicked ==
    /\ AtTrace /\ "skip" \in TracedHandlers
    /\ IF pid # 0
       THEN /\ Send("DONE", "done")
            /\ handler' = "skip"
            /\ UNCHANGED <<result, item0, item1, fname, os, hook, level, goal,
                           pid, shown>>
       ELSE Abort

(* A read-back for a window the user opens.                                *)
CaptureClicked ==
    /\ AtTrace /\ "capture" \in TracedHandlers /\ pid # 0
    /\ handler' = "capture"
    /\ Send("AUX", "auxIdle")
    /\ UNCHANGED <<result, item0, item1, fname, os, hook, level, goal, pid,
                   shown>>

(* Run and the jumps in no-trace mode: dbgCommandExecute*.                 *)
NoTraceClicked(mode, halt, target) ==
    /\ AtTrace
    /\ IF pid # 0
       THEN /\ Send("EXECUTE", "exec")
            /\ level' = "run"
            /\ handler' = IF mode = "RUN" THEN "run!" ELSE "jump!"
            /\ item0' = mode /\ item1' = halt
            /\ fname' = IF mode = "JUMP_TO_USER_DEFINED" THEN target ELSE fname
            /\ shown' = Null
            /\ UNCHANGED <<result, os, hook, goal, pid>>
       ELSE Abort

(* tbExecute at any level but RL_SETUP.  The handler whose processEvents   *)
(* delivered the click goes on behind it: see KillReturns.                 *)
ExecuteClicked ==
    /\ level # "setup" /\ dpc \in {"idle", "events"}
    /\ IF pid # 0
       THEN KillProgram /\ UNCHANGED <<rec, hook, level, handler, goal, cmd>>
       ELSE /\ level' = "setup" /\ shown' = Null
            /\ UNCHANGED <<rec, os, hook, dpc, handler, goal, cmd, pid>>

(* The waitpid of killProgram is for pid 0 and finds no child, as the      *)
(* debuggee is in a process group of its own: PCE_EXIT, which nobody looks *)
(* at.  The OSX build goes on with a loop that ends when ps prints no line *)
(* with a 0 in it, and its header and times do.                            *)
(* The jumps end with setRunLevel(RL_TRACE_EXECUTE) unless singleStep or   *)
(* the command failed (Abort).                                             *)
KillReturns ==
    /\ dpc = "kill" /\ ~PsLoop
    /\ level' = IF handler \in {"jump", "jump!"} THEN "trace" ELSE "setup"
    /\ Idle
    /\ UNCHANGED <<rec, os, hook, pid, shown>>

(* tbPause, enabled at RL_TRACE_EXECUTE_RUN.                               *)
PauseClicked ==
    /\ dpc = "events" /\ level = "run"
    /\ IF handler \in NoTraceHandlers
       THEN operation' = "STOP_EXECUTION" /\ UNCHANGED level
       ELSE level' = "trace" /\ UNCHANGED operation
    /\ UNCHANGED <<result, item0, item1, fname, os, hook, dpc, handler, goal, cmd,
                   pid, shown>>

-----------------------------------------------------------------------------
(* The command protocol.                                                   *)
Cont ==
    /\ dpc = "cont"
    /\ PtraceCont
    /\ dpc' = "wait"
    /\ UNCHANGED <<rec, hook, level, handler, goal, cmd, pid, shown>>

(* PCE_EXIT ends the handler, except where its result is dropped.  The     *)
(* capture of a read-back only displays it.                                *)
Wait ==
    /\ dpc = "wait" /\ WaitpidReturns
    /\ IF StatusIsNone \/ cmd \in {"doneQuiet", "doneError", "auxIdle"}
       THEN /\ Waitpid /\ dpc' = "reply"
            /\ UNCHANGED <<rec, hook, level, handler, goal, cmd, pid, shown>>
       ELSE IF cmd = "start" THEN LaunchFailed ELSE Abort

Reply(c) == dpc = "reply" /\ cmd = c

(* A handler has the next call and the run level lv.                       *)
NextCallShown(lv) ==
    IF handler \in {"skip"} \cup NoTraceHandlers
    THEN level' = "trace" /\ Idle
    ELSE /\ level' = lv
         /\ dpc' = IF handler = "step" THEN "loop" ELSE "events"
         /\ cmd' = "none"
         /\ UNCHANGED <<handler, goal>>

(* getNextCall reads the shader code back, by another command, at a draw   *)
(* call for which it has no valid one.                                     *)
GetNextCall(lv) ==
    /\ shown' = fname
    /\ \/ fname \in DrawCalls /\ Send("AUX", "auxNext")
          /\ level' = lv /\ UNCHANGED <<handler, goal>>
       \/ NextCallShown(lv) /\ UNCHANGED operation
    /\ UNCHANGED <<result, item0, item1, fname, hook, pid>>

ReplyStart ==
    /\ Reply("start")
    /\ shown' = fname /\ level' = "trace"
    /\ Idle
    /\ UNCHANGED <<rec, os, hook, pid>>

(* nextStep behind callOrigFunc: getShaderCode after a shader switch that  *)
(* succeeded, a capture if the user wants one, and then DBG_DONE, whose    *)
(* result is dropped after a GL error.                                     *)
SendInStep(op, c) ==
    /\ Send(op, c)
    /\ UNCHANGED <<result, item0, item1, fname, os, hook, level, handler, goal,
                   pid, shown>>

Mut_NoCallDone ==
    /\ Reply("orig")
    /\ ~IsErrorCritical(CheckError)
    /\ GetNextCall(level)
    /\ UNCHANGED os

ReplyOrig ==
    /\ Reply("orig")
    /\ IF IsErrorCritical(CheckError)
       THEN Abort
       ELSE IF CheckError = "NO_ERROR"
       THEN \/ SendInStep("AUX", "auxStep")
            \/ shown \notin ShaderSwitches /\ SendInStep("DONE", "done")
       ELSE SendInStep("AUX", "auxQuiet") \/ SendInStep("DONE", "doneQuiet")

(* An error of getShaderCode counts as the error of the step, one of a     *)
(* capture does not.                                                       *)
ReplyAuxStep ==
    /\ dpc = "reply" /\ cmd \in {"auxStep", "auxQuiet"}
    /\ LET shaderRead == cmd = "auxStep" /\ shown \in ShaderSwitches
       IN  \/ shaderRead /\ IsErrorCritical(CheckError) /\ Abort
           \/ cmd = "auxStep" /\ SendInStep("DONE", "done")
           \/ (cmd = "auxQuiet" \/ (shaderRead /\ CheckError = "GL_ERROR"))
              /\ SendInStep("DONE", "doneQuiet")

(* singleStep, on_tbSkip and the error branch of waitForEndOfExecution     *)
(* behind callDone.  A GL error stops a traced run that halts on errors.   *)
DoneError == IF cmd = "doneQuiet" THEN "GL_ERROR"
             ELSE IF cmd = "doneError" THEN "NO_ERROR" ELSE CheckError

ReplyDone ==
    /\ dpc = "reply" /\ cmd \in Dones
    /\ IF IsErrorCritical(DoneError)
       THEN Abort
       ELSE /\ \/ GetNextCall(level)
               \/ DoneError = "GL_ERROR" /\ 1 \in Halts /\ GetNextCall("trace")
            /\ UNCHANGED os

ReplyAuxNext ==
    /\ Reply("auxNext")
    /\ IF IsErrorCritical(CheckError)
       THEN Abort
       ELSE NextCallShown(level) /\ UNCHANGED <<rec, os, hook, pid, shown>>

ReplyAuxIdle ==
    /\ Reply("auxIdle")
    /\ Idle
    /\ UNCHANGED <<rec, os, hook, level, pid, shown>>

(* The loop of a traced run or jump, and of a step over hidden calls,      *)
(* which the filter of the trace list decides.                             *)
Reached == handler = "jump" /\ shown \in goal

LoopEnds ==
    /\ dpc = "loop"
    /\ level = "trace" \/ handler \in {"step", "stepping"} \/ Reached
    /\ level' = "trace" /\ Idle
    /\ UNCHANGED <<rec, os, hook, pid, shown>>

LoopGoesOn ==
    /\ dpc = "loop" /\ level = "run" /\ ~Reached
    /\ SingleStep(IF handler = "step" THEN "stepping" ELSE handler, goal)

ProcessEventsReturns ==
    /\ dpc = "events"
    /\ dpc' = IF handler \in NoTraceHandlers THEN "poll" ELSE "loop"
    /\ UNCHANGED <<rec, os, hook, level, handler, goal, cmd, pid, shown>>

-----------------------------------------------------------------------------
(* The no-trace mode: dbgCommandExecute* behind its first wait, then       *)
(* waitForEndOfExecution.                                                  *)
ReplyExec ==
    /\ Reply("exec")
    /\ dpc' = "resume"
    /\ UNCHANGED <<rec, os, hook, level, handler, goal, cmd, pid, shown>>

Mut_NoSecondCont ==
    /\ dpc = "resume"
    /\ dpc' = "events" /\ cmd' = "none"
    /\ UNCHANGED <<rec, os, hook, level, handler, goal, pid, shown>>

Resume ==
    /\ dpc = "resume"
    /\ PtraceCont
    /\ dpc' = "events" /\ cmd' = "none"
    /\ UNCHANGED <<rec, hook, level, handler, goal, pid, shown>>

CheckExecuteState ==
    /\ dpc = "poll"
    /\ IF result \notin {"EXECUTE_IN_PROGRESS", "FUNCTION_CALL", "ERROR_CODE"}
          \/ IsErrorCritical(CheckError)
       THEN Abort
       ELSE /\ dpc' = IF result = "EXECUTE_IN_PROGRESS" THEN "alive"
                      ELSE IF CheckError = "GL_ERROR" THEN "econt" ELSE "final"
            /\ UNCHANGED <<rec, os, hook, level, handler, goal, cmd, pid,
                           shown>>

(* childAlive reports, and takes, whatever status there is.                *)
ChildAlive ==
    /\ dpc = "alive"
    /\ IF proc = "dead" /\ wstat = "none"
       THEN Abort
       ELSE /\ Waitpid /\ dpc' = "events"
            /\ UNCHANGED <<rec, hook, level, handler, goal, cmd, pid, shown>>

Mut_NoFinalWait ==
    /\ dpc = "final"
    /\ GetNextCall("trace")
    /\ UNCHANGED os

FinalWait ==
    /\ dpc = "final" /\ WaitpidReturns
    /\ Waitpid
    /\ GetNextCall("trace")

Mut_NoContinue ==
    /\ dpc = "econt"
    /\ dpc' = "ewait"
    /\ UNCHANGED <<rec, os, hook, level, handler, goal, cmd, pid, shown>>

ExecuteContinueOnError ==
    /\ dpc = "econt"
    /\ PtraceCont
    /\ dpc' = "ewait"
    /\ UNCHANGED <<rec, hook, level, handler, goal, cmd, pid, shown>>

ErrorWait ==
    /\ dpc = "ewait" /\ WaitpidReturns
    /\ Waitpid
    /\ shown' = fname
    /\ Send("DONE", "doneError")
    /\ UNCHANGED <<result, item0, item1, fname, hook, level, handler, goal, pid>>

-----------------------------------------------------------------------------
(* What the debugger does by itself, and what the user does.               *)
ControlStep ==
    \/ ExecWait \/ Cont \/ Wait \/ ReplyStart \/ ReplyOrig \/ ReplyAuxStep
    \/ ReplyDone \/ ReplyAuxNext \/ ReplyAuxIdle \/ LoopEnds \/ LoopGoesOn
    \/ ProcessEventsReturns \/ ReplyExec \/ Resume \/ CheckExecuteState
    \/ ChildAlive \/ FinalWait \/ ExecuteContinueOnError \/ ErrorWait
    \/ KillReturns

Clicks ==
    \/ Launch \/ StepClicked \/ RunClicked \/ JumpClicked \/ SkipClicked
    \/ CaptureClicked \/ ExecuteClicked \/ PauseClicked
    \/ \E mode \in NoTraceModes, halt \in Halts, f \in Calls :
         NoTraceClicked(mode, halt, f)

ControlNext == ControlStep \/ Clicks
=============================================================================
