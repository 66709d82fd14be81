------------------------------ MODULE DbgRecord ------------------------------
(***************************************************************************)
(* What the debugger process and the debuggee process share: the DbgRec of *)
(* the debuggee in the shared memory segment (DebugLib/debuglib.h) and the *)
(* kernel's view of the traced process, which the debugger reaches through *)
(* ptrace and waitpid (progControl.cpp) and the debuggee through           *)
(* raise(SIGSTOP) (stop() in libglsldebug.c).                              *)
(*                                                                         *)
(* The two processes run concurrently.  The components are                 *)
(*   FunctionHook    the generated GL hooks inside the debuggee            *)
(*   ProgramControl  the debugger: ProgramControl and the run-level        *)
(*                   handlers of MainWindow that drive it                  *)
(* and DebugSession puts them together.                                    *)
(***************************************************************************)
EXTENDS Naturals

CONSTANTS
    Calls,          \* names of hooked GL functions
    ValueCalls,     \* the ones that return a value
    DrawCalls,      \* isDebuggableDrawCall in the glFunctions table
    ShaderSwitches, \* isShaderSwitch in the glFunctions table
    NoCall,         \* the empty fname of a cleared record
    Null,           \* a NULL m_pCurrentCall
    Env             \* what the debuggee may meet, a subset of EnvEvents

EnvEvents == {"exit", "fault", "fork", "glerror"}

ASSUME CallsAssumption ==
    /\ ValueCalls \subseteq Calls
    /\ DrawCalls \subseteq Calls
    /\ ShaderSwitches \subseteq Calls
    /\ NoCall \notin Calls
    /\ Null \notin Calls \cup {NoCall}
    /\ Env \subseteq EnvEvents

VARIABLES
    operation,  \* rec->operation, written by the debugger
    result,     \* rec->result, written by the debuggee
    item0,      \* rec->items[0]: execution mode, error code or argument
    item1,      \* rec->items[1] # 0: halt on error, or an argument's type
    fname,      \* rec->fname
    proc,       \* the debuggee for the kernel
    wstat,      \* the state change waitpid has not reported yet
    hpc,        \* control point of the debuggee
    call,       \* the GL function the debuggee has entered last
    times,      \* how often its original was executed since it was entered
    lock,       \* 1: the debuggee holds G.lock
    dpc,        \* control point of the debugger
    level,      \* currentRunLevel
    handler,    \* the MainWindow handler that is running
    goal,       \* calls a traced jump looks for
    cmd,        \* the command that is in flight
    pid,        \* _debuggeePID; 0: none, 1: the debuggee of the session
    shown       \* name of m_pCurrentCall

rec  == <<operation, result, item0, item1, fname>>
os   == <<proc, wstat>>
hook == <<hpc, call, times, lock>>
gui  == <<dpc, level, handler, goal, cmd, pid, shown>>
vars == <<operation, result, item0, item1, fname, proc, wstat, hpc, call,
          times, lock, dpc, level, handler, goal, cmd, pid, shown>>

-----------------------------------------------------------------------------
(* The values of the record.  AUX stands for every operation that          *)
(* executeDefaultDbgOperation serves: read-backs, memory, shaders, queries.*)

Operations == {"NONE", "EXECUTE", "STOP_EXECUTION", "AUX", "CALL_ORIG", "DONE"}
Results    == {"FUNCTION_CALL", "ERROR_CODE", "RETURN_VALUE", "DATA",
               "EXECUTE_IN_PROGRESS"}
Modes      == {"RUN", "JUMP_TO_DRAW_CALL", "JUMP_TO_SHADER_SWITCH",
               "JUMP_TO_USER_DEFINED"}
Errors     == {"NO_ERROR", "GL_ERROR", "DBG_ERROR"}
Items      == Modes \cup Errors \cup {"ARG"}

(* A wait status: stopped by SIGSTOP, by the SIGTRAP of an exec or fork    *)
(* event, by another signal, or gone.                                      *)
WaitStatus == {"none", "stop", "trap", "signal", "exit"}

MaxTimes == 2                          \* the execution counter saturates
Bump(n)  == IF n < MaxTimes THEN n + 1 ELSE n

-----------------------------------------------------------------------------
(* PTRACE_CONT: fails with ESRCH, which nobody checks, unless the debuggee *)
(* is stopped; a status that was not waited for is dropped with the stop.  *)
PtraceCont ==
    IF proc = "stopped"
    THEN proc' = "running" /\ wstat' = "none"
    ELSE UNCHANGED os

(* A blocking waitpid returns when there is a status to report, or with    *)
(* ECHILD when the debuggee was already reaped.                            *)
WaitpidReturns == wstat # "none" \/ proc = "dead"

Mut_StatusIsNone == wstat \in {"stop", "trap", "signal"}    \* a faulty variant

(* What checkChildStatus makes of the status: PCE_NONE for SIGSTOP and     *)
(* SIGTRAP, PCE_EXIT for everything else.                                  *)
StatusIsNone == wstat \in {"stop", "trap"}

Waitpid == wstat' = "none" /\ UNCHANGED proc

(* A traced process that gets a signal stops and has that to report.       *)
StopWith(status) == proc' = "stopped" /\ wstat' = status

(* The result of checkError: the code of an error record, no error else.   *)
(* As a code, DBG_EXECUTE_RUN is DBG_NO_ERROR (both are 0) and a jump the  *)
(* code of a critical error of the library (1 to 3).                       *)
CheckError == IF result # "ERROR_CODE" \/ item0 = "RUN" THEN "NO_ERROR"
              ELSE IF item0 \in Modes THEN "DBG_ERROR"
              ELSE IF item0 \in Errors THEN item0 ELSE "UNKNOWN_ERROR"
IsErrorCritical(e) == e \notin {"NO_ERROR", "GL_ERROR"}
=============================================================================
