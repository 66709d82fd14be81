----------------------------- MODULE FunctionHook -----------------------------
(***************************************************************************)
(* The debuggee: an application whose GL calls go through the hooks that   *)
(* DebugLib/generator/FunctionHooks.pl generates (createBody), with the    *)
(* helpers of DebugLib/libglsldebug.c they call.  A GL function is an      *)
(* original call whose error state is chosen here.                         *)
(*                                                                         *)
(* hpc: "boot" between vfork and execv, "app" in the application, "decide" *)
(* in keepExecuting, "untraced" at the original call of the no-trace mode, *)
(* "halt" and "report" in setErrorCode and at the stop() after an error     *)
(* there, "store" before storeFunctionCall, "stop" at a stop() of the      *)
(* command loop, "read" behind it, "ack" and "leave" at and behind the     *)
(* stop() of DBG_EXECUTE, "fail" in setErrorCode after an error there.     *)
(***************************************************************************)
EXTENDS DbgRecord

HookPoints == {"boot", "app", "decide", "untraced", "halt", "report", "store",
               "stop", "read", "ack", "leave", "fail"}
CommandLoop == {"store", "stop", "read", "ack", "leave", "fail"}

Running == proc = "running"

(* GL errors an original call may raise.                                   *)
GlOutcomes == {"NO_ERROR"} \cup (IF "glerror" \in Env THEN {"GL_ERROR"} ELSE {})

(* setErrorCode while the debugger waits for the stop behind it.  While it *)
(* polls, its two stores are steps: CallUnlocked and StoreErrorItem.       *)
SetErrorCode(e) == result' = "ERROR_CODE" /\ item0' = e

Exec ==
    /\ hpc = "boot" /\ Running
    /\ hpc' = "app"
    /\ StopWith("trap")
    /\ UNCHANGED <<rec, gui, call, times, lock>>

(* execv failed: _exit(73).                                                *)
ExecFails ==
    /\ hpc = "boot" /\ Running
    /\ proc' = "dead" /\ wstat' = "exit"
    /\ UNCHANGED <<rec, gui, hook>>

(* What the application may do between two GL calls.                       *)
AppExit ==
    /\ "exit" \in Env /\ hpc = "app" /\ Running
    /\ proc' = "dead" /\ wstat' = "exit"
    /\ UNCHANGED <<rec, gui, hook>>

AppFault ==
    /\ "fault" \in Env /\ hpc = "app" /\ Running
    /\ StopWith("signal")
    /\ UNCHANGED <<rec, gui, hook>>

AppFork ==
    /\ "fork" \in Env /\ hpc = "app" /\ Running
    /\ StopWith("trap")
    /\ UNCHANGED <<rec, gui, hook>>

EnterHook(f) ==
    /\ hpc = "app" /\ Running
    /\ call' = f /\ times' = 0
    /\ lock = 0 /\ lock' = 1                     \* ENTER_CS(&G.lock)
    /\ hpc' = "decide"
    /\ UNCHANGED <<rec, gui, os>>

-----------------------------------------------------------------------------
(* Whether the execution mode in items[0] runs over the call.              *)
RunsOver(mode) ==
    \/ mode = "RUN"
    \/ mode = "JUMP_TO_SHADER_SWITCH" /\ call \notin ShaderSwitches
    \/ mode = "JUMP_TO_DRAW_CALL"     /\ call \notin DrawCalls
    \/ mode = "JUMP_TO_USER_DEFINED"  /\ call # fname

(* Definitions named Mut_* are faulty variants of the ones they precede,   *)
(* which the properties must be able to tell from the code.                *)
Mut_KeepExecuting == operation \in {"EXECUTE", "STOP_EXECUTION"} /\ RunsOver(item0)

KeepExecuting == operation = "EXECUTE" /\ RunsOver(item0)

Mut_NoUnlock ==
    /\ hpc = "decide" /\ Running /\ KeepExecuting
    /\ hpc' = "untraced"
    /\ UNCHANGED <<rec, gui, os, call, times, lock>>

Mut_NoOriginal ==
    /\ hpc = "decide" /\ Running /\ KeepExecuting
    /\ lock' = 0
    /\ hpc' = "app"
    /\ UNCHANGED <<rec, gui, os, call, times>>

(* keepExecuting returned nonzero: EXIT_CS before the original call.       *)
SkipCommandLoop ==
    /\ hpc = "decide" /\ Running /\ KeepExecuting
    /\ lock' = 0
    /\ hpc' = "untraced"
    /\ UNCHANGED <<rec, gui, os, call, times>>

EnterCommandLoop ==
    /\ hpc = "decide" /\ Running /\ ~KeepExecuting
    /\ IF operation = "EXECUTE" /\ item0 \notin Modes
       THEN SetErrorCode("DBG_ERROR")           \* DBG_ERROR_INVALID_OPERATION
       ELSE UNCHANGED <<result, item0>>
    /\ hpc' = "store"
    /\ UNCHANGED <<operation, item1, fname, gui, os, call, times, lock>>

(* An original call with G.lock released.  check_error_code leaves the     *)
(* hook unless there is an error to store, of which the result comes first.*)
CallUnlocked(at) ==
    /\ times' = Bump(times)
    /\ \E e \in GlOutcomes :
         IF item1 # 0 /\ e # "NO_ERROR"
         THEN hpc' = at /\ result' = "ERROR_CODE"
         ELSE hpc' = "app" /\ UNCHANGED result
    /\ UNCHANGED <<operation, item0, item1, fname, gui, os, call>>

CallUntraced ==
    /\ hpc = "untraced" /\ Running
    /\ CallUnlocked("halt")
    /\ UNCHANGED lock

(* The second store of setErrorCode, up to which the debugger may read the *)
(* execution mode as the code of the error.                                *)
Erring == [halt |-> "report", fail |-> "stop"]

StoreErrorItem ==
    /\ hpc \in DOMAIN Erring /\ Running
    /\ item0' = "GL_ERROR"
    /\ hpc' = Erring[hpc]
    /\ UNCHANGED <<operation, result, item1, fname, gui, os, call, times, lock>>

(* Every call of stop(): the position behind it is where PTRACE_CONT lets  *)
(* the debuggee go on.  After an error report the hook runs on into the    *)
(* command loop.                                                           *)
Behind == [report |-> "store", stop |-> "read", ack |-> "leave"]

Stop ==
    /\ hpc \in DOMAIN Behind /\ Running
    /\ hpc' = Behind[hpc]
    /\ StopWith("stop")
    /\ UNCHANGED <<rec, gui, call, times, lock>>

Mut_StoreNoName ==
    /\ hpc = "store" /\ Running
    /\ result' = "FUNCTION_CALL"
    /\ item0' = "ARG" /\ item1' = 1
    /\ hpc' = "stop"
    /\ UNCHANGED <<operation, fname, gui, os, call, times, lock>>

(* The types of the modelled arguments are other than DBG_TYPE_CHAR = 0.   *)
StoreFunctionCall ==
    /\ hpc = "store" /\ Running
    /\ result' = "FUNCTION_CALL" /\ fname' = call
    /\ item0' = "ARG" /\ item1' = 1
    /\ hpc' = "stop"
    /\ UNCHANGED <<operation, gui, os, call, times, lock>>

-----------------------------------------------------------------------------
(* The command loop: one turn for each operation getDbgOperation returns.  *)
Turn(op) == hpc = "read" /\ Running /\ operation = op

Mut_DoneCallsOrig ==
    /\ Turn("DONE")
    /\ SetErrorCode("NO_ERROR")
    /\ times' = Bump(times)
    /\ lock' = 0
    /\ hpc' = "app"
    /\ UNCHANGED <<operation, item1, fname, gui, os, call>>

Mut_DoneStays ==
    /\ Turn("DONE")
    /\ SetErrorCode("NO_ERROR")
    /\ hpc' = "stop"
    /\ UNCHANGED <<operation, item1, fname, gui, os, call, times, lock>>

ServeDone ==
    /\ Turn("DONE")
    /\ SetErrorCode("NO_ERROR")
    /\ lock' = 0
    /\ hpc' = "app"
    /\ UNCHANGED <<operation, item1, fname, gui, os, call, times>>

Mut_CallOrigNoStop ==
    /\ Turn("CALL_ORIG")
    /\ times' = Bump(times)
    /\ SetErrorCode("NO_ERROR")
    /\ UNCHANGED <<operation, item1, fname, gui, os, call, lock, hpc>>

(* check_error_store: the error code of a void function; for the others    *)
(* both strings it would store a result with are empty, since the "my" in  *)
(* the inner block declares new variables.                                 *)
ServeCallOrig ==
    /\ Turn("CALL_ORIG")
    /\ times' = Bump(times)
    /\ IF call \in ValueCalls
       THEN UNCHANGED <<result, item0>>
       ELSE \E e \in GlOutcomes : SetErrorCode(e)
    /\ hpc' = "stop"
    /\ UNCHANGED <<operation, item1, fname, gui, os, call, lock>>

(* DBG_EXECUTE is acknowledged by a stop before the original is called.    *)
ServeExecute ==
    /\ Turn("EXECUTE")
    /\ result' = "EXECUTE_IN_PROGRESS"
    /\ hpc' = "ack"
    /\ UNCHANGED <<operation, item0, item1, fname, gui, os, call, times, lock>>

(* check_error_code(error, 0): an error keeps the hook in its loop, by     *)
(* falling through to executeDefaultDbgOperation, which ignores EXECUTE.   *)
LeaveByExecute ==
    /\ hpc = "leave" /\ Running
    /\ lock' = 0
    /\ CallUnlocked("fail")

Mut_AuxNoStop ==
    /\ Turn("AUX")
    /\ result' = "DATA" /\ item0' = "ARG"
    /\ UNCHANGED <<operation, item1, fname, gui, os, hook>>

(* A debug operation ends with data, without an error, or with one.        *)
ServeAux ==
    /\ Turn("AUX")
    /\ \/ result' = "DATA" /\ item0' = "ARG"
       \/ \E e \in GlOutcomes \cup {"DBG_ERROR"} : SetErrorCode(e)
    /\ hpc' = "stop"
    /\ UNCHANGED <<operation, item1, fname, gui, os, call, times, lock>>

(* executeDefaultDbgOperation on an operation it does not know.            *)
ServeUnknown ==
    /\ hpc = "read" /\ Running /\ operation \in {"NONE", "STOP_EXECUTION"}
    /\ hpc' = "stop"
    /\ UNCHANGED <<rec, gui, os, call, times, lock>>

-----------------------------------------------------------------------------
InHook ==
    \/ SkipCommandLoop \/ EnterCommandLoop \/ CallUntraced \/ StoreErrorItem
    \/ Stop \/ StoreFunctionCall \/ ServeDone \/ ServeCallOrig \/ ServeExecute
    \/ LeaveByExecute \/ ServeAux \/ ServeUnknown

(* The application goes on to its next GL call or ends.                    *)
AppContinues == Exec \/ AppExit \/ \E f \in Calls : EnterHook(f)

HookNext == InHook \/ AppContinues \/ ExecFails \/ AppFault \/ AppFork
=============================================================================
