-------------------------- MODULE DebugSession_proofs --------------------------
(***************************************************************************)
(* Theorems about DebugSession, for every value of its constants.          *)
(***************************************************************************)
EXTENDS DebugSession, TLAPS

(* The initial state is well typed.                                        *)
LEMMA InitTyped == Init => TypeOK
BY DEF Init, TypeOK, Operations, Results, Items, Modes, Errors, WaitStatus,
       HookPoints, MaxTimes, ControlPoints, Handlers, NoTraceHandlers, Commands,
       Dones, AuxCmds

(* Every step of the debuggee preserves the types.                         *)
LEMMA HookTyped == TypeOK /\ HookNext => TypeOK'
<1> SUFFICES ASSUME TypeOK, HookNext PROVE TypeOK'
  OBVIOUS
<1> USE CallsAssumption DEF TypeOK, rec, os, gui, hook, Running, Bump, Operations, Results, Items, Modes, Errors, WaitStatus, HookPoints, MaxTimes, ControlPoints, Handlers, NoTraceHandlers, Commands, Dones, AuxCmds
<1>1. CASE SkipCommandLoop
  BY <1>1 DEF SkipCommandLoop, KeepExecuting, RunsOver
<1>2. CASE EnterCommandLoop
  BY <1>2 DEF EnterCommandLoop, SetErrorCode, KeepExecuting, RunsOver
<1>3. CASE CallUntraced
  BY <1>3 DEF CallUntraced, CallUnlocked, GlOutcomes
<1>4. CASE Stop
  BY <1>4 DEF Stop, Behind, StopWith
<1>5. CASE StoreFunctionCall
  BY <1>5 DEF StoreFunctionCall
<1>6. CASE ServeDone
  BY <1>6 DEF ServeDone, Turn, SetErrorCode
<1>7. CASE ServeCallOrig
  BY <1>7 DEF ServeCallOrig, Turn, GlOutcomes, SetErrorCode
<1>8. CASE ServeExecute
  BY <1>8 DEF ServeExecute, Turn
<1>9. CASE LeaveByExecute
  BY <1>9 DEF LeaveByExecute, CallUnlocked, GlOutcomes
<1>10. CASE ServeAux
  BY <1>10 DEF ServeAux, Turn, GlOutcomes, SetErrorCode
<1>11. CASE ServeUnknown
  BY <1>11 DEF ServeUnknown
<1>12. CASE Exec
  BY <1>12 DEF Exec, StopWith
<1>13. CASE AppExit
  BY <1>13 DEF AppExit
<1>14. CASE ExecFails
  BY <1>14 DEF ExecFails
<1>15. CASE AppFault
  BY <1>15 DEF AppFault, StopWith
<1>16. CASE AppFork
  BY <1>16 DEF AppFork, StopWith
<1>17. ASSUME NEW f \in Calls, EnterHook(f) PROVE TypeOK'
  BY <1>17 DEF EnterHook
<1>18. CASE StoreErrorItem
  BY <1>18 DEF StoreErrorItem, Erring
<1> QED
  BY <1>1, <1>2, <1>3, <1>4, <1>5, <1>6, <1>7, <1>8, <1>9, <1>10, <1>11, <1>12, <1>13, <1>14, <1>15, <1>16, <1>17, <1>18 DEF HookNext, InHook, AppContinues

(* Every step the debugger takes by itself preserves the types.            *)
LEMMA ControlTyped == TypeOK /\ ControlStep => TypeOK'
<1> SUFFICES ASSUME TypeOK, ControlStep PROVE TypeOK'
  OBVIOUS
<1> USE CallsAssumption DEF TypeOK, rec, os, gui, hook, Running, Bump, Operations, Results, Items, Modes, Errors, WaitStatus, HookPoints, MaxTimes, ControlPoints, Handlers, NoTraceHandlers, Commands, Dones, AuxCmds
<1>1. CASE ExecWait
  BY <1>1 DEF ExecWait, LaunchFailed, Idle, StatusIsNone, Waitpid
<1>2. CASE Cont
  BY <1>2 DEF Cont, PtraceCont
<1>3. CASE Wait
  BY <1>3 DEF Wait, StatusIsNone, Waitpid, LaunchFailed, Abort, KillProgram, Idle
<1>4. CASE ReplyStart
  BY <1>4 DEF ReplyStart, Idle, Reply
<1>5. CASE ReplyOrig
  BY <1>5 DEF ReplyOrig, Reply, Abort, KillProgram, SendInStep, Send, CheckError, IsErrorCritical
<1>6. CASE ReplyAuxStep
  BY <1>6 DEF ReplyAuxStep, Abort, KillProgram, SendInStep, Send, CheckError, IsErrorCritical
<1>7. CASE ReplyDone
  BY <1>7 DEF ReplyDone, Abort, KillProgram, GetNextCall, NextCallShown, Send, Idle, DoneError, CheckError, IsErrorCritical
<1>8. CASE ReplyAuxNext
  BY <1>8 DEF ReplyAuxNext, Reply, Abort, KillProgram, NextCallShown, Idle
<1>9. CASE ReplyAuxIdle
  BY <1>9 DEF ReplyAuxIdle, Reply, Idle
<1>10. CASE LoopEnds
  BY <1>10 DEF LoopEnds, Idle, Reached
<1>11. CASE LoopGoesOn
  BY <1>11 DEF LoopGoesOn, SingleStep, Send, Reached
<1>12. CASE ProcessEventsReturns
  BY <1>12 DEF ProcessEventsReturns
<1>13. CASE ReplyExec
  BY <1>13 DEF ReplyExec, Reply
<1>14. CASE Resume
  BY <1>14 DEF Resume, PtraceCont
<1>15. CASE CheckExecuteState
  BY <1>15 DEF CheckExecuteState, Abort, KillProgram, CheckError, IsErrorCritical
<1>16. CASE ChildAlive
  BY <1>16 DEF ChildAlive, Abort, KillProgram, Waitpid
<1>17. CASE FinalWait
  BY <1>17 DEF FinalWait, Waitpid, GetNextCall, NextCallShown, Send, Idle, WaitpidReturns
<1>18. CASE ExecuteContinueOnError
  BY <1>18 DEF ExecuteContinueOnError, PtraceCont
<1>19. CASE ErrorWait
  BY <1>19 DEF ErrorWait, Waitpid, Send
<1>20. CASE KillReturns
  BY <1>20 DEF KillReturns, Idle
<1> QED
  BY <1>1, <1>2, <1>3, <1>4, <1>5, <1>6, <1>7, <1>8, <1>9, <1>10, <1>11, <1>12, <1>13, <1>14, <1>15, <1>16, <1>17, <1>18, <1>19, <1>20 DEF ControlStep

(* Every click preserves the types.                                        *)
LEMMA ClickTyped == TypeOK /\ Clicks => TypeOK'
<1> SUFFICES ASSUME TypeOK, Clicks PROVE TypeOK'
  OBVIOUS
<1> USE CallsAssumption DEF TypeOK, rec, os, gui, hook, Running, Bump, Operations, Results, Items, Modes, Errors, WaitStatus, HookPoints, MaxTimes, ControlPoints, Handlers, NoTraceHandlers, Commands, Dones, AuxCmds
<1>1. CASE Launch
  BY <1>1 DEF Launch
<1>2. CASE StepClicked
  BY <1>2 DEF StepClicked, SingleStep, Send, AtTrace
<1>3. CASE RunClicked
  BY <1>3 DEF RunClicked, SingleStep, Send, AtTrace
<1>4. CASE JumpClicked
  BY <1>4 DEF JumpClicked, SingleStep, Send, Targets, AtTrace
<1>5. CASE SkipClicked
  BY <1>5 DEF SkipClicked, Send, Abort, KillProgram, AtTrace
<1>6. CASE CaptureClicked
  BY <1>6 DEF CaptureClicked, Send, AtTrace
<1>7. CASE ExecuteClicked
  BY <1>7 DEF ExecuteClicked, KillProgram
<1>8. CASE PauseClicked
  BY <1>8 DEF PauseClicked
<1>9. ASSUME NEW mode \in NoTraceModes, NEW halt \in Halts, NEW f \in Calls,
             NoTraceClicked(mode, halt, f)
      PROVE  TypeOK'
  BY <1>9, ControlAssumption DEF NoTraceClicked, Send, Abort, KillProgram, AtTrace
<1> QED
  BY <1>1, <1>2, <1>3, <1>4, <1>5, <1>6, <1>7, <1>8, <1>9 DEF Clicks

(* The model is well typed: neither process ever leaves its control points *)
(* or writes anything but an operation, result or item into the record.    *)
THEOREM TypeCorrect == Spec => []TypeOK
<1>1. Init => TypeOK
  BY InitTyped
<1>2. TypeOK /\ [Next]_vars => TypeOK'
  <2> SUFFICES ASSUME TypeOK, [Next]_vars PROVE TypeOK'
    OBVIOUS
  <2>1. CASE ControlStep
    BY <2>1, ControlTyped
  <2>2. CASE Clicks
    BY <2>2, ClickTyped
  <2>3. CASE HookNext
    BY <2>3, HookTyped
  <2>4. CASE UNCHANGED vars
    BY <2>4 DEF TypeOK, vars
  <2> QED
    BY <2>1, <2>2, <2>3, <2>4 DEF Next, ControlNext
<1> QED
  BY <1>1, <1>2, PTL DEF Spec

(* The debugger never waits for a debuggee that waits for it, whatever     *)
(* signals, forks and errors there are: only waitpid takes a status away,  *)
(* and only PTRACE_CONT leads to one of these waits.                       *)
THEOREM Never_stuck == Spec => []NeverStuck
<1>1. Init => NeverStuck
  BY DEF Init, NeverStuck
<1>2. NeverStuck /\ [Next]_vars => NeverStuck'
  <2> SUFFICES ASSUME NeverStuck, [Next]_vars PROVE NeverStuck'
    OBVIOUS
  <2> USE DEF NeverStuck, rec, os, hook, gui
  <2>1. CASE HookNext
    BY <2>1 DEF HookNext, InHook, AppContinues, SkipCommandLoop, EnterCommandLoop,
       CallUntraced, CallUnlocked, StoreErrorItem, Stop, StoreFunctionCall, ServeDone, ServeCallOrig, ServeExecute,
       LeaveByExecute, ServeAux, ServeUnknown, Exec, AppExit, EnterHook, ExecFails,
       AppFault, AppFork, StopWith
  <2>2. CASE Cont \/ ExecuteContinueOnError
    BY <2>2 DEF Cont, ExecuteContinueOnError, PtraceCont
  <2>3. CASE Launch
    BY <2>3 DEF Launch
  <2>4. ASSUME ControlStep, ~Cont, ~ExecuteContinueOnError
        PROVE  dpc' \notin {"exec", "wait", "ewait"}
    BY <2>4 DEF ControlStep, ExecWait, Wait, ReplyStart, ReplyOrig, ReplyAuxStep,
       ReplyDone, ReplyAuxNext, ReplyAuxIdle, LoopEnds, LoopGoesOn,
       ProcessEventsReturns, ReplyExec, Resume, CheckExecuteState, ChildAlive,
       FinalWait, ErrorWait, KillReturns, LaunchFailed, Abort, KillProgram, Idle,
       GetNextCall, NextCallShown, SendInStep, SingleStep, Send
  <2>5. ASSUME Clicks, ~Launch
        PROVE  dpc' \notin {"exec", "wait", "ewait"}
    BY <2>5 DEF Clicks, StepClicked, RunClicked, JumpClicked, SkipClicked,
       CaptureClicked, ExecuteClicked, PauseClicked, NoTraceClicked, SingleStep,
       Abort, KillProgram, Send, AtTrace
  <2>6. CASE UNCHANGED vars
    BY <2>6 DEF vars
  <2> QED
    BY <2>1, <2>2, <2>3, <2>4, <2>5, <2>6 DEF Next, ControlNext
<1> QED
  BY <1>1, <1>2, PTL DEF Spec

(* A step of the debuggee keeps LockIsKept: only entering a hook takes     *)
(* G.lock, and what releases it has executed the call or goes on to.       *)
LEMMA HookKeepsLock ==
  ASSUME TypeOK, LockIsKept, HookNext PROVE LockIsKept'
<1> USE DEF TypeOK, LockIsKept, CommandLoop, hook, Bump, MaxTimes
<1>1. CASE SkipCommandLoop \/ EnterCommandLoop
  BY <1>1 DEF SkipCommandLoop, EnterCommandLoop
<1>2. CASE CallUntraced \/ LeaveByExecute
  BY <1>2 DEF CallUntraced, LeaveByExecute, CallUnlocked
<1>3. CASE StoreErrorItem
  BY <1>3 DEF StoreErrorItem, Erring
<1>4. CASE Stop
  BY <1>4 DEF Stop, Behind
<1>5. CASE StoreFunctionCall \/ ServeUnknown
  BY <1>5 DEF StoreFunctionCall, ServeUnknown
<1>6. CASE ServeDone
  BY <1>6 DEF ServeDone
<1>7. CASE ServeCallOrig \/ ServeExecute \/ ServeAux
  BY <1>7 DEF ServeCallOrig, ServeExecute, ServeAux, Turn
<1>8. CASE Exec \/ AppExit \/ ExecFails \/ AppFault \/ AppFork
  BY <1>8 DEF Exec, AppExit, ExecFails, AppFault, AppFork
<1>9. ASSUME NEW f \in Calls, EnterHook(f) PROVE LockIsKept'
  BY <1>9 DEF EnterHook
<1> QED
  BY <1>1, <1>2, <1>3, <1>4, <1>5, <1>6, <1>7, <1>8, <1>9
  DEF HookNext, InHook, AppContinues

(* Nothing the debugger or its user does but a launch touches the hook.    *)
LEMMA ControlKeepsHook ==
  ASSUME ControlNext, ~Launch PROVE UNCHANGED hook
<1>1. CASE ControlStep
  BY <1>1 DEF ControlStep, ExecWait, Cont, Wait, ReplyStart, ReplyOrig, ReplyAuxStep,
     ReplyDone, ReplyAuxNext, ReplyAuxIdle, LoopEnds, LoopGoesOn,
     ProcessEventsReturns, ReplyExec, Resume, CheckExecuteState, ChildAlive,
     FinalWait, ExecuteContinueOnError, ErrorWait, KillReturns, LaunchFailed,
     Abort, GetNextCall, SendInStep, SingleStep
<1>2. CASE Clicks
  BY <1>2 DEF Clicks, StepClicked, RunClicked, JumpClicked, SkipClicked,
     CaptureClicked, ExecuteClicked, PauseClicked, NoTraceClicked, SingleStep, Abort
<1> QED
  BY <1>1, <1>2 DEF ControlNext

(* Whatever errors halt it, whatever signals and forks disturb it and      *)
(* whatever the user does, the debuggee leaves every hook with G.lock      *)
(* released, so that it can enter the next, and only the command loop of a *)
(* call that was executed is ever run without it.                          *)
THEOREM Lock_is_kept == Spec => []LockIsKept
<1>1. Init => LockIsKept
  BY DEF Init, LockIsKept, CommandLoop
<1>2. TypeOK /\ LockIsKept /\ [Next]_vars => LockIsKept'
  <2> SUFFICES ASSUME TypeOK, LockIsKept, [Next]_vars PROVE LockIsKept'
    OBVIOUS
  <2>1. CASE HookNext
    BY <2>1, HookKeepsLock
  <2>2. CASE Launch
    BY <2>2 DEF Launch, LockIsKept, CommandLoop
  <2>3. CASE ControlNext /\ ~Launch
    BY <2>3, ControlKeepsHook DEF LockIsKept, hook
  <2>4. CASE UNCHANGED vars
    BY <2>4 DEF LockIsKept, vars
  <2> QED
    BY <2>1, <2>2, <2>3, <2>4 DEF Next
<1> QED
  BY <1>1, <1>2, TypeCorrect, PTL DEF Spec

(* The inductive invariant holds initially.                                *)
LEMMA InitInductive == Init => IInv
BY InitTyped DEF Init, IInv, LockInv, CommandInv, ContInv, WaitInv, ReplyInv,
   RunInv, RestInv, ErrorInv, LockedInLoop, CommandLoop, Dead, HeldAt, Untraced,
   NoTraceHandlers

(* Steps of the debuggee.                                                  *)
LEMMA HookInductive ==
  ASSUME Undisturbed, IInv, HookNext PROVE IInv'
<1> USE CallsAssumption DEF rec, os, gui, hook, Running, Bump, TypeOK, IInv,
          LockInv, CommandInv, ContInv, WaitInv, ReplyInv, RunInv, RestInv,
          ErrorInv, LockedInLoop, CommandLoop, Dead, Moving, Held, Stopped,
          Faulted, HeldAt, Arriving, Serving, Acknowledging, Acknowledged,
          Roaming, Launching, OperationOf, StepCmds, Executed, Untraced, DoneDue,
          ModeSet, Undisturbed, Operations, Results, Items, Modes, Errors,
          WaitStatus, HookPoints, MaxTimes, ControlPoints, Handlers,
          NoTraceHandlers, Commands, Dones, AuxCmds
<1>1. CASE SkipCommandLoop
  BY <1>1 DEF SkipCommandLoop, KeepExecuting, RunsOver
<1>2. CASE EnterCommandLoop
  BY <1>2 DEF EnterCommandLoop, SetErrorCode, KeepExecuting, RunsOver
<1>3. CASE CallUntraced
  BY <1>3 DEF CallUntraced, CallUnlocked, GlOutcomes
<1>4. CASE Stop
  BY <1>4 DEF Stop, Behind, StopWith
<1>5. CASE StoreFunctionCall
  BY <1>5 DEF StoreFunctionCall
<1>6. CASE ServeDone
  BY <1>6 DEF ServeDone, Turn, SetErrorCode
<1>7. CASE ServeCallOrig
  BY <1>7 DEF ServeCallOrig, Turn, GlOutcomes, SetErrorCode
<1>8. CASE ServeExecute
  BY <1>8 DEF ServeExecute, Turn
<1>9. CASE LeaveByExecute
  BY <1>9 DEF LeaveByExecute, CallUnlocked, GlOutcomes
<1>10. CASE ServeAux
  BY <1>10 DEF ServeAux, Turn, GlOutcomes, SetErrorCode
<1>11. CASE ServeUnknown
  BY <1>11 DEF ServeUnknown
<1>12. CASE Exec
  BY <1>12 DEF Exec, StopWith
<1>13. CASE AppExit
  BY <1>13 DEF AppExit
<1>14. CASE ExecFails
  BY <1>14 DEF ExecFails
<1>15. CASE AppFault
  BY <1>15 DEF AppFault, StopWith
<1>16. CASE AppFork
  BY <1>16 DEF AppFork, StopWith
<1>17. ASSUME NEW f \in Calls, EnterHook(f) PROVE IInv'
  BY <1>17 DEF EnterHook
<1>18. CASE StoreErrorItem
  BY <1>18 DEF StoreErrorItem, Erring
<1> QED
  BY <1>1, <1>2, <1>3, <1>4, <1>5, <1>6, <1>7, <1>8, <1>9, <1>10, <1>11, <1>12, <1>13, <1>14, <1>15, <1>16, <1>17, <1>18 DEF HookNext, InHook, AppContinues

(* Steps of the debugger by itself.                                        *)
LEMMA ControlInductive ==
  ASSUME Undisturbed, IInv, ControlStep PROVE IInv'
<1> USE CallsAssumption DEF rec, os, gui, hook, Running, Bump, TypeOK, IInv,
          LockInv, CommandInv, ContInv, WaitInv, ReplyInv, RunInv, RestInv,
          ErrorInv, LockedInLoop, CommandLoop, Dead, Moving, Held, Stopped,
          Faulted, HeldAt, Arriving, Serving, Acknowledging, Acknowledged,
          Roaming, Launching, OperationOf, StepCmds, Executed, Untraced, DoneDue,
          ModeSet, Undisturbed, Operations, Results, Items, Modes, Errors,
          WaitStatus, HookPoints, MaxTimes, ControlPoints, Handlers,
          NoTraceHandlers, Commands, Dones, AuxCmds
<1>1. CASE ExecWait
  BY <1>1 DEF ExecWait, LaunchFailed, Idle, StatusIsNone, Waitpid
<1>2. CASE Cont
  BY <1>2 DEF Cont, PtraceCont
<1>3. CASE Wait
  <2>1. CASE StatusIsNone
    BY <1>3, <2>1 DEF Wait, StatusIsNone, Waitpid
  <2>2. CASE ~StatusIsNone /\ cmd \in {"doneQuiet", "doneError", "auxIdle"}
    BY <1>3, <2>2 DEF Wait, StatusIsNone, Waitpid, WaitpidReturns
  <2>3. CASE ~StatusIsNone /\ cmd = "start"
    BY <1>3, <2>3 DEF Wait, StatusIsNone, LaunchFailed, Idle
  <2>4. CASE ~StatusIsNone /\ cmd \notin {"start", "doneQuiet", "doneError", "auxIdle"}
    BY <1>3, <2>4 DEF Wait, StatusIsNone, Abort, KillProgram
  <2> QED
    BY <2>1, <2>2, <2>3, <2>4
<1>4. CASE ReplyStart
  BY <1>4 DEF ReplyStart, Idle, Reply
<1>5. CASE ReplyOrig
  BY <1>5 DEF ReplyOrig, Reply, Abort, KillProgram, SendInStep, Send, CheckError, IsErrorCritical
<1>6. CASE ReplyAuxStep
  BY <1>6 DEF ReplyAuxStep, Abort, KillProgram, SendInStep, Send, CheckError, IsErrorCritical
<1>7. CASE ReplyDone
  BY <1>7 DEF ReplyDone, Abort, KillProgram, GetNextCall, NextCallShown, Send, Idle, DoneError, CheckError, IsErrorCritical
<1>8. CASE ReplyAuxNext
  BY <1>8 DEF ReplyAuxNext, Reply, Abort, KillProgram, NextCallShown, Idle
<1>9. CASE ReplyAuxIdle
  BY <1>9 DEF ReplyAuxIdle, Reply, Idle
<1>10. CASE LoopEnds
  BY <1>10 DEF LoopEnds, Idle, Reached
<1>11. CASE LoopGoesOn
  BY <1>11 DEF LoopGoesOn, SingleStep, Send, Reached
<1>12. CASE ProcessEventsReturns
  BY <1>12 DEF ProcessEventsReturns
<1>13. CASE ReplyExec
  BY <1>13 DEF ReplyExec, Reply
<1>14. CASE Resume
  BY <1>14 DEF Resume, PtraceCont
<1>15. CASE CheckExecuteState
  BY <1>15 DEF CheckExecuteState, Abort, KillProgram, CheckError, IsErrorCritical
<1>16. CASE ChildAlive
  BY <1>16 DEF ChildAlive, Abort, KillProgram, Waitpid
<1>17. CASE FinalWait
  BY <1>17 DEF FinalWait, Waitpid, GetNextCall, NextCallShown, Send, Idle, WaitpidReturns
<1>18. CASE ExecuteContinueOnError
  BY <1>18 DEF ExecuteContinueOnError, PtraceCont
<1>19. CASE ErrorWait
  BY <1>19 DEF ErrorWait, Waitpid, Send
<1>20. CASE KillReturns
  BY <1>20 DEF KillReturns, Idle
<1> QED
  BY <1>1, <1>2, <1>3, <1>4, <1>5, <1>6, <1>7, <1>8, <1>9, <1>10, <1>11, <1>12, <1>13, <1>14, <1>15, <1>16, <1>17, <1>18, <1>19, <1>20 DEF ControlStep

(* Clicks of the user.                                                     *)
LEMMA ClickInductive ==
  ASSUME Undisturbed, IInv, Clicks PROVE IInv'
<1> USE CallsAssumption DEF rec, os, gui, hook, Running, Bump, TypeOK, IInv,
          LockInv, CommandInv, ContInv, WaitInv, ReplyInv, RunInv, RestInv,
          ErrorInv, LockedInLoop, CommandLoop, Dead, Moving, Held, Stopped,
          Faulted, HeldAt, Arriving, Serving, Acknowledging, Acknowledged,
          Roaming, Launching, OperationOf, StepCmds, Executed, Untraced, DoneDue,
          ModeSet, Undisturbed, Operations, Results, Items, Modes, Errors,
          WaitStatus, HookPoints, MaxTimes, ControlPoints, Handlers,
          NoTraceHandlers, Commands, Dones, AuxCmds
<1>1. CASE Launch
  BY <1>1 DEF Launch
<1>2. CASE StepClicked
  BY <1>2 DEF StepClicked, SingleStep, Send, AtTrace
<1>3. CASE RunClicked
  BY <1>3 DEF RunClicked, SingleStep, Send, AtTrace
<1>4. CASE JumpClicked
  BY <1>4 DEF JumpClicked, SingleStep, Send, Targets, AtTrace
<1>5. CASE SkipClicked
  BY <1>5 DEF SkipClicked, Send, Abort, KillProgram, AtTrace
<1>6. CASE CaptureClicked
  BY <1>6 DEF CaptureClicked, Send, AtTrace
<1>7. CASE ExecuteClicked
  BY <1>7 DEF ExecuteClicked, KillProgram
<1>8. CASE PauseClicked
  BY <1>8 DEF PauseClicked
<1>9. ASSUME NEW mode \in NoTraceModes, NEW halt \in Halts, NEW f \in Calls,
             NoTraceClicked(mode, halt, f)
      PROVE  IInv'
  BY <1>9, ControlAssumption DEF NoTraceClicked, Send, Abort, KillProgram, AtTrace
<1> QED
  BY <1>1, <1>2, <1>3, <1>4, <1>5, <1>6, <1>7, <1>8, <1>9 DEF Clicks

(* Every step of an undisturbed session preserves the invariant.           *)
LEMMA StepInductive ==
  ASSUME Undisturbed, IInv, [Next]_vars PROVE IInv'
<1>1. CASE ControlStep
  BY <1>1, ControlInductive
<1>2. CASE Clicks
  BY <1>2, ClickInductive
<1>3. CASE HookNext
  BY <1>3, HookInductive
<1>4. CASE UNCHANGED vars
  BY <1>4 DEF vars, TypeOK, IInv, LockInv, CommandInv, ContInv, WaitInv, ReplyInv,
     RunInv, RestInv, ErrorInv, LockedInLoop, Dead, Moving, Held, Stopped,
     Faulted, HeldAt, Arriving, Serving, Acknowledging, Acknowledged, Roaming,
     Launching, Executed, Untraced, DoneDue, ModeSet
<1> QED
  BY <1>1, <1>2, <1>3, <1>4 DEF Next, ControlNext

(* In an undisturbed session the debuggee is always where the control      *)
(* point of the debugger says it is.                                       *)
THEOREM Inductive == ASSUME Undisturbed PROVE Spec => []IInv
<1>1. Init => IInv
  BY InitInductive
<1>2. IInv /\ [Next]_vars => IInv'
  BY StepInductive
<1> QED
  BY <1>1, <1>2, PTL DEF Spec

(* What the invariant says of commands: each finds the debuggee stopped at *)
(* the place that reads it, and each answer is the stop that belongs to it.*)
LEMMA InvCommand == IInv => CommandMeetsLoop /\ AnswerIsFresh
BY DEF IInv, ContInv, ReplyInv, CommandInv, TypeOK, CommandMeetsLoop, AnswerIsFresh,
   HeldAt, Held, Dead, Acknowledged, Commands, Dones, AuxCmds

(* What it says of the call: executed once, and left by a DONE.            *)
LEMMA InvCall == IInv => CalledOnce /\ DoneProceeds
BY DEF IInv, LockInv, ReplyInv, CommandInv, CalledOnce, DoneProceeds, HeldAt, Held,
   Dead, Dones

(* No command of an undisturbed session is written to a debuggee that does *)
(* not wait for one.                                                       *)
THEOREM Commands_meet_the_loop ==
  ASSUME Undisturbed PROVE Spec => []CommandMeetsLoop
<1>1. IInv => CommandMeetsLoop
  BY InvCommand
<1> QED
  BY <1>1, Inductive, PTL

(* The answer of a command is never the stop of an earlier one.            *)
THEOREM Answers_are_fresh ==
  ASSUME Undisturbed PROVE Spec => []AnswerIsFresh
<1>1. IInv => AnswerIsFresh
  BY InvCommand
<1> QED
  BY <1>1, Inductive, PTL

(* A GL call of the application reaches the driver at most once.           *)
THEOREM Called_once == ASSUME Undisturbed PROVE Spec => []CalledOnce
<1>1. IInv => CalledOnce
  BY InvCall
<1> QED
  BY <1>1, Inductive, PTL

(* DBG_DONE is answered by a call that is still to be executed.            *)
THEOREM Done_proceeds == ASSUME Undisturbed PROVE Spec => []DoneProceeds
<1>1. IInv => DoneProceeds
  BY InvCall
<1> QED
  BY <1>1, Inductive, PTL

(* The step of NeverDropped: the three ways out of a hook.                 *)
LEMMA LeavesExecuted ==
  ASSUME IInv, Next, hpc \notin {"boot", "app"}, hpc' = "app", handler # "skip"
  PROVE  times' >= 1
<1> USE DEF rec, os, gui, hook, Running, Bump, MaxTimes
<1>1. CASE ServeDone
  BY <1>1 DEF ServeDone, Turn, IInv, TypeOK, LockInv, CommandInv, ContInv,
     WaitInv, ReplyInv, RunInv, RestInv, ErrorInv, Dead, Moving, Held, Stopped,
     Faulted, HeldAt, Arriving, Serving, Acknowledging, Acknowledged, Roaming,
     Launching, OperationOf, StepCmds, Executed, Untraced, DoneDue, Dones,
     AuxCmds, ControlPoints, Commands
<1>2. CASE CallUntraced \/ LeaveByExecute
  BY <1>2 DEF CallUntraced, LeaveByExecute, CallUnlocked, IInv, TypeOK
<1>3. CASE SkipCommandLoop \/ EnterCommandLoop \/ StoreErrorItem \/ Stop
           \/ StoreFunctionCall \/ ServeCallOrig \/ ServeExecute \/ ServeAux \/ ServeUnknown
  BY <1>3 DEF SkipCommandLoop, EnterCommandLoop, StoreErrorItem, Erring, Stop, Behind, StoreFunctionCall,
     ServeCallOrig, ServeExecute, ServeAux, ServeUnknown, Turn
<1>4. CASE AppContinues \/ ExecFails \/ AppFault \/ AppFork
  BY <1>4 DEF AppContinues, Exec, AppExit, EnterHook, ExecFails, AppFault, AppFork
<1>5. CASE ControlStep
  <2> hpc' = hpc
    BY <1>5 DEF ControlStep, ExecWait, Cont, Wait, ReplyStart, ReplyOrig,
       ReplyAuxStep, ReplyDone, ReplyAuxNext, ReplyAuxIdle, LoopEnds, LoopGoesOn,
       ProcessEventsReturns, ReplyExec, Resume, CheckExecuteState, ChildAlive,
       FinalWait, ExecuteContinueOnError, ErrorWait, KillReturns, LaunchFailed,
       Abort, GetNextCall, SendInStep, SingleStep
  <2> QED
    OBVIOUS
<1>6. CASE Clicks
  BY <1>6 DEF Clicks, Launch, StepClicked, RunClicked, JumpClicked, SkipClicked,
     CaptureClicked, ExecuteClicked, PauseClicked, NoTraceClicked, SingleStep, Abort
<1> QED
  BY <1>1, <1>2, <1>3, <1>4, <1>5, <1>6 DEF Next, ControlNext, HookNext, InHook

(* No call of the application is lost on its way through a hook.           *)
THEOREM Never_dropped == ASSUME Undisturbed PROVE Spec => NeverDropped
<1>1. IInv /\ [Next]_vars =>
        [hpc \notin {"boot", "app"} /\ hpc' = "app" /\ handler # "skip"
            => times' >= 1]_vars
  BY LeavesExecuted
<1> QED
  BY <1>1, Inductive, PTL DEF Spec, NeverDropped
=============================================================================
