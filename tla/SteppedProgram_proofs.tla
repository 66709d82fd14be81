-------------------------- MODULE SteppedProgram_proofs --------------------------
(***************************************************************************)
(* A debugging session implements SteppedProgram, for every value of the   *)
(* constants: undisturbed, and if the debugger gets to know of the end of  *)
(* the debuggee (Noticed).                                                 *)
(***************************************************************************)
EXTENDS DebugSession_proofs

(* A step of the debuggee leaves no end of the debuggee unnoticed.         *)
LEMMA HookNotices ==
  ASSUME Undisturbed, Noticed, PInv, IInv', HookNext
  PROVE  PInv'
<1> USE CallsAssumption
    DEF rec, os, gui, hook, Running, Bump, PInv, GoneInv, Noticed, Idle, TypeOK,
        IInv, LockInv, CommandInv, ContInv, WaitInv, ReplyInv, RunInv, RestInv,
        ErrorInv, LockedInLoop, CommandLoop, Dead, Moving, Held, Stopped, Faulted,
        HeldAt, Arriving, Serving, Acknowledging, Acknowledged, Roaming,
        Launching, OperationOf, StepCmds, Executed, Untraced, DoneDue, ModeSet,
        Undisturbed, Modes, Errors, MaxTimes, NoTraceHandlers, Dones, AuxCmds
<1>1. CASE SkipCommandLoop
  BY <1>1 DEF SkipCommandLoop, KeepExecuting, RunsOver
<1>2. CASE EnterCommandLoop
  BY <1>2 DEF EnterCommandLoop, SetErrorCode, KeepExecuting, RunsOver
<1>3. CASE CallUntraced
  BY <1>3 DEF CallUntraced, CallUnlocked, GlOutcomes
<1>4. CASE Stop
  BY <1>4 DEF Stop, Behind, StopWith
<1>5. CASE StoreFunctionCall
  BY <1>5 DEF StoreFunctionCall
<1>6. CASE ServeDone
  BY <1>6 DEF ServeDone, Turn, SetErrorCode
<1>7. CASE ServeCallOrig
  BY <1>7 DEF ServeCallOrig, Turn, GlOutcomes, SetErrorCode
<1>8. CASE ServeExecute
  BY <1>8 DEF ServeExecute, Turn
<1>9. CASE LeaveByExecute
  BY <1>9 DEF LeaveByExecute, CallUnlocked, GlOutcomes
<1>10. CASE ServeAux
  BY <1>10 DEF ServeAux, Turn, GlOutcomes, SetErrorCode
<1>11. CASE ServeUnknown
  BY <1>11 DEF ServeUnknown
<1>12. CASE Exec
  BY <1>12 DEF Exec, StopWith
<1>13. CASE AppExit
  BY <1>13 DEF AppExit, Commands, ControlPoints, Operations
<1>14. CASE ExecFails
  BY <1>14 DEF ExecFails, Commands, ControlPoints, Operations
<1>15. CASE AppFault
  BY <1>15 DEF AppFault, StopWith
<1>16. CASE AppFork
  BY <1>16 DEF AppFork, StopWith
<1>17. ASSUME NEW f \in Calls, EnterHook(f) PROVE PInv'
  BY <1>17 DEF EnterHook
<1>18. CASE StoreErrorItem
  BY <1>18 DEF StoreErrorItem, Erring
<1> QED
  BY <1>1, <1>2, <1>3, <1>4, <1>5, <1>6, <1>7, <1>8, <1>9, <1>10, <1>11, <1>12,
     <1>13, <1>14, <1>15, <1>16, <1>17, <1>18
  DEF HookNext, InHook, AppContinues

(* A step the debugger takes by itself leaves no end of the debuggee unnoticed. *)
LEMMA ControlNotices ==
  ASSUME Undisturbed, Noticed, PInv, IInv', ControlStep
  PROVE  PInv'
<1> USE CallsAssumption
    DEF rec, os, gui, hook, Running, Bump, PInv, GoneInv, Noticed, Idle, TypeOK,
        IInv, LockInv, CommandInv, ContInv, WaitInv, ReplyInv, RunInv, RestInv,
        ErrorInv, LockedInLoop, CommandLoop, Dead, Moving, Held, Stopped, Faulted,
        HeldAt, Arriving, Serving, Acknowledging, Acknowledged, Roaming,
        Launching, OperationOf, StepCmds, Executed, Untraced, DoneDue, ModeSet,
        Undisturbed, Modes, Errors, MaxTimes, NoTraceHandlers, Dones, AuxCmds
<1>1. CASE ExecWait
  BY <1>1 DEF ExecWait, LaunchFailed, Idle, StatusIsNone, Waitpid, WaitpidReturns
<1>2. CASE Cont
  BY <1>2 DEF Cont, PtraceCont
<1>3. CASE Wait
  BY <1>3 DEF Wait, StatusIsNone, Waitpid, WaitpidReturns, LaunchFailed, Abort,
     KillProgram, Idle
<1>4. CASE ReplyStart
  BY <1>4 DEF ReplyStart, Idle, Reply
<1>5. CASE ReplyOrig
  BY <1>5 DEF ReplyOrig, Reply, Abort, KillProgram, SendInStep, Send, CheckError,
     IsErrorCritical
<1>6. CASE ReplyAuxStep
  BY <1>6 DEF ReplyAuxStep, Abort, KillProgram, SendInStep, Send, CheckError,
     IsErrorCritical
<1>7. CASE ReplyDone
  BY <1>7 DEF ReplyDone, Abort, KillProgram, GetNextCall, NextCallShown, Send, Idle,
     DoneError, CheckError, IsErrorCritical
<1>8. CASE ReplyAuxNext
  BY <1>8 DEF ReplyAuxNext, Reply, Abort, KillProgram, NextCallShown, Idle
<1>9. CASE ReplyAuxIdle
  BY <1>9 DEF ReplyAuxIdle, Reply, Idle
<1>10. CASE LoopEnds
  BY <1>10 DEF LoopEnds, Idle, Reached
<1>11. CASE LoopGoesOn
  BY <1>11 DEF LoopGoesOn, SingleStep, Send, Reached
<1>12. CASE ProcessEventsReturns
  BY <1>12 DEF ProcessEventsReturns
<1>13. CASE ReplyExec
  BY <1>13 DEF ReplyExec, Reply
<1>14. CASE Resume
  BY <1>14 DEF Resume, PtraceCont
<1>15. CASE CheckExecuteState
  BY <1>15 DEF CheckExecuteState, Abort, KillProgram, CheckError, IsErrorCritical
<1>16. CASE ChildAlive
  BY <1>16 DEF ChildAlive, Abort, KillProgram, Waitpid
<1>17. CASE FinalWait
  BY <1>17 DEF FinalWait, Waitpid, GetNextCall, NextCallShown, Send, Idle,
     WaitpidReturns
<1>18. CASE ExecuteContinueOnError
  BY <1>18 DEF ExecuteContinueOnError, PtraceCont
<1>19. CASE ErrorWait
  BY <1>19 DEF ErrorWait, Waitpid, Send
<1>20. CASE KillReturns
  BY <1>20 DEF KillReturns, Idle
<1> QED
  BY <1>1, <1>2, <1>3, <1>4, <1>5, <1>6, <1>7, <1>8, <1>9, <1>10, <1>11, <1>12,
     <1>13, <1>14, <1>15, <1>16, <1>17, <1>18, <1>19, <1>20
  DEF ControlStep

(* A click leaves no end of the debuggee unnoticed.                        *)
LEMMA ClickNotices ==
  ASSUME Undisturbed, Noticed, PInv, IInv', Clicks
  PROVE  PInv'
<1> USE CallsAssumption
    DEF rec, os, gui, hook, Running, Bump, PInv, GoneInv, Noticed, Idle, TypeOK,
        IInv, LockInv, CommandInv, ContInv, WaitInv, ReplyInv, RunInv, RestInv,
        ErrorInv, LockedInLoop, CommandLoop, Dead, Moving, Held, Stopped, Faulted,
        HeldAt, Arriving, Serving, Acknowledging, Acknowledged, Roaming,
        Launching, OperationOf, StepCmds, Executed, Untraced, DoneDue, ModeSet,
        Undisturbed, Modes, Errors, MaxTimes, NoTraceHandlers, Dones, AuxCmds
<1>1. CASE Launch
  BY <1>1 DEF Launch
<1>2. CASE StepClicked
  BY <1>2 DEF StepClicked, SingleStep, Send, AtTrace
<1>3. CASE RunClicked
  BY <1>3 DEF RunClicked, SingleStep, Send, AtTrace
<1>4. CASE JumpClicked
  BY <1>4 DEF JumpClicked, SingleStep, Send, Targets, AtTrace
<1>5. CASE SkipClicked
  BY <1>5 DEF SkipClicked, Send, Abort, KillProgram, AtTrace
<1>6. CASE CaptureClicked
  BY <1>6 DEF CaptureClicked, Send, AtTrace
<1>7. CASE ExecuteClicked
  BY <1>7 DEF ExecuteClicked, KillProgram
<1>8. CASE PauseClicked
  BY <1>8 DEF PauseClicked
<1>9. ASSUME NEW mode \in NoTraceModes, NEW halt \in Halts, NEW f \in Calls,
             NoTraceClicked(mode, halt, f)
      PROVE  PInv'
  BY <1>9, ControlAssumption DEF NoTraceClicked, Send, Abort, KillProgram, AtTrace
<1> QED
  BY <1>1, <1>2, <1>3, <1>4, <1>5, <1>6, <1>7, <1>8, <1>9
  DEF Clicks

(* Every step preserves the invariant behind KeepsThePromise.              *)
LEMMA StepNotices ==
  ASSUME Undisturbed, Noticed, PInv, [Next]_vars
  PROVE  PInv'
<1> IInv'
  BY StepInductive DEF PInv
<1>1. CASE HookNext
  BY <1>1, HookNotices
<1>2. CASE ControlStep
  BY <1>2, ControlNotices
<1>3. CASE Clicks
  BY <1>3, ClickNotices
<1>4. CASE UNCHANGED vars
  BY <1>4 DEF vars, PInv, GoneInv, ErrorInv, Dead, Untraced
<1> QED
  BY <1>1, <1>2, <1>3, <1>4 DEF Next, ControlNext

(* The debugger learns of the end of the debuggee before its user gets     *)
(* control: it may be gone only while the debugger waits for its next call. *)
THEOREM End_is_noticed == ASSUME Undisturbed, Noticed PROVE Spec => []PInv
<1>1. Init => PInv
  BY InitInductive, CallsAssumption DEF Init, PInv, GoneInv, ErrorInv
<1>2. PInv /\ [Next]_vars => PInv'
  BY StepNotices
<1> QED
  BY <1>1, <1>2, PTL DEF Spec

-----------------------------------------------------------------------------
(* A step of the debuggee is one of SteppedProgram, or none.               *)
LEMMA HookRefines ==
  ASSUME Undisturbed, Noticed, PInv, IInv', HookNext
  PROVE  [Stepped!Next]_Stepped!pvars
<1> USE CallsAssumption
    DEF rec, os, gui, hook, Running, Bump, PInv, GoneInv, Noticed, Phase, AtTrace,
        Stepped!Next, Stepped!Start, Stepped!Park, Stepped!Grant, Stepped!Take,
        Stepped!Execute, Stepped!Continue, Stepped!End, Stepped!pvars, TypeOK,
        IInv, LockInv, CommandInv, ContInv, WaitInv, ReplyInv, RunInv, RestInv,
        ErrorInv, LockedInLoop, CommandLoop, Dead, Moving, Held, Stopped, Faulted,
        HeldAt, Arriving, Serving, Acknowledging, Acknowledged, Roaming,
        Launching, OperationOf, StepCmds, Executed, Untraced, DoneDue, ModeSet,
        Undisturbed, Modes, Errors, MaxTimes, NoTraceHandlers, Dones, AuxCmds
<1>1. CASE SkipCommandLoop
  BY <1>1 DEF SkipCommandLoop, KeepExecuting, RunsOver
<1>2. CASE EnterCommandLoop
  BY <1>2 DEF EnterCommandLoop, SetErrorCode, KeepExecuting, RunsOver,
     Commands, ControlPoints
<1>3. CASE CallUntraced
  BY <1>3 DEF CallUntraced, CallUnlocked, GlOutcomes
<1>4. CASE Stop
  BY <1>4 DEF Stop, Behind, StopWith
<1>5. CASE StoreFunctionCall
  BY <1>5 DEF StoreFunctionCall
<1>6. CASE ServeDone
  BY <1>6 DEF ServeDone, Turn, SetErrorCode
<1>7. CASE ServeCallOrig
  BY <1>7 DEF ServeCallOrig, Turn, GlOutcomes, SetErrorCode
<1>8. CASE ServeExecute
  BY <1>8 DEF ServeExecute, Turn
<1>9. CASE LeaveByExecute
  BY <1>9 DEF LeaveByExecute, CallUnlocked, GlOutcomes
<1>10. CASE ServeAux
  BY <1>10 DEF ServeAux, Turn, GlOutcomes, SetErrorCode
<1>11. CASE ServeUnknown
  BY <1>11 DEF ServeUnknown
<1>12. CASE Exec
  BY <1>12 DEF Exec, StopWith
<1>13. CASE AppExit
  BY <1>13 DEF AppExit
<1>14. CASE ExecFails
  BY <1>14 DEF ExecFails
<1>15. CASE AppFault
  BY <1>15 DEF AppFault, StopWith
<1>16. CASE AppFork
  BY <1>16 DEF AppFork, StopWith
<1>17. ASSUME NEW f \in Calls, EnterHook(f) PROVE [Stepped!Next]_Stepped!pvars
  BY <1>17 DEF EnterHook
<1>18. CASE StoreErrorItem
  BY <1>18 DEF StoreErrorItem, Erring
<1> QED
  BY <1>1, <1>2, <1>3, <1>4, <1>5, <1>6, <1>7, <1>8, <1>9, <1>10, <1>11, <1>12,
     <1>13, <1>14, <1>15, <1>16, <1>17, <1>18
  DEF HookNext, InHook, AppContinues

(* A step the debugger takes by itself is one of SteppedProgram, or none.  *)
LEMMA ControlRefines ==
  ASSUME Undisturbed, Noticed, PInv, IInv', ControlStep
  PROVE  [Stepped!Next]_Stepped!pvars
<1> USE CallsAssumption
    DEF rec, os, gui, hook, Running, Bump, PInv, GoneInv, Noticed, Phase, AtTrace,
        Stepped!Next, Stepped!Start, Stepped!Park, Stepped!Grant, Stepped!Take,
        Stepped!Execute, Stepped!Continue, Stepped!End, Stepped!pvars, TypeOK,
        IInv, LockInv, CommandInv, ContInv, WaitInv, ReplyInv, RunInv, RestInv,
        ErrorInv, LockedInLoop, CommandLoop, Dead, Moving, Held, Stopped, Faulted,
        HeldAt, Arriving, Serving, Acknowledging, Acknowledged, Roaming,
        Launching, OperationOf, StepCmds, Executed, Untraced, DoneDue, ModeSet,
        Undisturbed, Modes, Errors, MaxTimes, NoTraceHandlers, Dones, AuxCmds
<1>1. CASE ExecWait
  BY <1>1 DEF ExecWait, LaunchFailed, Idle, StatusIsNone, Waitpid, WaitpidReturns
<1>2. CASE Cont
  BY <1>2 DEF Cont, PtraceCont
<1>3. CASE Wait
  BY <1>3 DEF Wait, StatusIsNone, Waitpid, WaitpidReturns, LaunchFailed, Abort,
     KillProgram, Idle
<1>4. CASE ReplyStart
  BY <1>4 DEF ReplyStart, Idle, Reply
<1>5. CASE ReplyOrig
  BY <1>5 DEF ReplyOrig, Reply, Abort, KillProgram, SendInStep, Send, CheckError,
     IsErrorCritical
<1>6. CASE ReplyAuxStep
  BY <1>6 DEF ReplyAuxStep, Abort, KillProgram, SendInStep, Send, CheckError,
     IsErrorCritical
<1>7. CASE ReplyDone
  BY <1>7 DEF ReplyDone, Abort, KillProgram, GetNextCall, NextCallShown, Send, Idle,
     DoneError, CheckError, IsErrorCritical
<1>8. CASE ReplyAuxNext
  BY <1>8 DEF ReplyAuxNext, Reply, Abort, KillProgram, NextCallShown, Idle
<1>9. CASE ReplyAuxIdle
  BY <1>9 DEF ReplyAuxIdle, Reply, Idle
<1>10. CASE LoopEnds
  BY <1>10 DEF LoopEnds, Idle, Reached
<1>11. CASE LoopGoesOn
  BY <1>11 DEF LoopGoesOn, SingleStep, Send, Reached
<1>12. CASE ProcessEventsReturns
  BY <1>12 DEF ProcessEventsReturns
<1>13. CASE ReplyExec
  BY <1>13 DEF ReplyExec, Reply
<1>14. CASE Resume
  BY <1>14 DEF Resume, PtraceCont
<1>15. CASE CheckExecuteState
  BY <1>15 DEF CheckExecuteState, Abort, KillProgram, CheckError, IsErrorCritical
<1>16. CASE ChildAlive
  BY <1>16 DEF ChildAlive, Abort, KillProgram, Waitpid
<1>17. CASE FinalWait
  BY <1>17 DEF FinalWait, Waitpid, GetNextCall, NextCallShown, Send, Idle,
     WaitpidReturns
<1>18. CASE ExecuteContinueOnError
  BY <1>18 DEF ExecuteContinueOnError, PtraceCont
<1>19. CASE ErrorWait
  BY <1>19 DEF ErrorWait, Waitpid, Send
<1>20. CASE KillReturns
  BY <1>20 DEF KillReturns, Idle
<1> QED
  BY <1>1, <1>2, <1>3, <1>4, <1>5, <1>6, <1>7, <1>8, <1>9, <1>10, <1>11, <1>12,
     <1>13, <1>14, <1>15, <1>16, <1>17, <1>18, <1>19, <1>20
  DEF ControlStep

(* A click is one of SteppedProgram, or none.                              *)
LEMMA ClickRefines ==
  ASSUME Undisturbed, Noticed, PInv, IInv', Clicks
  PROVE  [Stepped!Next]_Stepped!pvars
<1> USE CallsAssumption
    DEF rec, os, gui, hook, Running, Bump, PInv, GoneInv, Noticed, Phase, AtTrace,
        Stepped!Next, Stepped!Start, Stepped!Park, Stepped!Grant, Stepped!Take,
        Stepped!Execute, Stepped!Continue, Stepped!End, Stepped!pvars, TypeOK,
        IInv, LockInv, CommandInv, ContInv, WaitInv, ReplyInv, RunInv, RestInv,
        ErrorInv, LockedInLoop, CommandLoop, Dead, Moving, Held, Stopped, Faulted,
        HeldAt, Arriving, Serving, Acknowledging, Acknowledged, Roaming,
        Launching, OperationOf, StepCmds, Executed, Untraced, DoneDue, ModeSet,
        Undisturbed, Modes, Errors, MaxTimes, NoTraceHandlers, Dones, AuxCmds
<1>1. CASE Launch
  BY <1>1 DEF Launch
<1>2. CASE StepClicked
  BY <1>2 DEF StepClicked, SingleStep, Send, AtTrace
<1>3. CASE RunClicked
  BY <1>3 DEF RunClicked, SingleStep, Send, AtTrace
<1>4. CASE JumpClicked
  BY <1>4 DEF JumpClicked, SingleStep, Send, Targets, AtTrace
<1>5. CASE SkipClicked
  BY <1>5 DEF SkipClicked, Send, Abort, KillProgram, AtTrace
<1>6. CASE CaptureClicked
  BY <1>6 DEF CaptureClicked, Send, AtTrace
<1>7. CASE ExecuteClicked
  BY <1>7 DEF ExecuteClicked, KillProgram
<1>8. CASE PauseClicked
  BY <1>8 DEF PauseClicked
<1>9. ASSUME NEW mode \in NoTraceModes, NEW halt \in Halts, NEW f \in Calls,
             NoTraceClicked(mode, halt, f)
      PROVE  [Stepped!Next]_Stepped!pvars
  BY <1>9, ControlAssumption DEF NoTraceClicked, Send, Abort, KillProgram, AtTrace
<1> QED
  BY <1>1, <1>2, <1>3, <1>4, <1>5, <1>6, <1>7, <1>8, <1>9
  DEF Clicks

(* Every step of the session is a step of SteppedProgram, or none.         *)
LEMMA StepRefines ==
  ASSUME Undisturbed, Noticed, PInv, [Next]_vars
  PROVE  [Stepped!Next]_Stepped!pvars
<1> IInv'
  BY StepInductive DEF PInv
<1>1. CASE HookNext
  BY <1>1, HookRefines
<1>2. CASE ControlStep
  BY <1>2, ControlRefines
<1>3. CASE Clicks
  BY <1>3, ClickRefines
<1>4. CASE UNCHANGED vars
  BY <1>4 DEF vars, Phase, AtTrace, CommandLoop, Stepped!pvars
<1> QED
  BY <1>1, <1>2, <1>3, <1>4 DEF Next, ControlNext

(* A session keeps the promise to its user: whatever the handlers do with  *)
(* records, signals and wait statuses, he sees a program that parks at     *)
(* calls, is his only there, before the call is executed, and executes it  *)
(* at most once on his behalf.                                             *)
THEOREM Keeps_the_promise ==
  ASSUME Undisturbed, Noticed PROVE Spec => KeepsThePromise
<1>1. Init => Stepped!Init
  BY DEF Init, Stepped!Init, Phase, AtTrace
<1>2. PInv /\ [Next]_vars => [Stepped!Next]_Stepped!pvars
  BY StepRefines
<1> QED
  BY <1>1, <1>2, End_is_noticed, PTL DEF Spec, KeepsThePromise, Stepped!Spec

-----------------------------------------------------------------------------
(* A step of the debuggee keeps the call of the hook on display.           *)
LEMMA HookShows ==
  ASSUME Undisturbed, Noticed, NoJumps, QInv, PInv', HookNext
  PROVE  ShownInv'
<1> USE CallsAssumption
    DEF rec, os, gui, hook, Running, Bump, QInv, ShownInv, NoJumps, AtTrace, PInv,
        GoneInv, Noticed, Idle, TypeOK, IInv, LockInv, CommandInv, ContInv,
        WaitInv, ReplyInv, RunInv, RestInv, ErrorInv, LockedInLoop, CommandLoop,
        Dead, Moving, Held, Stopped, Faulted, HeldAt, Arriving, Serving,
        Acknowledging, Acknowledged, Roaming, Launching, OperationOf, StepCmds,
        Executed, Untraced, DoneDue, ModeSet, Undisturbed, Modes, Errors,
        MaxTimes, NoTraceHandlers, Dones, AuxCmds
<1>1. CASE SkipCommandLoop
  BY <1>1 DEF SkipCommandLoop, KeepExecuting, RunsOver
<1>2. CASE EnterCommandLoop
  BY <1>2 DEF EnterCommandLoop, SetErrorCode, KeepExecuting, RunsOver
<1>3. CASE CallUntraced
  BY <1>3 DEF CallUntraced, CallUnlocked, GlOutcomes
<1>4. CASE Stop
  BY <1>4 DEF Stop, Behind, StopWith
<1>5. CASE StoreFunctionCall
  BY <1>5 DEF StoreFunctionCall
<1>6. CASE ServeDone
  BY <1>6 DEF ServeDone, Turn, SetErrorCode
<1>7. CASE ServeCallOrig
  BY <1>7 DEF ServeCallOrig, Turn, GlOutcomes, SetErrorCode
<1>8. CASE ServeExecute
  BY <1>8 DEF ServeExecute, Turn
<1>9. CASE LeaveByExecute
  BY <1>9 DEF LeaveByExecute, CallUnlocked, GlOutcomes
<1>10. CASE ServeAux
  BY <1>10 DEF ServeAux, Turn, GlOutcomes, SetErrorCode
<1>11. CASE ServeUnknown
  BY <1>11 DEF ServeUnknown
<1>12. CASE Exec
  BY <1>12 DEF Exec, StopWith
<1>13. CASE AppExit
  BY <1>13 DEF AppExit
<1>14. CASE ExecFails
  BY <1>14 DEF ExecFails
<1>15. CASE AppFault
  BY <1>15 DEF AppFault, StopWith
<1>16. CASE AppFork
  BY <1>16 DEF AppFork, StopWith
<1>17. ASSUME NEW f \in Calls, EnterHook(f) PROVE ShownInv'
  BY <1>17 DEF EnterHook
<1>18. CASE StoreErrorItem
  BY <1>18 DEF StoreErrorItem, Erring
<1> QED
  BY <1>1, <1>2, <1>3, <1>4, <1>5, <1>6, <1>7, <1>8, <1>9, <1>10, <1>11, <1>12,
     <1>13, <1>14, <1>15, <1>16, <1>17, <1>18
  DEF HookNext, InHook, AppContinues

(* A step the debugger takes by itself keeps the call of the hook on display. *)
LEMMA ControlShows ==
  ASSUME Undisturbed, Noticed, NoJumps, QInv, PInv', ControlStep
  PROVE  ShownInv'
<1> USE CallsAssumption
    DEF rec, os, gui, hook, Running, Bump, QInv, ShownInv, NoJumps, AtTrace, PInv,
        GoneInv, Noticed, Idle, TypeOK, IInv, LockInv, CommandInv, ContInv,
        WaitInv, ReplyInv, RunInv, RestInv, ErrorInv, LockedInLoop, CommandLoop,
        Dead, Moving, Held, Stopped, Faulted, HeldAt, Arriving, Serving,
        Acknowledging, Acknowledged, Roaming, Launching, OperationOf, StepCmds,
        Executed, Untraced, DoneDue, ModeSet, Undisturbed, Modes, Errors,
        MaxTimes, NoTraceHandlers, Dones, AuxCmds
<1>1. CASE ExecWait
  BY <1>1 DEF ExecWait, LaunchFailed, Idle, StatusIsNone, Waitpid, WaitpidReturns
<1>2. CASE Cont
  BY <1>2 DEF Cont, PtraceCont
<1>3. CASE Wait
  BY <1>3 DEF Wait, StatusIsNone, Waitpid, WaitpidReturns, LaunchFailed, Abort,
     KillProgram, Idle
<1>4. CASE ReplyStart
  BY <1>4 DEF ReplyStart, Idle, Reply
<1>5. CASE ReplyOrig
  BY <1>5 DEF ReplyOrig, Reply, Abort, KillProgram, SendInStep, Send, CheckError,
     IsErrorCritical
<1>6. CASE ReplyAuxStep
  BY <1>6 DEF ReplyAuxStep, Abort, KillProgram, SendInStep, Send, CheckError,
     IsErrorCritical
<1>7. CASE ReplyDone
  BY <1>7 DEF ReplyDone, Abort, KillProgram, GetNextCall, NextCallShown, Send, Idle,
     DoneError, CheckError, IsErrorCritical
<1>8. CASE ReplyAuxNext
  BY <1>8 DEF ReplyAuxNext, Reply, Abort, KillProgram, NextCallShown, Idle
<1>9. CASE ReplyAuxIdle
  BY <1>9 DEF ReplyAuxIdle, Reply, Idle
<1>10. CASE LoopEnds
  BY <1>10 DEF LoopEnds, Idle, Reached
<1>11. CASE LoopGoesOn
  BY <1>11 DEF LoopGoesOn, SingleStep, Send, Reached
<1>12. CASE ProcessEventsReturns
  BY <1>12 DEF ProcessEventsReturns
<1>13. CASE ReplyExec
  BY <1>13 DEF ReplyExec, Reply
<1>14. CASE Resume
  BY <1>14 DEF Resume, PtraceCont
<1>15. CASE CheckExecuteState
  BY <1>15 DEF CheckExecuteState, Abort, KillProgram, CheckError, IsErrorCritical
<1>16. CASE ChildAlive
  BY <1>16 DEF ChildAlive, Abort, KillProgram, Waitpid
<1>17. CASE FinalWait
  BY <1>17 DEF FinalWait, Waitpid, GetNextCall, NextCallShown, Send, Idle,
     WaitpidReturns
<1>18. CASE ExecuteContinueOnError
  BY <1>18 DEF ExecuteContinueOnError, PtraceCont
<1>19. CASE ErrorWait
  BY <1>19 DEF ErrorWait, Waitpid, Send
<1>20. CASE KillReturns
  BY <1>20 DEF KillReturns, Idle
<1> QED
  BY <1>1, <1>2, <1>3, <1>4, <1>5, <1>6, <1>7, <1>8, <1>9, <1>10, <1>11, <1>12,
     <1>13, <1>14, <1>15, <1>16, <1>17, <1>18, <1>19, <1>20
  DEF ControlStep

(* A click keeps the call of the hook on display.                          *)
LEMMA ClickShows ==
  ASSUME Undisturbed, Noticed, NoJumps, QInv, PInv', Clicks
  PROVE  ShownInv'
<1> USE CallsAssumption
    DEF rec, os, gui, hook, Running, Bump, QInv, ShownInv, NoJumps, AtTrace, PInv,
        GoneInv, Noticed, Idle, TypeOK, IInv, LockInv, CommandInv, ContInv,
        WaitInv, ReplyInv, RunInv, RestInv, ErrorInv, LockedInLoop, CommandLoop,
        Dead, Moving, Held, Stopped, Faulted, HeldAt, Arriving, Serving,
        Acknowledging, Acknowledged, Roaming, Launching, OperationOf, StepCmds,
        Executed, Untraced, DoneDue, ModeSet, Undisturbed, Modes, Errors,
        MaxTimes, NoTraceHandlers, Dones, AuxCmds
<1>1. CASE Launch
  BY <1>1 DEF Launch
<1>2. CASE StepClicked
  BY <1>2 DEF StepClicked, SingleStep, Send, AtTrace
<1>3. CASE RunClicked
  BY <1>3 DEF RunClicked, SingleStep, Send, AtTrace
<1>4. CASE JumpClicked
  BY <1>4 DEF JumpClicked, SingleStep, Send, Targets, AtTrace
<1>5. CASE SkipClicked
  BY <1>5 DEF SkipClicked, Send, Abort, KillProgram, AtTrace
<1>6. CASE CaptureClicked
  BY <1>6 DEF CaptureClicked, Send, AtTrace
<1>7. CASE ExecuteClicked
  BY <1>7 DEF ExecuteClicked, KillProgram
<1>8. CASE PauseClicked
  BY <1>8 DEF PauseClicked
<1>9. ASSUME NEW mode \in NoTraceModes, NEW halt \in Halts, NEW f \in Calls,
             NoTraceClicked(mode, halt, f)
      PROVE  ShownInv'
  BY <1>9, ControlAssumption DEF NoTraceClicked, Send, Abort, KillProgram, AtTrace
<1> QED
  BY <1>1, <1>2, <1>3, <1>4, <1>5, <1>6, <1>7, <1>8, <1>9
  DEF Clicks

(* Every step preserves the invariant behind TraceIsParked.                *)
LEMMA StepShows ==
  ASSUME Undisturbed, Noticed, NoJumps, QInv, [Next]_vars
  PROVE  QInv'
<1> PInv'
  BY StepNotices DEF QInv
<1>1. CASE HookNext
  BY <1>1, HookShows DEF QInv
<1>2. CASE ControlStep
  BY <1>2, ControlShows DEF QInv
<1>3. CASE Clicks
  BY <1>3, ClickShows DEF QInv
<1>4. CASE UNCHANGED vars
  BY <1>4 DEF vars, QInv, ShownInv, Untraced
<1> QED
  BY <1>1, <1>2, <1>3, <1>4 DEF Next, ControlNext

(* The invariant behind TraceIsParked: what the debuggee does while the     *)
(* debugger has the user's call on display or waits for the next one.       *)
THEOREM Parked_inductive ==
  ASSUME Undisturbed, Noticed, NoJumps PROVE Spec => []QInv
<1>1. Init => QInv
  BY InitInductive, CallsAssumption
  DEF Init, QInv, PInv, GoneInv, ErrorInv, ShownInv, Untraced, NoTraceHandlers
<1>2. QInv /\ [Next]_vars => QInv'
  BY StepShows
<1> QED
  BY <1>1, <1>2, PTL DEF Spec

(* In a session without jumps the user at RL_TRACE_EXECUTE faces a         *)
(* debuggee that is stopped in the command loop of the call on display.    *)
THEOREM Trace_is_parked ==
  ASSUME Undisturbed, Noticed, NoJumps PROVE Spec => []TraceIsParked
<1>1. QInv => TraceIsParked
  BY CallsAssumption
  DEF QInv, PInv, IInv, TypeOK, RestInv, ErrorInv, GoneInv, ShownInv,
      TraceIsParked, AtTrace, HeldAt, Held, Dead, Untraced
<1> QED
  BY <1>1, Parked_inductive, PTL
=============================================================================
