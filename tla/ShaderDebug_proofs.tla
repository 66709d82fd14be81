--------------------------- MODULE ShaderDebug_proofs ---------------------------
(***************************************************************************)
(* Theorems about ShaderDebug, for every frame, every set of stages and    *)
(* every set of faults, unless a theorem states what it supposes.          *)
(***************************************************************************)
EXTENDS ShaderDebug, RenderState_proofs

(* The calls of a frame.                                                   *)
LEMMA FrameCalls ==
    /\ Len(Frame) \in Nat \ {0} /\ DOMAIN Frame = 1 .. Len(Frame)
    /\ \A i \in DOMAIN Frame : Frame[i] \in CallKinds
    /\ Frame[1] \notin {"vertex", "end"}
<1>1. /\ Len(Frame) \in Nat \ {0} /\ DOMAIN Frame = 1 .. Len(Frame)
      /\ \A i \in DOMAIN Frame : Frame[i] \in CallKinds
  BY ShaderDebugAssumption
<1>2. 1 \in DOMAIN Frame /\ ~(1 > 1)
  BY <1>1
<1> QED
  BY <1>1, <1>2, ShaderDebugAssumption

(* A freshly started debuggee.                                             *)
LEMMA FreshTyped == Fresh \in GlStates
BY RenderAssumption DEF Fresh, GlStates, Programs, Kinds

(* The kind of a stage's target.                                           *)
LEMMA KindTyped == \A s : Kind(s) \in Kinds
BY DEF Kind, Kinds

(* The end of a session.                                                   *)
LEMMA GoneTyped ==
    ASSUME Gone
    PROVE  gl' \in GlStates /\ alive' \in BOOLEAN /\ at' \in DOMAIN Frame
           /\ called' \in Seq(CallKinds)
<1>1. 1 \in DOMAIN Frame /\ <<>> \in Seq(CallKinds)
  BY FrameCalls
<1> QED
  BY <1>1, FreshTyped DEF Gone

(* What a debuggee answers, if there is one.                               *)
LEMMA AnswerTyped ==
    ASSUME NEW S \in SUBSET Outcomes, TypeOK
    PROVE  \A o \in Answer(S) :
             o.gl \in GlStates /\ o.err \in {"none", "gl", "critical"}
BY DEF Answer, Outcome, Outcomes, TypeOK

(* A command that goes on at a control point of the session.               *)
LEMMA CommandTyped ==
    ASSUME NEW S \in SUBSET Outcomes, NEW next \in Points, NEW onError \in Points,
           TypeOK, CommandOr(S, next, onError)
    PROVE  TypeOK'
<1>1. UNCHANGED <<tab, type, objects, after>>
  BY DEF CommandOr
<1>2. CASE Kill
  BY <1>1, <1>2, GoneTyped DEF Kill, TypeOK, Levels, Points
<1>3. CASE ~Kill
  <2>1. gl' \in GlStates /\ pc' \in {next, onError} /\ UNCHANGED <<alive, level, app>>
    BY <1>3, AnswerTyped DEF CommandOr
  <2> QED
    BY <1>1, <2>1 DEF TypeOK, app
<1> QED
  BY <1>2, <1>3

(* The next call.                                                          *)
LEMMA AdvanceTyped ==
    ASSUME TypeOK, NEW g \in GlStates, NEW e \in BOOLEAN, Advance(g, e)
    PROVE  gl' \in GlStates /\ at' \in DOMAIN Frame /\ called' \in Seq(CallKinds)
<1>1. [g EXCEPT !.image = <<>>] \in GlStates
  <2>1. <<>> \in Seq(Effects)
    OBVIOUS
  <2> QED
    BY <2>1 DEF GlStates
<1>2. gl' \in GlStates
  BY <1>1 DEF Advance
<1>3. at' \in DOMAIN Frame
  BY FrameCalls DEF Advance, TypeOK
<1>4. Append(called, Frame[at]) \in Seq(CallKinds) /\ <<>> \in Seq(CallKinds)
  BY FrameCalls DEF TypeOK
<1>5. called' \in Seq(CallKinds)
  BY <1>4 DEF Advance, TypeOK
<1> QED
  BY <1>2, <1>3, <1>5

(* Every step of a handler preserves the types.                            *)
LEMMA HandlerTyped == TypeOK /\ Handler => TypeOK'
<1> SUFFICES ASSUME TypeOK, Handler PROVE TypeOK'
  OBVIOUS
<1>0. /\ gl \in GlStates /\ Kind(tab) \in Kinds /\ Kind(type) \in Kinds
      /\ Frame[at] \in CallKinds
  BY KindTyped, FrameCalls DEF TypeOK
<1>a. \A i : SubLevel(i) \in Levels
  BY DEF SubLevel, Levels, Trace
<1>1. CASE LeaveShader
  BY <1>0, <1>1, ShaderTyped, CommandTyped DEF LeaveShader, Command, Points
<1>2. CASE LeaveQueries
  BY <1>0, <1>2, QueriesTyped, CommandTyped DEF LeaveQueries, Command, Points
<1>3. CASE LeaveReplay
  BY <1>0, <1>3, RecordingTyped, CommandTyped DEF LeaveReplay, Command, Points
<1>4. CASE AppCall
  <2>1. PICK o \in Answer((IF after = "skip" THEN Ok(gl)
                          ELSE Ok(Execute(gl, <<Frame[at]>>))) \cup Dies(gl)) :
          \/ o.err = "critical" /\ Kill
          \/ /\ o.err = "none"
             /\ Advance(o.gl, after = "step")
             /\ level' = SubLevel(at') /\ pc' = "idle"
             /\ UNCHANGED alive
    BY <1>4 DEF AppCall
  <2>2. after' = "step" /\ UNCHANGED <<tab, type, objects>>
    BY <1>4 DEF AppCall
  <2>3. Execute(gl, <<Frame[at]>>) \in GlStates
    <3>1. <<Frame[at]>> \in Seq(CallKinds)
      BY <1>0
    <3> QED
      BY <1>0, <3>1, ExecuteTyped
  <2>4. (IF after = "skip" THEN Ok(gl)
         ELSE Ok(Execute(gl, <<Frame[at]>>))) \cup Dies(gl) \subseteq Outcomes
    BY <1>0, <2>3, RenderAssumption DEF Ok, Dies, Outcome, Outcomes
  <2>5. o.gl \in GlStates
    BY <2>4, AnswerTyped
  <2>6. CASE Kill
    BY <2>2, <2>6, GoneTyped DEF Kill, TypeOK, Levels, Points
  <2>7. CASE ~Kill
    <3>1. Advance(o.gl, after = "step") /\ level' = SubLevel(at') /\ pc' = "idle"
          /\ UNCHANGED alive
      BY <2>1, <2>7
    <3>2. gl' \in GlStates /\ at' \in DOMAIN Frame /\ called' \in Seq(CallKinds)
      BY <2>5, <3>1, AdvanceTyped
    <3> QED
      BY <1>a, <2>2, <3>1, <3>2 DEF TypeOK, Points
  <2> QED
    BY <2>6, <2>7
<1>5. CASE Interrupt
  BY <1>0, <1>5, QueriesTyped, CommandTyped DEF Interrupt, Command, Points
<1>6. CASE SetDbgTarget
  <2>1. UNCHANGED <<tab, type, objects, after>>
    BY <1>6 DEF SetDbgTarget
  <2>2. CASE Kill
    BY <2>1, <2>2, GoneTyped DEF Kill, TypeOK, Levels, Points
  <2>3. CASE ~Kill
    <3>1. SetTarget(gl, Kind(type)) \subseteq Outcomes
      BY <1>0, TargetTyped
    <3>2. gl' \in GlStates /\ level' \in {"restart", "record", level}
          /\ pc' \in {"idle", "store", "enter"} /\ UNCHANGED <<alive, app>>
      BY <1>6, <2>3, <3>1, AnswerTyped DEF SetDbgTarget
    <3> QED
      BY <2>1, <3>2 DEF TypeOK, Levels, Points, app
  <2> QED
    BY <2>2, <2>3
<1>7. CASE Store
  BY <1>0, <1>7, ShaderTyped, CommandTyped DEF Store, Command, Points
<1>8. CASE InitRecording
  <2>1. StartRecording(gl) \subseteq Outcomes
    BY <1>0, RecordingTyped
  <2>2. gl' \in GlStates /\ alive' \in BOOLEAN
    BY <1>8, <2>1, AnswerTyped DEF InitRecording
  <2> QED
    BY <1>8, <2>2 DEF InitRecording, TypeOK, Points, app
<1>9. CASE RecordCall
  <2>1. UNCHANGED <<tab, type, objects, after>>
    BY <1>9 DEF RecordCall
  <2>2. CASE Kill
    BY <2>1, <2>2, GoneTyped DEF Kill, TypeOK, Levels, Points
  <2>3. CASE ~Kill
    <3>1. Record(gl, Frame[at]) \subseteq Outcomes
      BY <1>0, RecordingTyped
    <3>2. PICK g \in GlStates : Advance(g, TRUE)
      BY <1>9, <2>3, <3>1, AnswerTyped DEF RecordCall
    <3>3. gl' \in GlStates /\ at' \in DOMAIN Frame /\ called' \in Seq(CallKinds)
      BY <3>2, AdvanceTyped
    <3>4. pc' \in {"events", "enter", "idle"} /\ UNCHANGED <<alive, level>>
      BY <1>9, <2>3 DEF RecordCall
    <3> QED
      BY <2>1, <3>3, <3>4 DEF TypeOK, Points
  <2> QED
    BY <2>2, <2>3
<1>10. CASE EventsDone
  BY <1>10 DEF EventsDone, TypeOK, Points, app
<1>11. CASE AbortEnd
  BY <1>0, <1>11, RecordingTyped, CommandTyped DEF AbortEnd, Points
<1>12. CASE AbortTarget
  BY <1>0, <1>12, TargetTyped, CommandTyped DEF AbortTarget, Points
<1>13. CASE AbortShader
  BY <1>0, <1>13, ShaderTyped, CommandTyped DEF AbortShader, Points
<1>14. CASE AbortReplay
  BY <1>0, <1>14, RecordingTyped, CommandTyped DEF AbortReplay, Command, Points
<1>15. CASE Enter
  BY <1>15 DEF Enter, TypeOK, Points, Levels, app
<1>16. CASE ReadBack
  <2>1. UNCHANGED <<tab, type, after>>
    BY <1>16 DEF ReadBack
  <2>2. CASE Gone
    BY <1>16, <2>1, <2>2, GoneTyped DEF ReadBack, TypeOK, Levels, Points
  <2>3. CASE ~Gone
    <3>1. Kind(level) \in Kinds
      BY KindTyped
    <3>2. ShaderStep(gl, Kind(level)) \subseteq Outcomes
      BY <1>0, <3>1, StepTyped
    <3>3. gl' \in GlStates /\ pc' \in {"idle", "cleanup"}
          /\ UNCHANGED <<alive, level, objects, app>>
      BY <1>16, <2>3, <3>2, AnswerTyped DEF ReadBack
    <3> QED
      BY <2>1, <3>3 DEF TypeOK, Points, app
  <2> QED
    BY <2>2, <2>3
<1>17. CASE CleanupDBGShader
  <2>1. /\ UNCHANGED <<tab, type, after>>
        /\ level' = "restart" /\ objects' = FALSE /\ pc' = "idle"
    BY <1>17 DEF CleanupDBGShader
  <2>2. CASE Gone
    BY <2>1, <2>2, GoneTyped DEF TypeOK, Levels, Points
  <2>3. CASE ~Gone
    <3>1. Kind(level) \in Kinds
      BY KindTyped
    <3>2. RestoreTarget(gl, Kind(level)) \subseteq Outcomes
      BY <1>0, <3>1, TargetTyped
    <3>3. gl' \in GlStates /\ UNCHANGED <<alive, app>>
      BY <1>17, <2>3, <3>2, AnswerTyped DEF CleanupDBGShader
    <3> QED
      BY <2>1, <3>3 DEF TypeOK, Levels, Points, app
  <2> QED
    BY <2>2, <2>3
<1> QED
  BY <1>1, <1>2, <1>3, <1>4, <1>5, <1>6, <1>7, <1>8, <1>9, <1>10, <1>11, <1>12,
     <1>13, <1>14, <1>15, <1>16, <1>17 DEF Handler

(* Every click preserves the types.                                        *)
LEMMA UserTyped == TypeOK /\ User => TypeOK'
<1> SUFFICES ASSUME TypeOK, User PROVE TypeOK'
  OBVIOUS
<1>a. /\ \A i : SubLevel(i) \in Levels
      /\ 1 \in DOMAIN Frame /\ <<>> \in Seq(CallKinds)
  BY FrameCalls DEF SubLevel, Levels, Trace
<1>1. CASE ExecuteClicked
  <2>1. objects' = FALSE /\ UNCHANGED <<tab, type, after>>
    BY <1>1 DEF ExecuteClicked
  <2>2. CASE Launched
    BY <1>a, <2>1, <2>2, FreshTyped DEF Launched, TypeOK, Points
  <2>3. CASE Kill
    BY <2>1, <2>3, GoneTyped DEF Kill, TypeOK, Points, Levels
  <2> QED
    BY <1>1, <2>2, <2>3 DEF ExecuteClicked
<1>2. CASE OpenAccepted
  BY <1>2, GoneTyped DEF OpenAccepted, Kill, TypeOK, Points, Levels
<1>3. CASE OpenCancelled
  <2>1. objects' = FALSE /\ UNCHANGED <<tab, type, after>>
    BY <1>3 DEF OpenCancelled
  <2>2. CASE Kill
    BY <2>1, <2>2, GoneTyped DEF Kill, TypeOK, Points, Levels
  <2>3. CASE ~Kill
    <3>1. RestoreTarget(gl, Kind(level)) \subseteq Outcomes
      BY KindTyped, TargetTyped DEF TypeOK
    <3>2. gl' \in GlStates /\ UNCHANGED <<alive, level, pc, app>>
      BY <1>3, <2>3, <3>1, AnswerTyped DEF OpenCancelled
    <3> QED
      BY <2>1, <3>2 DEF TypeOK, app
  <2> QED
    BY <2>2, <2>3
<1>4. CASE SelectTab
  BY <1>4 DEF SelectTab, TypeOK, app
<1>5. CASE StepClicked
  BY <1>5 DEF StepClicked, Traced, TypeOK, Points, app
<1>6. CASE SkipClicked
  BY <1>6 DEF SkipClicked, Traced, TypeOK, Points, app
<1>7. CASE ShaderExecuteClicked
  BY <1>7 DEF ShaderExecuteClicked, TypeOK, Points, app
<1>8. CASE ShaderStepClicked
  BY <1>8 DEF ShaderStepClicked, TypeOK, Points, app
<1>9. CASE PauseClicked
  BY <1>9, <1>a DEF PauseClicked, TypeOK, app
<1> QED
  BY <1>1, <1>2, <1>3, <1>4, <1>5, <1>6, <1>7, <1>8, <1>9 DEF User

(* Whatever the user clicks and whatever fails, the handlers, the run      *)
(* level and the debuggee's GL state stay within what the code provides    *)
(* for.                                                                    *)
THEOREM TypeCorrect == Spec => []TypeOK
<1>1. Init => TypeOK
  <2>1. 1 \in DOMAIN Frame /\ <<>> \in Seq(CallKinds)
    BY FrameCalls
  <2> QED
    BY <2>1, FreshTyped DEF Init, TypeOK, Levels, Points
<1>2. TypeOK /\ [Next]_vars => TypeOK'
  <2>1. TypeOK /\ UNCHANGED vars => TypeOK'
    BY DEF TypeOK, vars, dbg, app
  <2> QED
    BY <2>1, HandlerTyped, UserTyped DEF Next
<1> QED
  BY <1>1, <1>2, PTL DEF Spec
-----------------------------------------------------------------------------
(* A compiler and a variable model of a debugged shader exist only at its  *)
(* run level, where the handlers are those that are about it.              *)
LEMMA Objects_inductive == Spec => []ObjectsInv
<1> USE ShaderDebugAssumption DEF Trace
<1>1. Init => ObjectsInv
  BY DEF Init, ObjectsInv, NoStaleObjects
<1>2. TypeOK /\ ObjectsInv /\ [Next]_vars => ObjectsInv'
  <2> SUFFICES ASSUME TypeOK, ObjectsInv, [Next]_vars PROVE ObjectsInv'
    OBVIOUS
  <2> USE DEF ObjectsInv, NoStaleObjects, Command, CommandOr, Kill
  <2>a. \A i : SubLevel(i) \notin Stages
    BY DEF SubLevel
  <2>1. CASE LeaveShader
    BY <2>1, <2>a DEF LeaveShader
  <2>2. CASE LeaveQueries
    BY <2>2, <2>a DEF LeaveQueries
  <2>3. CASE LeaveReplay
    BY <2>3, <2>a DEF LeaveReplay
  <2>4. CASE AppCall
    BY <2>4, <2>a DEF AppCall
  <2>5. CASE Interrupt
    BY <2>5, <2>a DEF Interrupt
  <2>6. CASE SetDbgTarget
    BY <2>6, <2>a DEF SetDbgTarget
  <2>7. CASE Store
    BY <2>7, <2>a DEF Store
  <2>8. CASE InitRecording
    BY <2>8, <2>a DEF InitRecording
  <2>9. CASE RecordCall
    BY <2>9, <2>a DEF RecordCall
  <2>10. CASE EventsDone
    BY <2>10, <2>a DEF EventsDone
  <2>11. CASE AbortEnd
    BY <2>11, <2>a DEF AbortEnd
  <2>12. CASE AbortTarget
    BY <2>12, <2>a DEF AbortTarget
  <2>13. CASE AbortShader
    BY <2>13, <2>a DEF AbortShader
  <2>14. CASE AbortReplay
    BY <2>14, <2>a DEF AbortReplay
  <2>15. CASE Enter
    BY <2>15, <2>a DEF Enter, TypeOK
  <2>16. CASE ReadBack
    BY <2>16, <2>a DEF ReadBack
  <2>17. CASE CleanupDBGShader
    BY <2>17, <2>a DEF CleanupDBGShader
  <2>18. CASE ExecuteClicked
    BY <2>18, <2>a DEF ExecuteClicked, Launched
  <2>19. CASE OpenAccepted
    BY <2>19, <2>a DEF OpenAccepted
  <2>20. CASE OpenCancelled
    BY <2>20, <2>a DEF OpenCancelled
  <2>21. CASE SelectTab
    BY <2>21, <2>a DEF SelectTab
  <2>22. CASE StepClicked
    BY <2>22, <2>a DEF StepClicked, Traced
  <2>23. CASE SkipClicked
    BY <2>23, <2>a DEF SkipClicked, Traced
  <2>24. CASE ShaderExecuteClicked
    BY <2>24, <2>a DEF ShaderExecuteClicked, TypeOK
  <2>25. CASE ShaderStepClicked
    BY <2>25, <2>a DEF ShaderStepClicked
  <2>26. CASE PauseClicked
    BY <2>26, <2>a DEF PauseClicked
  <2>27. CASE UNCHANGED vars
    BY <2>27 DEF vars, dbg
  <2> QED
    BY <2>1, <2>2, <2>3, <2>4, <2>5, <2>6, <2>7, <2>8, <2>9, <2>10, <2>11, <2>12,
       <2>13, <2>14, <2>15, <2>16, <2>17, <2>18, <2>19, <2>20, <2>21, <2>22,
       <2>23, <2>24, <2>25, <2>26, <2>27 DEF Next, Handler, User
<1> QED
  BY <1>1, <1>2, TypeCorrect, PTL DEF Spec

(* Outside shader debugging there is neither a compiler nor a variable     *)
(* model of a shader that was debugged before, however its debugging ended.*)
THEOREM No_stale_objects == Spec => []NoStaleObjects
<1>1. ObjectsInv => NoStaleObjects
  BY DEF ObjectsInv
<1> QED
  BY <1>1, Objects_inductive, PTL

-----------------------------------------------------------------------------
(* What is supposed of a session in which the debug library gives back all *)
(* it took: GL reports no errors, Open is not cancelled while a shader is  *)
(* debugged, and a recording is not interrupted just before glEnd, nor     *)
(* under the tab of another kind of shader.  The debuggee may die at every *)
(* command.                                                                *)
Undisturbed ==
    /\ "gl" \notin Faults
    /\ "cancel" \notin UserActs
    /\ "end" \notin PauseAt
    /\ \/ "tab" \notin UserActs \/ PauseAt = {}
       \/ \A s, t \in Stages : Kind(s) = Kind(t)

(* Inside a primitive the next call is one of it, and only there.          *)
LEMMA NextCall ==
    ASSUME NEW i \in DOMAIN Frame
    PROVE  Inside(Frame[i])
             <=> Frame[IF i = Len(Frame) THEN 1 ELSE i + 1] \in {"vertex", "end"}
<1>1. CASE i = Len(Frame)
  BY <1>1, FrameCalls, ShaderDebugAssumption DEF Inside
<1>2. CASE i # Len(Frame)
  <2>1. i + 1 \in DOMAIN Frame /\ i + 1 > 1 /\ i + 1 - 1 = i
    BY <1>2, FrameCalls
  <2> QED
    BY <1>2, <2>1, ShaderDebugAssumption
<1> QED
  BY <1>1, <1>2

(* What only the debuggee's end changes in a command.                      *)
rest == <<alive, tab, type, objects, after, level, at, called>>

(* A command that the debuggee survives.                                   *)
LEMMA CommandOrLive ==
    ASSUME NEW S, NEW next, NEW onError, CommandOr(S, next, onError), alive'
    PROVE  /\ UNCHANGED rest
           /\ alive
           /\ \E o \in S : /\ o.err # "critical" /\ gl' = o.gl
                         /\ pc' = IF o.err = "none" THEN next ELSE onError
BY DEF CommandOr, Kill, Gone, Answer, Outcome, app, rest

(* One that goes on at the same point after a GL error.                    *)
LEMMA CommandLive ==
    ASSUME NEW S, NEW next, Command(S, next), alive'
    PROVE  /\ UNCHANGED rest
           /\ alive
           /\ pc' = next
           /\ \E o \in S : o.err # "critical" /\ gl' = o.gl
BY DEF Command, CommandOr, Kill, Gone, Answer, Outcome, app, rest

(* The types that the steps need.                                          *)
LEMMA Typed ==
    ASSUME TypeOK
    PROVE  /\ gl \in GlStates /\ gl.open \in BOOLEAN /\ gl.feedback \in BOOLEAN
           /\ gl.recorded \in Seq(CallKinds) /\ Frame[at] \in CallKinds
           /\ \A s : Kind(s) \in Kinds /\ Kind(s) # "none"
           /\ level \in Levels /\ tab \in Stages /\ type \in Stages
BY KindTyped, FrameCalls DEF TypeOK, GlStates, Kind, Kinds

(* What they need of the assumptions.                                      *)
LEMMA Fine ==
    ASSUME Undisturbed
    PROVE  /\ "gl" \notin Faults /\ "cancel" \notin UserActs /\ "end" \notin PauseAt
           /\ Stages \cap (Trace \cup {"setup", "record", "restart"}) = {}
           /\ Frame[1] \notin {"vertex", "end"}
<1>1. "gl" \notin Faults /\ "cancel" \notin UserActs /\ "end" \notin PauseAt
  BY DEF Undisturbed
<1>2. Stages \cap (Trace \cup {"setup", "record", "restart"}) = {}
  BY ShaderDebugAssumption DEF Trace
<1> QED
  BY <1>1, <1>2, FrameCalls

(* What each step of a handler does to the GL state in such a session.     *)
(* The application's shader is in use again.                               *)
LEMMA LeaveShaderStep ==
    ASSUME Undisturbed, TypeOK, SInv, LeaveShader, alive'
    PROVE  /\ pc = "leaveShader" /\ alive /\ UNCHANGED rest
           /\ ~gl.open /\ ~gl.feedback /\ gl.stored = "app"
           /\ pc' = "leaveQueries"
           /\ gl' = [gl EXCEPT !.program = gl.stored, !.stored = "none"]
<1>1. pc = "leaveShader" /\ alive /\ UNCHANGED rest
  BY CommandLive DEF LeaveShader
<1>2. ~gl.open /\ ~gl.feedback /\ gl.stored = "app"
  BY <1>1, Typed DEF SInv, DebugInv, Holds
<1>3. PICK o \in RestoreShader(gl) : /\ o.err # "critical" /\ gl' = o.gl
          /\ pc' = "leaveQueries"
  BY CommandLive DEF LeaveShader
<1>4. pc' = "leaveQueries" /\ gl' = [gl EXCEPT !.program = gl.stored, !.stored = "none"]
  BY <1>2, <1>3, Typed, Fine, ShaderWorks
<1> QED
  BY <1>1, <1>2, <1>4

(* The queries run again.                                                  *)
LEMMA LeaveQueriesStep ==
    ASSUME Undisturbed, TypeOK, SInv, LeaveQueries, alive'
    PROVE  /\ pc = "leaveQueries" /\ alive /\ UNCHANGED rest
           /\ ~gl.open
           /\ pc' = "leaveReplay"
           /\ gl' = [gl EXCEPT !.query = IF gl.marked THEN "running" ELSE @]
<1>1. pc = "leaveQueries" /\ alive /\ UNCHANGED rest
  BY CommandLive DEF LeaveQueries
<1>2. ~gl.open
  BY <1>1, Typed DEF SInv, LeaveInv
<1>3. PICK o \in RestartQueries(gl) : /\ o.err # "critical" /\ gl' = o.gl
          /\ pc' = "leaveReplay"
  BY CommandLive DEF LeaveQueries
<1>4. pc' = "leaveReplay" /\ gl' = [gl EXCEPT !.query = IF gl.marked THEN "running" ELSE @]
  BY <1>2, <1>3, Typed, Fine, QueriesWork
<1> QED
  BY <1>1, <1>2, <1>4

(* The recording is drawn.                                                 *)
LEMMA LeaveReplayStep ==
    ASSUME Undisturbed, TypeOK, SInv, LeaveReplay, alive'
    PROVE  /\ pc = "leaveReplay" /\ alive /\ UNCHANGED rest
           /\ Complete(gl.recorded) /\ Holds("none", "none") /\ gl.program = "app"
           /\ pc' = "app"
           /\ gl' = [Execute(gl, gl.recorded) EXCEPT !.recorded = <<>>]
<1>1. pc = "leaveReplay" /\ alive /\ UNCHANGED rest
  BY CommandLive DEF LeaveReplay
<1>2. Complete(gl.recorded) /\ Holds("none", "none") /\ gl.program = "app"
  BY <1>1, Typed DEF SInv, LeaveInv
<1>3. PICK o \in EndReplay(gl) : /\ o.err # "critical" /\ gl' = o.gl
          /\ pc' = "app"
  BY CommandLive DEF LeaveReplay
<1>4. pc' = "app" /\ gl' = [Execute(gl, gl.recorded) EXCEPT !.recorded = <<>>]
  BY <1>2, <1>3, Typed, Fine, RecordingWorks
<1> QED
  BY <1>1, <1>2, <1>4

(* The queries stop.                                                       *)
LEMMA InterruptStep ==
    ASSUME Undisturbed, TypeOK, SInv, Interrupt, alive'
    PROVE  /\ pc = "interrupt" /\ alive /\ UNCHANGED rest
           /\ ~gl.open
           /\ pc' = "target"
           /\ gl' = [gl EXCEPT !.query = "stopped", !.marked = gl.query = "running"]
<1>1. pc = "interrupt" /\ alive /\ UNCHANGED rest
  BY CommandLive DEF Interrupt
<1>2. ~gl.open
  BY <1>1, Typed DEF SInv, LevelInv, TraceInv, Debuggable, Primitive
<1>3. PICK o \in InterruptQueries(gl) : /\ o.err # "critical" /\ gl' = o.gl
          /\ pc' = "target"
  BY CommandLive DEF Interrupt
<1>4. pc' = "target" /\ gl' = [gl EXCEPT !.query = "stopped", !.marked = gl.query = "running"]
  BY <1>2, <1>3, Typed, Fine, QueriesWork
<1> QED
  BY <1>1, <1>2, <1>4

(* The application's shader is put aside.                                  *)
LEMMA StoreStep ==
    ASSUME Undisturbed, TypeOK, SInv, Store, alive'
    PROVE  /\ pc = "store" /\ alive /\ UNCHANGED rest
           /\ gl.program = "app"
           /\ pc' = "start"
           /\ gl' = [gl EXCEPT !.stored = gl.program]
<1>1. pc = "store" /\ alive /\ UNCHANGED rest
  BY CommandLive DEF Store
<1>2. gl.program = "app"
  BY <1>1, Typed DEF SInv, StartInv
<1>3. PICK o \in StoreShader(gl) : /\ o.err # "critical" /\ gl' = o.gl
          /\ pc' = "start"
  BY CommandLive DEF Store
<1>4. pc' = "start" /\ gl' = [gl EXCEPT !.stored = gl.program]
  BY <1>2, <1>3, Typed, Fine, ShaderWorks
<1> QED
  BY <1>1, <1>2, <1>4

(* The primitive is ended.                                                 *)
LEMMA AbortEndStep ==
    ASSUME Undisturbed, TypeOK, SInv, AbortEnd, alive'
    PROVE  /\ pc = "abortEnd" /\ alive /\ UNCHANGED rest
           /\ gl.open /\ gl.target = Kind(tab)
           /\ pc' = "abortTarget"
           /\ gl' = Execute(gl, <<"end">>)
<1>1. pc = "abortEnd" /\ alive /\ UNCHANGED rest
  BY CommandOrLive DEF AbortEnd
<1>2. gl.open /\ gl.target = Kind(tab)
  BY <1>1, Typed DEF SInv, AbortInv, Holds
<1>3. PICK o \in CallGlEnd(gl) : /\ o.err # "critical" /\ gl' = o.gl
          /\ pc' = IF o.err = "none" THEN "abortTarget" ELSE "idle"
  BY CommandOrLive DEF AbortEnd
<1>4. pc' = "abortTarget" /\ gl' = Execute(gl, <<"end">>)
  BY <1>2, <1>3, Typed, Fine, RecordingWorks
<1> QED
  BY <1>1, <1>2, <1>4

(* The target is given back.                                               *)
LEMMA AbortTargetStep ==
    ASSUME Undisturbed, TypeOK, SInv, AbortTarget, alive'
    PROVE  /\ pc = "abortTarget" /\ alive /\ UNCHANGED rest
           /\ ~gl.open /\ gl.pushed = 1 /\ gl.target = Kind(tab) /\ Kind(tab) \in Kinds
           /\ pc' = "abortShader"
           /\ gl' = [gl EXCEPT !.target = "none", !.pushed = 0]
<1>1. pc = "abortTarget" /\ alive /\ UNCHANGED rest
  BY CommandOrLive DEF AbortTarget
<1>2. ~gl.open /\ gl.pushed = 1 /\ gl.target = Kind(tab) /\ Kind(tab) \in Kinds
  BY <1>1, Typed DEF SInv, AbortInv, Holds
<1>3. PICK o \in RestoreTarget(gl, Kind(tab)) : /\ o.err # "critical" /\ gl' = o.gl
          /\ pc' = IF o.err = "none" THEN "abortShader" ELSE "idle"
  BY CommandOrLive DEF AbortTarget
<1>4. pc' = "abortShader" /\ gl' = [gl EXCEPT !.target = "none", !.pushed = 0]
  BY <1>2, <1>3, Typed, Fine, RestoreTargetWorks
<1> QED
  BY <1>1, <1>2, <1>4

(* The application's shader is in use again.                               *)
LEMMA AbortShaderStep ==
    ASSUME Undisturbed, TypeOK, SInv, AbortShader, alive'
    PROVE  /\ pc = "abortShader" /\ alive /\ UNCHANGED rest
           /\ ~gl.open /\ ~gl.feedback /\ gl.stored = "app"
           /\ pc' = "abortReplay"
           /\ gl' = [gl EXCEPT !.program = gl.stored, !.stored = "none"]
<1>1. pc = "abortShader" /\ alive /\ UNCHANGED rest
  BY CommandOrLive DEF AbortShader
<1>2. ~gl.open /\ ~gl.feedback /\ gl.stored = "app"
  BY <1>1, Typed DEF SInv, AbortInv, Holds
<1>3. PICK o \in RestoreShader(gl) : /\ o.err # "critical" /\ gl' = o.gl
          /\ pc' = IF o.err = "none" THEN "abortReplay" ELSE "idle"
  BY CommandOrLive DEF AbortShader
<1>4. pc' = "abortReplay" /\ gl' = [gl EXCEPT !.program = gl.stored, !.stored = "none"]
  BY <1>2, <1>3, Typed, Fine, ShaderWorks
<1> QED
  BY <1>1, <1>2, <1>4

(* The part that was recorded is drawn.                                    *)
LEMMA AbortReplayStep ==
    ASSUME Undisturbed, TypeOK, SInv, AbortReplay, alive'
    PROVE  /\ pc = "abortReplay" /\ alive /\ UNCHANGED rest
           /\ Unfinished(gl.recorded) /\ Holds("none", "none") /\ gl.program = "app"
           /\ pc' = "idle"
           /\ gl' = [Execute(gl, gl.recorded) EXCEPT !.recorded = <<>>]
<1>1. pc = "abortReplay" /\ alive /\ UNCHANGED rest
  BY CommandLive DEF AbortReplay
<1>2. Unfinished(gl.recorded) /\ Holds("none", "none") /\ gl.program = "app"
  BY <1>1, Typed DEF SInv, AbortInv
<1>3. PICK o \in EndReplay(gl) : /\ o.err # "critical" /\ gl' = o.gl
          /\ pc' = "idle"
  BY CommandLive DEF AbortReplay
<1>4. pc' = "idle" /\ gl' = [Execute(gl, gl.recorded) EXCEPT !.recorded = <<>>]
  BY <1>2, <1>3, Typed, Fine, RecordingWorks
<1> QED
  BY <1>1, <1>2, <1>4

(* The stopped call is executed, or skipped.                               *)
LEMMA AppCallStep ==
    ASSUME Undisturbed, TypeOK, SInv, AppCall, alive'
    PROVE  /\ pc = "app" /\ alive /\ level \in Trace \cup {"restart"} /\ ~objects
           /\ UNCHANGED <<alive, tab, type, objects>>
           /\ Holds("none", "none") /\ gl.program = "app" /\ gl.recorded = <<>>
           /\ gl.open <=> Primitive(at)
           /\ after = "skip" => Frame[at] \in {"draw", "other"}
           /\ pc' = "idle" /\ level' = SubLevel(at')
           /\ Advance(IF after = "skip" THEN gl ELSE Execute(gl, <<Frame[at]>>),
                      after = "step")
<1>1. /\ pc = "app" /\ alive /\ level \in Trace \cup {"restart"}
      /\ UNCHANGED <<alive, tab, type, objects>>
  BY DEF AppCall, Kill, Gone, Answer, Outcome, SInv, LevelInv
<1>2. PICK o \in (IF after = "skip" THEN Ok(gl) ELSE Ok(Execute(gl, <<Frame[at]>>)))
                 \cup Dies(gl) :
        /\ o.err = "none" /\ Advance(o.gl, after = "step")
        /\ level' = SubLevel(at') /\ pc' = "idle"
  BY <1>1 DEF AppCall, Answer, Kill, Gone
<1>3. o.gl = IF after = "skip" THEN gl ELSE Execute(gl, <<Frame[at]>>)
  BY <1>2, RenderAssumption DEF Ok, Dies, Outcome
<1>4. /\ Holds("none", "none") /\ gl.program = "app" /\ gl.recorded = <<>>
      /\ gl.open <=> Primitive(at)
      /\ after = "skip" => Frame[at] \in {"draw", "other"}
  BY <1>1 DEF SInv, TraceInv, LevelInv
<1>5. ~objects
  BY <1>1, Fine DEF SInv, LevelInv
<1> QED
  BY <1>1, <1>2, <1>3, <1>4, <1>5

(* The target is taken, for a new session or for another shader.           *)
LEMMA SetDbgTargetStep ==
    ASSUME Undisturbed, TypeOK, SInv, SetDbgTarget, alive'
    PROVE  /\ pc = "target" /\ alive /\ level \in {"debugable", "restart"} /\ type = tab
           /\ UNCHANGED <<alive, tab, type, objects, after, at, called>>
           /\ ~objects
           /\ IF level = "debugable" THEN level' = "record" /\ pc' = "store"
              ELSE level' = level /\ pc' = "enter"
           /\ gl' = [gl EXCEPT !.target = Kind(type), !.pushed = 1]
<1>1. /\ pc = "target" /\ alive /\ level \in {"debugable", "restart"} /\ type = tab
      /\ UNCHANGED <<alive, tab, type, objects, after, at, called>>
  BY DEF SetDbgTarget, Kill, Gone, Answer, Outcome, SInv, LevelInv, app
<1>2. PICK o \in SetTarget(gl, Kind(type)) :
        /\ o.err # "critical" /\ gl' = o.gl
        /\ o.err = "none" =>
             IF level = "debugable" THEN level' = "record" /\ pc' = "store"
             ELSE level' = level /\ pc' = "enter"
  BY <1>1 DEF SetDbgTarget, Answer, Kill, Gone
<1>3. level = "debugable" => Holds("none", "none") /\ ~gl.open
  BY <1>1 DEF SInv, TraceInv, Debuggable, Primitive
<1>4. level = "restart" => Holds("none", "app") /\ ~gl.open
  BY <1>1, Fine DEF SInv, DebugInv
<1>5. gl \in GlStates /\ ~gl.open /\ gl.pushed = 0 /\ Kind(type) \in Kinds
  BY <1>1, <1>3, <1>4, Typed DEF Holds
<1>6. \A x \in SetTarget(gl, Kind(type)) : x.err # "critical" =>
        x.err = "none" /\ x.gl = [gl EXCEPT !.target = Kind(type), !.pushed = 1]
  BY <1>5, Fine, SetTargetWorks
<1>7. ~objects
  BY <1>1, Fine DEF SInv, LevelInv, Trace
<1> QED
  BY <1>1, <1>2, <1>6, <1>7

(* The recording is empty.                                                 *)
LEMMA InitRecordingStep ==
    ASSUME Undisturbed, TypeOK, SInv, InitRecording, alive'
    PROVE  /\ pc = "start" /\ pc' = "record" /\ alive
           /\ UNCHANGED <<level, tab, type, objects, after, at, called>>
           /\ gl' = [gl EXCEPT !.recorded = <<>>]
<1>1. /\ pc = "start" /\ pc' = "record"
      /\ UNCHANGED <<level, tab, type, objects, after, at, called>>
  BY DEF InitRecording, app
<1>2. PICK o \in Answer(StartRecording(gl)) : gl' = o.gl /\ o.err = "none"
  BY DEF InitRecording
<1>3. alive
  BY <1>2 DEF Answer, Outcome
<1>4. o \in StartRecording(gl)
  BY <1>2, <1>3 DEF Answer
<1>5. gl' = [gl EXCEPT !.recorded = <<>>]
  BY <1>2, <1>4, Typed, Fine, RecordingWorks
<1> QED
  BY <1>1, <1>3, <1>5

(* A call of the primitive is recorded and executed.                       *)
LEMMA RecordCallStep ==
    ASSUME Undisturbed, TypeOK, SInv, RecordCall, alive'
    PROVE  /\ pc = "record" /\ alive /\ level = "record"
           /\ UNCHANGED <<alive, tab, type, objects, after, level>>
           /\ Holds(Kind(type), "app") /\ gl.program = "app"
           /\ Frame[at] \in {"draw", "begin", "vertex", "end"}
           /\ pc' = (IF Inside(Frame[at]) THEN "events" ELSE "enter")
           /\ gl' = Execute([gl EXCEPT !.recorded = Append(gl.recorded, Frame[at])],
                            <<Frame[at]>>)
           /\ at' = (IF at = Len(Frame) THEN 1 ELSE at + 1)
           /\ called' = Append(called, Frame[at])
<1>1. pc = "record" /\ alive /\ UNCHANGED <<alive, tab, type, objects, after, level>>
  BY DEF RecordCall, Kill, Gone, Answer, Outcome
<1>2. PICK o \in Record(gl, Frame[at]) :
        /\ o.err # "critical" /\ Advance(o.gl, TRUE)
        /\ pc' = IF Inside(Frame[at]) THEN "events"
                 ELSE IF level = "record" THEN "enter" ELSE "idle"
  BY <1>1 DEF RecordCall, Answer, Kill, Gone
<1>3. o.gl = Execute([gl EXCEPT !.recorded = Append(gl.recorded, Frame[at])], <<Frame[at]>>)
  BY <1>2, Typed, RecordWorks
<1>4. /\ Holds(Kind(type), "app") /\ gl.program = "app"
      /\ level = "record" /\ Frame[at] \in {"draw", "begin", "vertex", "end"}
  BY <1>1 DEF SInv, RecordInv, Debuggable, Primitive
<1> QED
  BY <1>1, <1>2, <1>3, <1>4 DEF Advance

(* The debug shader draws the recording where nobody sees it.              *)
LEMMA ReadBackStep ==
    ASSUME Undisturbed, TypeOK, SInv, ReadBack, alive'
    PROVE  /\ pc = "step" /\ pc' = "idle" /\ alive /\ level \in Stages
           /\ UNCHANGED <<alive, tab, type, objects, after, level, at, called>>
           /\ Holds(Kind(level), "app") /\ Complete(gl.recorded) /\ ~gl.open
           /\ ~Primitive(at) /\ objects
           /\ gl' = [Execute([gl EXCEPT !.program = "debug",
                                        !.feedback = Kind(level) = "feedback"],
                             gl.recorded) EXCEPT !.feedback = FALSE]
<1>1. pc = "step" /\ alive /\ level \in Stages
  BY DEF ReadBack, Gone, Answer, Outcome, SInv, LevelInv
<1>2. PICK o \in ShaderStep(gl, Kind(level)) :
        /\ o.err # "critical" /\ gl' = o.gl
        /\ UNCHANGED <<alive, tab, type, objects, after, level, at, called>>
        /\ o.err = "none" => pc' = "idle"
  BY <1>1 DEF ReadBack, Gone, Answer, app
<1>3. /\ Holds(Kind(level), "app") /\ Complete(gl.recorded) /\ ~gl.open
      /\ ~Primitive(at) /\ objects
  BY <1>1, Fine DEF SInv, DebugInv, LevelInv
<1>4. gl.stored # "none" /\ ~gl.feedback /\ gl.pushed = 1 /\ Kind(level) \in Kinds
  BY <1>3, Typed DEF Holds
<1>5. \A x \in ShaderStep(gl, Kind(level)) : x.err # "critical" =>
        /\ x.err = "none"
        /\ x.gl = [Execute([gl EXCEPT !.program = "debug",
                                     !.feedback = Kind(level) = "feedback"],
                          gl.recorded) EXCEPT !.feedback = FALSE]
  BY <1>4, Typed, Fine, StepWorks
<1> QED
  BY <1>1, <1>2, <1>3, <1>5

(* The target is given back, and the session may be restarted.             *)
LEMMA CleanupDBGShaderStep ==
    ASSUME Undisturbed, TypeOK, SInv, CleanupDBGShader, alive'
    PROVE  /\ pc = "cleanup" /\ alive /\ level \in Stages
           /\ UNCHANGED <<alive, tab, type, after, at, called>>
           /\ level' = "restart" /\ objects' = FALSE /\ pc' = "idle"
           /\ Holds(Kind(level), "app") /\ Complete(gl.recorded) /\ ~gl.open
           /\ ~Primitive(at)
           /\ gl' = [gl EXCEPT !.target = "none", !.pushed = 0]
<1>1. pc = "cleanup" /\ alive /\ level \in Stages
  BY DEF CleanupDBGShader, Gone, Answer, Outcome, SInv, LevelInv
<1>2. PICK o \in RestoreTarget(gl, Kind(level)) :
        /\ o.err # "critical" /\ gl' = o.gl
        /\ UNCHANGED <<alive, tab, type, after, at, called>>
        /\ level' = "restart" /\ objects' = FALSE /\ pc' = "idle"
  BY <1>1 DEF CleanupDBGShader, Gone, Answer, app
<1>3. /\ Holds(Kind(level), "app") /\ Complete(gl.recorded) /\ ~gl.open
      /\ ~Primitive(at)
  BY <1>1, Fine DEF SInv, DebugInv
<1>4. gl.target = Kind(level) /\ gl.pushed = 1 /\ Kind(level) \in Kinds
  BY <1>3, Typed DEF Holds
<1>5. gl' = [gl EXCEPT !.target = "none", !.pushed = 0]
  BY <1>2, <1>3, <1>4, Typed, Fine, RestoreTargetWorks
<1> QED
  BY <1>1, <1>2, <1>3, <1>5

(* The handlers keep what the library holds in step with where they are.   *)
LEMMA SessionHandler == Undisturbed /\ TypeOK /\ SInv /\ Handler => SInv'
<1> SUFFICES ASSUME Undisturbed, TypeOK, SInv, Handler, alive'
             PROVE  LevelInv' /\ TraceInv' /\ StartInv' /\ RecordInv'
                    /\ AbortInv' /\ DebugInv' /\ LeaveInv'
  BY DEF SInv
<1>1. alive => /\ LevelInv /\ TraceInv /\ StartInv /\ RecordInv
               /\ AbortInv /\ DebugInv /\ LeaveInv
  BY DEF SInv
<1>2. /\ gl \in GlStates /\ gl.open \in BOOLEAN /\ gl.feedback \in BOOLEAN
      /\ gl.recorded \in Seq(CallKinds) /\ Frame[at] \in CallKinds
      /\ \A s : Kind(s) \in Kinds /\ Kind(s) # "none"
      /\ level \in Levels /\ tab \in Stages /\ type \in Stages
  BY Typed
<1>3. /\ "gl" \notin Faults /\ "cancel" \notin UserActs /\ "end" \notin PauseAt
      /\ Stages \cap (Trace \cup {"setup", "record", "restart"}) = {}
      /\ Frame[1] \notin {"vertex", "end"}
  BY Fine
<1>4. CASE LeaveShader
  <2>1. /\ pc = "leaveShader" /\ alive
        /\ UNCHANGED <<alive, tab, type, objects, after, level, at, called>>
        /\ ~gl.open /\ ~gl.feedback /\ gl.stored = "app"
        /\ pc' = "leaveQueries"
        /\ gl' = [gl EXCEPT !.program = gl.stored, !.stored = "none"]
    BY <1>4, LeaveShaderStep DEF rest
  <2>3. /\ gl'.target = gl.target /\ gl'.pushed = gl.pushed
        /\ gl'.stored = "none" /\ gl'.program = "app"
        /\ gl'.feedback = gl.feedback /\ gl'.open = gl.open
        /\ gl'.recorded = gl.recorded
    BY <1>2, <2>1 DEF GlStates, Holds
  <2> QED
    BY <1>1, <1>2, <1>3, <2>1, <2>3
       DEF LevelInv, TraceInv, StartInv, RecordInv, AbortInv, DebugInv,
           LeaveInv, Holds, Complete, Unfinished, Primitive, Inside,
           Debuggable, Trace
<1>5. CASE LeaveQueries
  <2>1. /\ pc = "leaveQueries" /\ alive
        /\ UNCHANGED <<alive, tab, type, objects, after, level, at, called>>
        /\ ~gl.open
        /\ pc' = "leaveReplay"
        /\ gl' = [gl EXCEPT !.query = IF gl.marked THEN "running" ELSE @]
    BY <1>5, LeaveQueriesStep DEF rest
  <2>3. /\ gl'.target = gl.target /\ gl'.pushed = gl.pushed
        /\ gl'.stored = gl.stored /\ gl'.program = gl.program
        /\ gl'.feedback = gl.feedback /\ gl'.open = gl.open
        /\ gl'.recorded = gl.recorded
    BY <1>2, <2>1 DEF GlStates
  <2> QED
    BY <1>1, <1>2, <1>3, <2>1, <2>3
       DEF LevelInv, TraceInv, StartInv, RecordInv, AbortInv, DebugInv,
           LeaveInv, Holds, Complete, Unfinished, Primitive, Inside,
           Debuggable, Trace
<1>6. CASE LeaveReplay
  <2>1. /\ pc = "leaveReplay" /\ alive
        /\ UNCHANGED <<alive, tab, type, objects, after, level, at, called>>
        /\ Complete(gl.recorded) /\ Holds("none", "none") /\ gl.program = "app"
        /\ pc' = "app"
        /\ gl' = [Execute(gl, gl.recorded) EXCEPT !.recorded = <<>>]
    BY <1>6, LeaveReplayStep DEF rest
  <2>2. /\ Execute(gl, gl.recorded) \in GlStates
        /\ Execute(gl, gl.recorded).open = FALSE
        /\ Execute(gl, gl.recorded).program = gl.program
        /\ Execute(gl, gl.recorded).stored = gl.stored
        /\ Execute(gl, gl.recorded).pushed = gl.pushed
        /\ Execute(gl, gl.recorded).target = gl.target
        /\ Execute(gl, gl.recorded).feedback = gl.feedback
        /\ Execute(gl, gl.recorded).recorded = gl.recorded
    <3>1. gl.recorded \in Seq(CallKinds) /\ gl.recorded # <<>>
          /\ Inside(gl.recorded[Len(gl.recorded)]) = FALSE
      BY <1>2, <2>1 DEF Complete, Unfinished, Inside, CallKinds
    <3> QED
      BY <1>2, <3>1, ExecuteTyped, ExecuteKeeps
  <2>3. /\ gl'.target = gl.target /\ gl'.pushed = gl.pushed
        /\ gl'.stored = gl.stored /\ gl'.program = gl.program
        /\ gl'.feedback = gl.feedback /\ gl'.open = FALSE
        /\ gl'.recorded = <<>>
    BY <1>2, <2>1, <2>2 DEF GlStates
  <2> QED
    BY <1>1, <1>2, <1>3, <2>1, <2>3
       DEF LevelInv, TraceInv, StartInv, RecordInv, AbortInv, DebugInv,
           LeaveInv, Holds, Complete, Unfinished, Primitive, Inside,
           Debuggable, Trace
<1>7. CASE AppCall
  <2> DEFINE h == IF after = "skip" THEN gl ELSE Execute(gl, <<Frame[at]>>)
  <2>1. /\ pc = "app" /\ alive /\ level \in Trace \cup {"restart"} /\ ~objects
        /\ UNCHANGED <<alive, tab, type, objects>>
        /\ Holds("none", "none") /\ gl.program = "app" /\ gl.recorded = <<>>
        /\ gl.open <=> Primitive(at)
        /\ after = "skip" => Frame[at] \in {"draw", "other"}
        /\ pc' = "idle" /\ level' = SubLevel(at')
        /\ Advance(h, after = "step")
    BY <1>7, AppCallStep
  <2>2. /\ h \in GlStates
        /\ h.target = gl.target /\ h.pushed = gl.pushed /\ h.stored = gl.stored
        /\ h.program = gl.program /\ h.feedback = gl.feedback
        /\ h.recorded = gl.recorded
        /\ h.open = Inside(Frame[at])
    <3>1. CASE after = "skip"
      BY <1>2, <2>1, <3>1 DEF Primitive, Inside
    <3>2. CASE after # "skip"
      <4> DEFINE one == <<Frame[at]>>
      <4>1. one \in Seq(CallKinds) /\ one # <<>> /\ one[Len(one)] = Frame[at]
        BY <1>2
      <4>2. h = Execute(gl, one)
        BY <3>2
      <4> HIDE DEF one, h
      <4> QED
        BY <1>2, <4>1, <4>2, ExecuteTyped, ExecuteKeeps
    <3> QED
      BY <3>1, <3>2
  <2> HIDE DEF h
  <2>3. /\ gl'.target = "none" /\ gl'.pushed = 0 /\ gl'.stored = "none"
        /\ gl'.program = "app" /\ ~gl'.feedback /\ gl'.recorded = <<>>
        /\ gl'.open = Inside(Frame[at])
    BY <2>1, <2>2 DEF Advance, GlStates, Holds
  <2>4. Inside(Frame[at]) <=> Frame[at'] \in {"vertex", "end"}
    BY <2>1, NextCall DEF Advance, TypeOK
  <2>5. level' \in Trace /\ (level' = "debugable" => Frame[at'] \in Debuggable)
    BY <2>1 DEF SubLevel, Trace
  <2>6. TraceInv'
    BY <2>1, <2>3, <2>4, <2>5 DEF TraceInv, Holds, Primitive
  <2> QED
    BY <1>3, <2>1, <2>5, <2>6
       DEF LevelInv, StartInv, RecordInv, AbortInv, DebugInv, LeaveInv, Trace
<1>8. CASE Interrupt
  <2>1. /\ pc = "interrupt" /\ alive
        /\ UNCHANGED <<alive, tab, type, objects, after, level, at, called>>
        /\ ~gl.open
        /\ pc' = "target"
        /\ gl' = [gl EXCEPT !.query = "stopped", !.marked = gl.query = "running"]
    BY <1>8, InterruptStep DEF rest
  <2>3. /\ gl'.target = gl.target /\ gl'.pushed = gl.pushed
        /\ gl'.stored = gl.stored /\ gl'.program = gl.program
        /\ gl'.feedback = gl.feedback /\ gl'.open = gl.open
        /\ gl'.recorded = gl.recorded
    BY <1>2, <2>1 DEF GlStates
  <2> QED
    BY <1>1, <1>2, <1>3, <2>1, <2>3
       DEF LevelInv, TraceInv, StartInv, RecordInv, AbortInv, DebugInv,
           LeaveInv, Holds, Complete, Unfinished, Primitive, Inside,
           Debuggable, Trace
<1>9. CASE SetDbgTarget
  <2>1. /\ pc = "target" /\ alive /\ level \in {"debugable", "restart"} /\ type = tab
        /\ UNCHANGED <<alive, tab, type, objects, after, at, called>> /\ ~objects
        /\ IF level = "debugable" THEN level' = "record" /\ pc' = "store"
           ELSE level' = level /\ pc' = "enter"
        /\ gl' = [gl EXCEPT !.target = Kind(type), !.pushed = 1]
    BY <1>9, SetDbgTargetStep
  <2>2. level = "debugable" =>
          /\ Holds("none", "none") /\ gl.program = "app" /\ gl.recorded = <<>>
          /\ Frame[at] \in Debuggable /\ ~gl.open
    BY <1>1, <2>1 DEF TraceInv, Debuggable, Primitive
  <2>3. level = "restart" =>
          Holds("none", "app") /\ Complete(gl.recorded) /\ ~Primitive(at) /\ ~gl.open
    BY <1>1, <1>3, <2>1 DEF DebugInv
  <2>4. /\ gl'.target = Kind(type) /\ gl'.pushed = 1 /\ gl'.stored = gl.stored
        /\ gl'.program = gl.program /\ gl'.feedback = gl.feedback
        /\ gl'.open = gl.open /\ gl'.recorded = gl.recorded
    BY <1>2, <2>1 DEF GlStates
  <2> QED
    BY <1>2, <1>3, <2>1, <2>2, <2>3, <2>4
       DEF LevelInv, TraceInv, StartInv, RecordInv, AbortInv, DebugInv,
           LeaveInv, Holds, Complete, Unfinished, Primitive, Inside,
           Debuggable, Trace
<1>10. CASE Store
  <2>1. /\ pc = "store" /\ alive
        /\ UNCHANGED <<alive, tab, type, objects, after, level, at, called>>
        /\ gl.program = "app"
        /\ pc' = "start"
        /\ gl' = [gl EXCEPT !.stored = gl.program]
    BY <1>10, StoreStep DEF rest
  <2>3. /\ gl'.target = gl.target /\ gl'.pushed = gl.pushed
        /\ gl'.stored = "app" /\ gl'.program = gl.program
        /\ gl'.feedback = gl.feedback /\ gl'.open = gl.open
        /\ gl'.recorded = gl.recorded
    BY <1>2, <2>1 DEF GlStates, Holds
  <2> QED
    BY <1>1, <1>2, <1>3, <2>1, <2>3
       DEF LevelInv, TraceInv, StartInv, RecordInv, AbortInv, DebugInv,
           LeaveInv, Holds, Complete, Unfinished, Primitive, Inside,
           Debuggable, Trace
<1>11. CASE InitRecording
  <2>1. /\ pc = "start" /\ pc' = "record" /\ alive
        /\ UNCHANGED <<level, tab, type, objects, after, at, called>>
        /\ gl' = [gl EXCEPT !.recorded = <<>>]
    BY <1>11, InitRecordingStep
  <2>2. /\ gl'.target = gl.target /\ gl'.pushed = gl.pushed /\ gl'.stored = gl.stored
        /\ gl'.program = gl.program /\ gl'.feedback = gl.feedback
        /\ gl'.open = gl.open /\ gl'.recorded = <<>>
    BY <1>2, <2>1 DEF GlStates
  <2> QED
    BY <1>1, <1>2, <1>3, <2>1, <2>2
       DEF LevelInv, TraceInv, StartInv, RecordInv, AbortInv, DebugInv,
           LeaveInv, Holds, Complete, Unfinished, Primitive, Inside,
           Debuggable, Trace
<1>12. CASE RecordCall
  <2> DEFINE longer == Append(gl.recorded, Frame[at])
             g == Execute([gl EXCEPT !.recorded = longer], <<Frame[at]>>)
  <2>1. /\ pc = "record" /\ alive /\ level = "record"
        /\ UNCHANGED <<alive, tab, type, objects, after, level>>
        /\ Holds(Kind(type), "app") /\ gl.program = "app"
        /\ Frame[at] \in {"draw", "begin", "vertex", "end"}
        /\ pc' = (IF Inside(Frame[at]) THEN "events" ELSE "enter")
        /\ gl' = g
        /\ at' = (IF at = Len(Frame) THEN 1 ELSE at + 1)
    BY <1>12, RecordCallStep
  <2>2. /\ longer \in Seq(CallKinds) /\ longer # <<>> /\ longer[Len(longer)] = Frame[at]
        /\ [gl EXCEPT !.recorded = longer] \in GlStates
    <3>1. longer \in Seq(CallKinds) /\ longer # <<>> /\ longer[Len(longer)] = Frame[at]
      BY <1>2
    <3> HIDE DEF longer
    <3> QED
      BY <1>2, <3>1 DEF GlStates
  <2> HIDE DEF longer
  <2>3. /\ g.target = gl.target /\ g.pushed = gl.pushed /\ g.stored = gl.stored
        /\ g.program = gl.program /\ g.feedback = gl.feedback
        /\ g.recorded = longer /\ g.open = Inside(Frame[at])
    <3>1. <<Frame[at]>> \in Seq(CallKinds) /\ <<Frame[at]>> # <<>>
          /\ <<Frame[at]>>[Len(<<Frame[at]>>)] = Frame[at]
      BY <1>2
    <3>2. LET h == [gl EXCEPT !.recorded = longer]
          IN  /\ h.target = gl.target /\ h.pushed = gl.pushed /\ h.stored = gl.stored
              /\ h.program = gl.program /\ h.feedback = gl.feedback /\ h.recorded = longer
      BY <1>2 DEF GlStates
    <3> QED
      BY <2>2, <3>1, <3>2, ExecuteKeeps
  <2>4. Inside(Frame[at]) <=> Frame[at'] \in {"vertex", "end"}
    BY <2>1, NextCall DEF TypeOK
  <2> HIDE DEF g
  <2> QED
    BY <1>1, <1>2, <1>3, <2>1, <2>2, <2>3, <2>4
       DEF LevelInv, TraceInv, StartInv, RecordInv, AbortInv, DebugInv,
           LeaveInv, Holds, Complete, Unfinished, Primitive, Inside,
           Debuggable, Trace
<1>13. CASE EventsDone
  BY <1>13, <1>1, <1>2, <1>3
     DEF EventsDone, app, LevelInv, TraceInv, StartInv, RecordInv, AbortInv,
         DebugInv, LeaveInv, Holds, Complete, Unfinished, Primitive, Inside,
         Debuggable, Trace
<1>14. CASE AbortEnd
  <2>1. /\ pc = "abortEnd" /\ alive
        /\ UNCHANGED <<alive, tab, type, objects, after, level, at, called>>
        /\ gl.open /\ gl.target = Kind(tab)
        /\ pc' = "abortTarget"
        /\ gl' = Execute(gl, <<"end">>)
    BY <1>14, AbortEndStep DEF rest
  <2>2. /\ Execute(gl, <<"end">>) \in GlStates
        /\ Execute(gl, <<"end">>).open = FALSE
        /\ Execute(gl, <<"end">>).program = gl.program
        /\ Execute(gl, <<"end">>).stored = gl.stored
        /\ Execute(gl, <<"end">>).pushed = gl.pushed
        /\ Execute(gl, <<"end">>).target = gl.target
        /\ Execute(gl, <<"end">>).feedback = gl.feedback
        /\ Execute(gl, <<"end">>).recorded = gl.recorded
    <3>1. <<"end">> \in Seq(CallKinds) /\ <<"end">> # <<>>
          /\ Inside(<<"end">>[Len(<<"end">>)]) = FALSE
      BY <1>2, <2>1 DEF Complete, Unfinished, Inside, CallKinds
    <3> QED
      BY <1>2, <3>1, ExecuteTyped, ExecuteKeeps
  <2>3. /\ gl'.target = gl.target /\ gl'.pushed = gl.pushed
        /\ gl'.stored = gl.stored /\ gl'.program = gl.program
        /\ gl'.feedback = gl.feedback /\ gl'.open = FALSE
        /\ gl'.recorded = gl.recorded
    BY <1>2, <2>1, <2>2 DEF GlStates
  <2> QED
    BY <1>1, <1>2, <1>3, <2>1, <2>3
       DEF LevelInv, TraceInv, StartInv, RecordInv, AbortInv, DebugInv,
           LeaveInv, Holds, Complete, Unfinished, Primitive, Inside,
           Debuggable, Trace
<1>15. CASE AbortTarget
  <2>1. /\ pc = "abortTarget" /\ alive
        /\ UNCHANGED <<alive, tab, type, objects, after, level, at, called>>
        /\ ~gl.open /\ gl.pushed = 1 /\ gl.target = Kind(tab) /\ Kind(tab) \in Kinds
        /\ pc' = "abortShader"
        /\ gl' = [gl EXCEPT !.target = "none", !.pushed = 0]
    BY <1>15, AbortTargetStep DEF rest
  <2>3. /\ gl'.target = "none" /\ gl'.pushed = 0
        /\ gl'.stored = gl.stored /\ gl'.program = gl.program
        /\ gl'.feedback = gl.feedback /\ gl'.open = gl.open
        /\ gl'.recorded = gl.recorded
    BY <1>2, <2>1 DEF GlStates
  <2> QED
    BY <1>1, <1>2, <1>3, <2>1, <2>3
       DEF LevelInv, TraceInv, StartInv, RecordInv, AbortInv, DebugInv,
           LeaveInv, Holds, Complete, Unfinished, Primitive, Inside,
           Debuggable, Trace
<1>16. CASE AbortShader
  <2>1. /\ pc = "abortShader" /\ alive
        /\ UNCHANGED <<alive, tab, type, objects, after, level, at, called>>
        /\ ~gl.open /\ ~gl.feedback /\ gl.stored = "app"
        /\ pc' = "abortReplay"
        /\ gl' = [gl EXCEPT !.program = gl.stored, !.stored = "none"]
    BY <1>16, AbortShaderStep DEF rest
  <2>3. /\ gl'.target = gl.target /\ gl'.pushed = gl.pushed
        /\ gl'.stored = "none" /\ gl'.program = "app"
        /\ gl'.feedback = gl.feedback /\ gl'.open = gl.open
        /\ gl'.recorded = gl.recorded
    BY <1>2, <2>1 DEF GlStates, Holds
  <2> QED
    BY <1>1, <1>2, <1>3, <2>1, <2>3
       DEF LevelInv, TraceInv, StartInv, RecordInv, AbortInv, DebugInv,
           LeaveInv, Holds, Complete, Unfinished, Primitive, Inside,
           Debuggable, Trace
<1>17. CASE AbortReplay
  <2>1. /\ pc = "abortReplay" /\ alive
        /\ UNCHANGED <<alive, tab, type, objects, after, level, at, called>>
        /\ Unfinished(gl.recorded) /\ Holds("none", "none") /\ gl.program = "app"
        /\ pc' = "idle"
        /\ gl' = [Execute(gl, gl.recorded) EXCEPT !.recorded = <<>>]
    BY <1>17, AbortReplayStep DEF rest
  <2>2. /\ Execute(gl, gl.recorded) \in GlStates
        /\ Execute(gl, gl.recorded).open = TRUE
        /\ Execute(gl, gl.recorded).program = gl.program
        /\ Execute(gl, gl.recorded).stored = gl.stored
        /\ Execute(gl, gl.recorded).pushed = gl.pushed
        /\ Execute(gl, gl.recorded).target = gl.target
        /\ Execute(gl, gl.recorded).feedback = gl.feedback
        /\ Execute(gl, gl.recorded).recorded = gl.recorded
    <3>1. gl.recorded \in Seq(CallKinds) /\ gl.recorded # <<>>
          /\ Inside(gl.recorded[Len(gl.recorded)]) = TRUE
      BY <1>2, <2>1 DEF Complete, Unfinished, Inside, CallKinds
    <3> QED
      BY <1>2, <3>1, ExecuteTyped, ExecuteKeeps
  <2>3. /\ gl'.target = gl.target /\ gl'.pushed = gl.pushed
        /\ gl'.stored = gl.stored /\ gl'.program = gl.program
        /\ gl'.feedback = gl.feedback /\ gl'.open = TRUE
        /\ gl'.recorded = <<>>
    BY <1>2, <2>1, <2>2 DEF GlStates
  <2> QED
    BY <1>1, <1>2, <1>3, <2>1, <2>3
       DEF LevelInv, TraceInv, StartInv, RecordInv, AbortInv, DebugInv,
           LeaveInv, Holds, Complete, Unfinished, Primitive, Inside,
           Debuggable, Trace
<1>18. CASE Enter
  BY <1>18, <1>1, <1>2, <1>3
     DEF Enter, TypeOK, app, LevelInv, TraceInv, StartInv, RecordInv,
         AbortInv, DebugInv, LeaveInv, Holds, Complete, Unfinished,
         Primitive, Inside, Debuggable, Trace
<1>19. CASE ReadBack
  <2> DEFINE begun == [gl EXCEPT !.program = "debug",
                                 !.feedback = Kind(level) = "feedback"]
  <2>1. /\ pc = "step" /\ pc' = "idle" /\ alive /\ level \in Stages
        /\ UNCHANGED <<alive, tab, type, objects, after, level, at, called>>
        /\ Holds(Kind(level), "app") /\ Complete(gl.recorded) /\ ~gl.open
        /\ ~Primitive(at) /\ objects
        /\ gl' = [Execute(begun, gl.recorded) EXCEPT !.feedback = FALSE]
    BY <1>19, ReadBackStep
  <2>2. /\ begun \in GlStates /\ begun.target = gl.target
        /\ begun.pushed = gl.pushed /\ begun.stored = gl.stored
        /\ begun.recorded = gl.recorded
    BY <1>2 DEF GlStates, Programs
  <2> HIDE DEF begun
  <2>3. /\ gl.recorded # <<>> /\ Inside(gl.recorded[Len(gl.recorded)]) = FALSE
    BY <1>2, <2>1 DEF Complete, Inside
  <2>4. /\ Execute(begun, gl.recorded) \in GlStates
        /\ Execute(begun, gl.recorded).target = gl.target
        /\ Execute(begun, gl.recorded).pushed = gl.pushed
        /\ Execute(begun, gl.recorded).stored = gl.stored
        /\ Execute(begun, gl.recorded).recorded = gl.recorded
        /\ Execute(begun, gl.recorded).open = FALSE
    BY <1>2, <2>2, <2>3, ExecuteTyped, ExecuteKeeps
  <2>5. /\ gl'.target = gl.target /\ gl'.pushed = gl.pushed /\ gl'.stored = gl.stored
        /\ ~gl'.feedback /\ gl'.recorded = gl.recorded /\ ~gl'.open
    BY <2>1, <2>4 DEF GlStates
  <2> QED
    BY <1>2, <1>3, <2>1, <2>5
       DEF LevelInv, TraceInv, StartInv, RecordInv, AbortInv, DebugInv,
           LeaveInv, Holds, Complete, Unfinished, Primitive, Inside,
           Debuggable, Trace
<1>20. CASE CleanupDBGShader
  <2>1. /\ pc = "cleanup" /\ alive /\ level \in Stages
        /\ UNCHANGED <<alive, tab, type, after, at, called>>
        /\ level' = "restart" /\ objects' = FALSE /\ pc' = "idle"
        /\ Holds(Kind(level), "app") /\ Complete(gl.recorded) /\ ~gl.open
        /\ ~Primitive(at)
        /\ gl' = [gl EXCEPT !.target = "none", !.pushed = 0]
    BY <1>20, CleanupDBGShaderStep
  <2>2. /\ gl'.target = "none" /\ gl'.pushed = 0 /\ gl'.stored = gl.stored
        /\ gl'.program = gl.program /\ gl'.feedback = gl.feedback
        /\ gl'.open = gl.open /\ gl'.recorded = gl.recorded
    BY <1>2, <2>1 DEF GlStates
  <2> QED
    BY <1>2, <1>3, <2>1, <2>2
       DEF LevelInv, TraceInv, StartInv, RecordInv, AbortInv, DebugInv,
           LeaveInv, Holds, Complete, Unfinished, Primitive, Inside,
           Debuggable, Trace
<1> QED
  BY <1>4, <1>5, <1>6, <1>7, <1>8, <1>9, <1>10, <1>11, <1>12, <1>13, <1>14, <1>15,
     <1>16, <1>17, <1>18, <1>19, <1>20 DEF Handler

(* Clicks do, too.                                                         *)
LEMMA SessionUser == Undisturbed /\ TypeOK /\ SInv /\ User => SInv'
<1> SUFFICES ASSUME Undisturbed, TypeOK, SInv, User, alive'
             PROVE  LevelInv' /\ TraceInv' /\ StartInv' /\ RecordInv'
                    /\ AbortInv' /\ DebugInv' /\ LeaveInv'
  BY DEF SInv
<1>1. alive => /\ LevelInv /\ TraceInv /\ StartInv /\ RecordInv
               /\ AbortInv /\ DebugInv /\ LeaveInv
  BY DEF SInv
<1>2. /\ gl \in GlStates /\ gl.open \in BOOLEAN /\ gl.feedback \in BOOLEAN
      /\ gl.recorded \in Seq(CallKinds) /\ Frame[at] \in CallKinds
      /\ \A s : Kind(s) \in Kinds /\ Kind(s) # "none"
      /\ level \in Levels /\ tab \in Stages /\ type \in Stages
  BY Typed
<1>3. /\ "gl" \notin Faults /\ "cancel" \notin UserActs /\ "end" \notin PauseAt
      /\ Stages \cap (Trace \cup {"setup", "record", "restart"}) = {}
      /\ Frame[1] \notin {"vertex", "end"}
  BY Fine
<1>4. \/ "tab" \notin UserActs \/ PauseAt = {}
      \/ \A s, t \in Stages : Kind(s) = Kind(t)
  BY DEF Undisturbed
<1>5. CASE ExecuteClicked
  BY <1>5, <1>1, <1>2, <1>3
     DEF ExecuteClicked, Launched, Fresh, SubLevel, Kill, Gone, app,
         LevelInv, TraceInv, StartInv, RecordInv, AbortInv, DebugInv,
         LeaveInv, Holds, Complete, Unfinished, Primitive, Inside,
         Debuggable, Trace
<1>6. CASE OpenAccepted
  BY <1>6, <1>1, <1>2, <1>3
     DEF OpenAccepted, Kill, Gone, app, LevelInv, TraceInv, StartInv,
         RecordInv, AbortInv, DebugInv, LeaveInv, Holds, Complete,
         Unfinished, Primitive, Inside, Debuggable, Trace
<1>7. CASE OpenCancelled
  BY <1>7, <1>1, <1>2, <1>3
     DEF OpenCancelled, app, LevelInv, TraceInv, StartInv, RecordInv,
         AbortInv, DebugInv, LeaveInv, Holds, Complete, Unfinished,
         Primitive, Inside, Debuggable, Trace
<1>8. CASE SelectTab
  BY <1>8, <1>1, <1>2, <1>3, <1>4
     DEF SelectTab, app, LevelInv, TraceInv, StartInv, RecordInv, AbortInv,
         DebugInv, LeaveInv, Holds, Complete, Unfinished, Primitive, Inside,
         Debuggable, Trace
<1>9. CASE StepClicked
  BY <1>9, <1>1, <1>2, <1>3
     DEF StepClicked, Traced, app, LevelInv, TraceInv, StartInv, RecordInv,
         AbortInv, DebugInv, LeaveInv, Holds, Complete, Unfinished,
         Primitive, Inside, Debuggable, Trace
<1>10. CASE SkipClicked
  BY <1>10, <1>1, <1>2, <1>3
     DEF SkipClicked, Traced, app, LevelInv, TraceInv, StartInv, RecordInv,
         AbortInv, DebugInv, LeaveInv, Holds, Complete, Unfinished,
         Primitive, Inside, Debuggable, Trace
<1>11. CASE ShaderExecuteClicked
  BY <1>11, <1>1, <1>2, <1>3
     DEF ShaderExecuteClicked, app, LevelInv, TraceInv, StartInv, RecordInv,
         AbortInv, DebugInv, LeaveInv, Holds, Complete, Unfinished,
         Primitive, Inside, Debuggable, Trace
<1>12. CASE ShaderStepClicked
  BY <1>12, <1>1, <1>2, <1>3
     DEF ShaderStepClicked, app, LevelInv, TraceInv, StartInv, RecordInv,
         AbortInv, DebugInv, LeaveInv, Holds, Complete, Unfinished,
         Primitive, Inside, Debuggable, Trace
<1>13. CASE PauseClicked
  BY <1>13, <1>1, <1>2, <1>3
     DEF PauseClicked, SubLevel, app, LevelInv, TraceInv, StartInv,
         RecordInv, AbortInv, DebugInv, LeaveInv, Holds, Complete,
         Unfinished, Primitive, Inside, Debuggable, Trace
<1> QED
  BY <1>5, <1>6, <1>7, <1>8, <1>9, <1>10, <1>11, <1>12, <1>13 DEF User

(* In an undisturbed session, whenever the debuggee lives the library      *)
(* holds exactly what the control point and the run level say.             *)
THEOREM Session_inductive == ASSUME Undisturbed PROVE Spec => []SInv
<1>1. Init => SInv
  BY DEF Init, SInv
<1>2. TypeOK /\ SInv /\ [Next]_vars => SInv'
  <2> SUFFICES ASSUME TypeOK, SInv, [Next]_vars PROVE SInv'
    OBVIOUS
  <2>1. CASE Handler
    BY <2>1, SessionHandler
  <2>2. CASE User
    BY <2>2, SessionUser
  <2>3. CASE UNCHANGED vars
    BY <2>3
       DEF vars, dbg, app, SInv, LevelInv, TraceInv, StartInv, RecordInv,
           AbortInv, DebugInv, LeaveInv, Holds, Primitive
  <2> QED
    BY <2>1, <2>2, <2>3 DEF Next
<1> QED
  BY <1>1, <1>2, TypeCorrect, PTL DEF Spec

(* Back at the trace nothing of a shader-debug session is left, whether it *)
(* was carried through, restarted for another shader or given up while it  *)
(* was recorded.                                                           *)
THEOREM Trace_is_clean == ASSUME Undisturbed PROVE Spec => []TraceIsClean
<1>1. SInv => TraceIsClean
  BY DEF SInv, TraceInv, Holds, TraceIsClean, AtTrace
<1> QED
  BY <1>1, Session_inductive, PTL

(* Wherever the user may step or restart a shader, the debuggee has the    *)
(* stored shader, the recorded draw call and the target this needs.        *)
THEOREM Debug_is_ready == ASSUME Undisturbed PROVE Spec => []DebugIsReady
<1>1. TypeOK /\ SInv => DebugIsReady
  <2>1. \A s \in Stages : Kind(s) # "none" /\ s # "restart"
    BY ShaderDebugAssumption DEF Kind
  <2> QED
    BY <2>1 DEF SInv, LevelInv, DebugInv, Holds, Complete, DebugIsReady
<1> QED
  BY <1>1, TypeCorrect, Session_inductive, PTL

(* No shader is stepped before the application's has been stored.          *)
THEOREM Stored_for_step == ASSUME Undisturbed PROVE Spec => []StoredForStep
<1>1. SInv => StoredForStep
  BY DEF SInv, DebugInv, Holds, StoredForStep
<1> QED
  BY <1>1, Session_inductive, PTL
=============================================================================
