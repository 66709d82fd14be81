------------------------------ MODULE ShaderDebug ------------------------------
(***************************************************************************)
(* A shader-debug session as the main window conducts it: from the draw    *)
(* call at which the user asks for it, over the recording of that call and *)
(* the read-backs of the debugged shader, to the return to the trace.      *)
(*                                                                         *)
(* Every command waits for its answer, so the handler is at one control    *)
(* point pc; "idle" is the event loop.  Only the recording of a            *)
(* glBegin-glEnd block lets events in between (pc = "events").             *)
(***************************************************************************)
EXTENDS RenderState

CONSTANTS
    Frame,     \* the calls of a frame of the application
    Stages,    \* the tabs of twShader with a shader in them
    PauseAt,   \* the calls at which the user may interrupt a recording
    UserActs   \* "tab": may change tabs then; "cancel": may cancel Open

ASSUME ShaderDebugAssumption ==
    /\ Frame \in Seq(CallKinds) /\ Frame # <<>>
    /\ \A i \in DOMAIN Frame : Frame[i] = "swap" <=> i = Len(Frame)
    /\ \A i \in DOMAIN Frame :
         Frame[i] \in {"vertex", "end"} <=> i > 1 /\ Inside(Frame[i - 1])
    /\ Stages \subseteq {"vertex", "geometry", "fragment"} /\ Stages # {}
    /\ PauseAt \subseteq CallKinds
    /\ UserActs \subseteq {"tab", "cancel"}

VARIABLES
    gl,        \* the debuggee's GL state
    alive,     \* there is a debuggee
    level,     \* currentRunLevel
    tab,       \* twShader->currentIndex()
    type,      \* the tab when tbShaderExecute was clicked
    objects,   \* m_dShCompiler and m_pShVarModel exist
    pc,        \* the next command of the running handler
    after,     \* what follows leaveDBGState: callOrigFunc or only callDone
    at,        \* m_pCurrentCall: the call the debuggee is stopped in
    called     \* the calls it has made in this frame

dbg  == <<level, tab, type, objects, pc, after>>
app  == <<at, called>>
vars == <<gl, alive, dbg, app>>

Trace  == {"nodebug", "debugable"}
Levels == {"setup", "record", "restart"} \cup Trace \cup Stages
Points == {"idle", "leaveShader", "leaveQueries", "leaveReplay", "app",
           "interrupt", "target", "store", "start", "record", "events",
           "abortEnd", "abortTarget", "abortShader", "abortReplay",
           "enter", "step", "cleanup"}

Kind(stage) == IF stage = "fragment" THEN "fragment" ELSE "feedback"

(* setRunLevel(RL_TRACE_EXECUTE) at call i.                                *)
SubLevel(i) == IF Frame[i] \in Debuggable THEN "debugable" ELSE "nodebug"

TypeOK ==
    /\ gl \in GlStates
    /\ alive \in BOOLEAN /\ objects \in BOOLEAN
    /\ level \in Levels /\ tab \in Stages /\ type \in Stages
    /\ pc \in Points /\ after \in {"step", "skip"}
    /\ at \in DOMAIN Frame /\ called \in Seq(CallKinds)

Init ==
    /\ gl = Fresh /\ alive = FALSE
    /\ level = "setup" /\ tab \in Stages /\ type = tab
    /\ objects = FALSE /\ pc = "idle" /\ after = "step"
    /\ at = 1 /\ called = <<>>

-----------------------------------------------------------------------------
(* A command's answers; a debuggee that is gone answers with an error.     *)
Answer(S) == IF alive THEN S ELSE {Outcome("critical", gl)}

Gone == gl' = Fresh /\ alive' = FALSE /\ at' = 1 /\ called' = <<>>

(* killProgram(1); setRunLevel(RL_SETUP).                                  *)
Kill == Gone /\ level' = "setup" /\ pc' = "idle"

(* The common error handling: critical errors end the session, others are  *)
(* shown and the handler goes on at next, or at onError.                   *)
CommandOr(S, next, onError) ==
    /\ \E o \in Answer(S) :
         \/ o.err = "critical" /\ Kill
         \/ /\ o.err # "critical"
            /\ gl' = o.gl
            /\ pc' = IF o.err = "none" THEN next ELSE onError
            /\ UNCHANGED <<alive, level, app>>
    /\ UNCHANGED <<tab, type, objects, after>>

Command(S, next) == CommandOr(S, next, next)

(* The stopped call is done with and the next one is reached.              *)
Advance(g, executed) ==
    LET swap == Frame[at] = "swap"
    IN  /\ at' = IF at = Len(Frame) THEN 1 ELSE at + 1
        /\ gl' = IF swap THEN [g EXCEPT !.image = <<>>] ELSE g
        /\ called' = IF swap THEN <<>>
                     ELSE IF executed THEN Append(called, Frame[at]) ELSE called

-----------------------------------------------------------------------------
(* on_tbExecute_clicked runs the program at RL_SETUP, and the tracing then *)
(* has reached the frame with its shader shown.  At any other level it     *)
(* stops the program, also from the events of a recording; but when        *)
(* cleanupDBGShader meets a critical error it leaves RL_SETUP behind, and  *)
(* the program is run again.                                               *)
Launched ==
    /\ gl' = Fresh /\ alive' = TRUE /\ at' = 1 /\ called' = <<>>
    /\ level' = SubLevel(1) /\ pc' = "idle"

ExecuteClicked ==
    /\ pc \in {"idle", "events"}
    /\ \/ level = "setup" /\ Launched
       \/ level # "setup" /\ Kill
       \/ /\ level \in Stages
          /\ \E o \in Answer(RestoreTarget(gl, Kind(level))) : o.err = "critical"
          /\ Launched
    /\ objects' = FALSE
    /\ UNCHANGED <<tab, type, after>>

(* on_aOpen_triggered cleans the shader up before it asks for the program. *)
OpenAccepted ==
    /\ pc = "idle" /\ level # "setup"
    /\ Kill /\ objects' = FALSE
    /\ UNCHANGED <<tab, type, after>>

OpenCancelled ==
    /\ "cancel" \in UserActs
    /\ pc = "idle" /\ level \in Stages
    /\ objects' = FALSE
    /\ \E o \in Answer(RestoreTarget(gl, Kind(level))) :
         \/ o.err = "critical" /\ Kill
         \/ o.err # "critical" /\ gl' = o.gl /\ UNCHANGED <<alive, level, pc, app>>
    /\ UNCHANGED <<tab, type, after>>

SelectTab ==
    /\ alive
    /\ pc = "idle" \/ (pc = "events" /\ "tab" \in UserActs)
    /\ tab' \in Stages \ {tab}
    /\ UNCHANGED <<gl, alive, level, type, objects, pc, after, app>>

-----------------------------------------------------------------------------
(* on_tbStep_clicked and on_tbSkip_clicked: leaveDBGState first.  The user *)
(* skips calls that stand for themselves only.                             *)
Traced(what) ==
    /\ pc = "idle" /\ level \in Trace \cup {"restart"}
    /\ pc' = IF level = "restart" THEN "leaveShader" ELSE "app"
    /\ after' = what
    /\ UNCHANGED <<gl, alive, level, tab, type, objects, app>>

StepClicked == Traced("step")
SkipClicked == Frame[at] \in {"draw", "other"} /\ Traced("skip")

LeaveShader  == pc = "leaveShader"  /\ Command(RestoreShader(gl), "leaveQueries")
LeaveQueries == pc = "leaveQueries" /\ Command(RestartQueries(gl), "leaveReplay")
LeaveReplay  == pc = "leaveReplay"  /\ Command(EndReplay(gl), "app")

(* nextStep, or callDone alone, and getNextCall.                           *)
AppCall ==
    /\ pc = "app"
    /\ \E o \in Answer((IF after = "skip" THEN Ok(gl) ELSE Ok(Execute(gl, <<Frame[at]>>)))
                       \cup Dies(gl)) :
         \/ o.err = "critical" /\ Kill
         \/ /\ o.err = "none"
            /\ Advance(o.gl, after = "step")
            /\ level' = SubLevel(at') /\ pc' = "idle"
            /\ UNCHANGED alive
    /\ after' = "step"
    /\ UNCHANGED <<tab, type, objects>>

-----------------------------------------------------------------------------
(* on_tbShaderExecute_clicked: starts a shader, or ends its debugging.     *)
ShaderExecuteClicked ==
    /\ pc = "idle"
    /\ \/ level = "debugable" /\ pc' = "interrupt" /\ type' = tab
       \/ level = "restart"   /\ pc' = "target"    /\ type' = tab
       \/ level = tab         /\ pc' = "cleanup"   /\ UNCHANGED type
    /\ UNCHANGED <<gl, alive, level, tab, objects, after, app>>

Interrupt == pc = "interrupt" /\ Command(InterruptQueries(gl), "target")

SetDbgTarget ==
    /\ pc = "target"
    /\ \E o \in Answer(SetTarget(gl, Kind(type))) :
         \/ o.err = "critical" /\ Kill
         \/ /\ o.err = "gl"
            /\ gl' = o.gl /\ level' = "restart" /\ pc' = "idle"
            /\ UNCHANGED <<alive, app>>
         \/ /\ o.err = "none"
            /\ gl' = o.gl
            /\ IF level = "debugable"
               THEN level' = "record" /\ pc' = "store"
               ELSE UNCHANGED level /\ pc' = "enter"
            /\ UNCHANGED <<alive, app>>
    /\ UNCHANGED <<tab, type, objects, after>>

Mut_StoreForgotten == pc = "store" /\ Command(Ok(gl), "start")

Store == pc = "store" /\ Command(StoreShader(gl), "start")

(* recordDrawCall.  It does not look at the answer of initRecording.       *)
InitRecording ==
    /\ pc = "start"
    /\ \E o \in Answer(StartRecording(gl)) :
         gl' = o.gl /\ alive' = (o.err = "none")
    /\ pc' = "record"
    /\ UNCHANGED <<level, tab, type, objects, after, app>>

(* recordCall: at a draw call or glEnd the recording is complete, and      *)
(* nothing more is done when the user has interrupted it in the meantime.  *)
RecordCall ==
    /\ pc = "record"
    /\ \E o \in Answer(Record(gl, Frame[at])) :
         \/ o.err = "critical" /\ Kill
         \/ /\ o.err = "none"
            /\ Advance(o.gl, TRUE)
            /\ pc' = IF Inside(Frame[at]) THEN "events"
                     ELSE IF level = "record" THEN "enter" ELSE "idle"
            /\ UNCHANGED <<alive, level>>
    /\ UNCHANGED <<tab, type, objects, after>>

PauseClicked ==
    /\ pc = "events" /\ level = "record" /\ Frame[at] \in PauseAt
    /\ level' = SubLevel(at)
    /\ UNCHANGED <<gl, alive, tab, type, objects, pc, after, app>>

EventsDone ==
    /\ pc = "events"
    /\ pc' = IF level = "record" \/ Frame[at] = "end" THEN "record" ELSE "abortEnd"
    /\ UNCHANGED <<gl, alive, level, tab, type, objects, after, app>>

Mut_AbortNoTarget ==
    pc = "abortTarget" /\ CommandOr(Ok(gl), "abortShader", "idle")

(* The interrupted recording is undone, as far as no step of it fails.     *)
AbortEnd    == pc = "abortEnd"    /\ CommandOr(CallGlEnd(gl), "abortTarget", "idle")
AbortTarget ==
    pc = "abortTarget" /\ CommandOr(RestoreTarget(gl, Kind(tab)), "abortShader", "idle")
AbortShader == pc = "abortShader" /\ CommandOr(RestoreShader(gl), "abortReplay", "idle")
AbortReplay == pc = "abortReplay" /\ Command(EndReplay(gl), "idle")

-----------------------------------------------------------------------------
(* The shader is compiled for debugging, and stepped into if that works.   *)
Enter ==
    /\ pc = "enter"
    /\ level' = type /\ objects' = TRUE
    /\ pc' \in {"step", "cleanup"}
    /\ UNCHANGED <<gl, alive, tab, type, after, app>>

ShaderStepClicked ==
    /\ pc = "idle" /\ level = tab /\ objects
    /\ pc' = "step"
    /\ UNCHANGED <<gl, alive, level, tab, type, objects, after, app>>

(* A read-back of MainWindow::ShaderStep.  A step may make several: the    *)
(* others are clicks of their own here.  getDebugImage and                 *)
(* getDebugVertexData end the session on a critical error, but the caller  *)
(* of the latter then sets RL_DBG_RESTART, unless it is a watch item that  *)
(* is updated.                                                             *)
ReadBack ==
    /\ pc = "step"
    /\ \E o \in Answer(ShaderStep(gl, Kind(level))) :
         \/ /\ o.err = "none"
            /\ gl' = o.gl /\ pc' = "idle"
            /\ UNCHANGED <<alive, level, objects, app>>
         \/ /\ o.err = "gl"
            /\ gl' = o.gl
            /\ pc' \in {"idle"} \cup (IF level = "fragment" THEN {} ELSE {"cleanup"})
            /\ UNCHANGED <<alive, level, objects, app>>
         \/ /\ o.err = "critical"
            /\ Gone /\ objects' = FALSE /\ pc' = "idle"
            /\ level' \in {"setup"} \cup (IF level = "fragment" THEN {} ELSE {"restart"})
    /\ UNCHANGED <<tab, type, after>>

Mut_CleanupTargetOnly ==
    /\ pc = "cleanup"
    /\ \E o \in Answer(RestoreTarget(gl, Kind(level))) :
         \/ o.err = "critical" /\ Gone
         \/ o.err # "critical" /\ gl' = o.gl /\ UNCHANGED <<alive, app>>
    /\ level' = "restart" /\ pc' = "idle"
    /\ UNCHANGED <<tab, type, objects, after>>

(* cleanupDBGShader, and RL_DBG_RESTART whatever came of it.               *)
CleanupDBGShader ==
    /\ pc = "cleanup"
    /\ \E o \in Answer(RestoreTarget(gl, Kind(level))) :
         \/ o.err = "critical" /\ Gone
         \/ o.err # "critical" /\ gl' = o.gl /\ UNCHANGED <<alive, app>>
    /\ level' = "restart" /\ objects' = FALSE /\ pc' = "idle"
    /\ UNCHANGED <<tab, type, after>>

-----------------------------------------------------------------------------
Handler ==
    \/ LeaveShader \/ LeaveQueries \/ LeaveReplay \/ AppCall
    \/ Interrupt \/ SetDbgTarget \/ Store
    \/ InitRecording \/ RecordCall \/ EventsDone
    \/ AbortEnd \/ AbortTarget \/ AbortShader \/ AbortReplay
    \/ Enter \/ ReadBack \/ CleanupDBGShader

User ==
    \/ ExecuteClicked \/ OpenAccepted \/ OpenCancelled \/ SelectTab
    \/ StepClicked \/ SkipClicked
    \/ ShaderExecuteClicked \/ ShaderStepClicked \/ PauseClicked

Next == Handler \/ User
Spec == Init /\ [][Next]_vars

-----------------------------------------------------------------------------
AtTrace == alive /\ pc = "idle" /\ level \in Trace

Calls(image) == [i \in DOMAIN image |-> image[i].call]

(* At the trace the application's image is what it drew: the recorded      *)
(* calls reach its own target exactly once, in order and with its shader.  *)
DrawnAsCalled ==
    AtTrace =>
        /\ Calls(gl.image) = called
        /\ \A i \in DOMAIN gl.image : gl.image[i].program = "app"

(* The counted effects of an image are those of the calls s, in order.     *)
Counted(image)   == {i \in DOMAIN image : image[i].counted}
CountedTo(image, i) == Cardinality(Counted(image) \cap 1 .. i)
Counts(image, s) ==
    /\ Cardinality(Counted(image)) = Len(s)
    /\ \A i \in Counted(image) : image[i].call = s[CountedTo(image, i)]

(* A query of the application counts what it has called: the recorded      *)
(* calls when the replay that ends a shader-debug session draws them.      *)
QueriesCount ==
    AtTrace => Counts(gl.image, called)

(* Nothing is drawn to the application's target more often than called.    *)
NothingDrawnTwice == Len(gl.image) <= Len(called)

(* When the user is back at the trace, the debug library has given back    *)
(* all it took.                                                            *)
TraceIsClean ==
    AtTrace =>
        /\ gl.target = "none" /\ gl.pushed = 0 /\ ~gl.feedback
        /\ gl.stored = "none" /\ gl.program = "app"
        /\ gl.recorded = <<>>

(* Whenever the user may step the shader or restart it, the debuggee holds *)
(* what this needs: the application's shader, the recorded draw call and,  *)
(* while a shader is debugged, that stage's target and its compiler.       *)
DebugIsReady ==
    alive /\ pc = "idle" /\ level \in Stages \cup {"restart"} =>
        /\ gl.stored = "app" /\ gl.recorded # <<>>
        /\ IF level = "restart"
           THEN gl.target = "none" /\ gl.pushed = 0 /\ ~objects
           ELSE gl.target = Kind(level) /\ gl.pushed = 1 /\ objects

(* A debugged shader is stepped only after the application's was stored.   *)
StoredForStep == pc = "step" /\ alive => gl.stored = "app"

(* Outside a session there are no objects of one to leak or to use.        *)
NoStaleObjects == level \notin Stages => ~objects

(* RL_SETUP is left behind only by running a program.                      *)
LevelHasDebuggee == pc = "idle" /\ level # "setup" => alive
-----------------------------------------------------------------------------
(* Why the library has given back all it took: what it holds at each       *)
(* control point of an undisturbed session.                                *)
Primitive(i)  == Frame[i] \in {"vertex", "end"}
Complete(s)   == s # <<>> /\ ~Inside(s[Len(s)])
Unfinished(s) == s # <<>> /\ Inside(s[Len(s)])

Holds(k, shader) ==
    /\ gl.target = k /\ gl.pushed = IF k = "none" THEN 0 ELSE 1
    /\ gl.stored = shader
    /\ ~gl.feedback

(* Nothing is held while the program is traced.                            *)
TraceInv ==
    \/ pc = "idle" /\ level \in Trace
    \/ pc = "app" /\ level \in Trace \cup {"restart"}
    \/ pc \in {"interrupt", "target"} /\ level = "debugable"
    =>  /\ Holds("none", "none") /\ gl.program = "app"
        /\ gl.recorded = <<>>
        /\ gl.open <=> Primitive(at)
        /\ level = "debugable" => Frame[at] \in Debuggable

(* The target, then the shader, then the recording.                        *)
StartInv ==
    pc \in {"store", "start"} =>
        /\ Holds(Kind(type), IF pc = "store" THEN "none" ELSE "app")
        /\ gl.program = "app" /\ gl.recorded = <<>> /\ ~gl.open
        /\ Frame[at] \in Debuggable

(* What is recorded is what is open in GL.                                 *)
RecordInv ==
    pc \in {"record", "events"} =>
        /\ Holds(Kind(type), "app") /\ gl.program = "app"
        /\ gl.open <=> Primitive(at)
        /\ IF gl.recorded = <<>> THEN pc = "record" /\ Frame[at] \in Debuggable
           ELSE Unfinished(gl.recorded) /\ Primitive(at)
        /\ PauseAt # {} => Kind(tab) = Kind(type)
        /\ \/ level = "record"
           \/ pc = "events" /\ level = "nodebug" /\ Frame[at] \in {"vertex"} \cap PauseAt

(* The undoing gives it back in the order in which it was taken.           *)
AbortInv ==
    pc \in {"abortEnd", "abortTarget", "abortShader", "abortReplay"} =>
        /\ Holds(IF pc \in {"abortEnd", "abortTarget"} THEN Kind(tab) ELSE "none",
                 IF pc = "abortReplay" THEN "none" ELSE "app")
        /\ gl.program = "app" /\ Unfinished(gl.recorded)
        /\ gl.open <=> pc = "abortEnd"
        /\ level = "nodebug" /\ Frame[at] = "vertex"

(* A debugged shader has its stage's target and a complete draw call.      *)
DebugInv ==
    \/ pc = "idle" /\ level \in Stages \cup {"restart"}
    \/ pc \in {"step", "cleanup", "enter", "leaveShader"}
    \/ pc = "target" /\ level = "restart"
    =>  /\ Holds(IF pc = "enter" THEN Kind(type)
                 ELSE IF level \in Stages THEN Kind(level) ELSE "none", "app")
        /\ Complete(gl.recorded) /\ ~gl.open /\ ~Primitive(at)

(* The shader is given back before the recording is replayed.              *)
LeaveInv ==
    pc \in {"leaveQueries", "leaveReplay"} =>
        /\ Holds("none", "none") /\ gl.program = "app"
        /\ Complete(gl.recorded) /\ ~gl.open /\ ~Primitive(at)

(* A handler that is not about the debugged shader finds none.             *)
ObjectsInv ==
    /\ NoStaleObjects
    /\ level \in Stages => pc \in {"idle", "step", "cleanup"}

(* Where the handlers are at each run level.                               *)
LevelInv ==
    /\ pc = "idle" => level \in Trace \cup Stages \cup {"restart"}
    /\ pc \in {"interrupt", "target", "store", "start"} => type = tab
    /\ pc = "interrupt" => level = "debugable"
    /\ pc = "target" => level \in {"debugable", "restart"}
    /\ pc \in {"store", "start"} => level = "record"
    /\ pc \in {"step", "cleanup"} => level \in Stages
    /\ pc = "enter" => level \in {"record", "restart"}
    /\ pc \in {"leaveShader", "leaveQueries", "leaveReplay"} => level = "restart"
    /\ pc = "app" => level \in Trace \cup {"restart"}
    /\ pc \in {"app", "leaveShader", "leaveQueries", "leaveReplay"} /\ after = "skip"
         => Frame[at] \in {"draw", "other"}
    /\ objects <=> level \in Stages

SInv == alive => /\ LevelInv /\ TraceInv /\ StartInv /\ RecordInv
                 /\ AbortInv /\ DebugInv /\ LeaveInv

(* The recorded calls are those that still have to be drawn.               *)
DrawInv ==
    alive => /\ Calls(gl.image) \o gl.recorded = called
             /\ \A i \in DOMAIN gl.image : gl.image[i].program = "app"

(* Why nothing is drawn twice, whatever fails, where no recording is given *)
(* up: while calls are recorded and replayed for the debug shader their    *)
(* output goes to the target, and elsewhere the recording is complete, and *)
(* gone before the application draws again.                                *)
OnceInv ==
    /\ Len(gl.image) + Len(gl.recorded) <= Len(called)
    /\ ~gl.feedback
    /\ gl.open => Primitive(at)
    /\ \/ pc \in {"store", "start", "record", "events", "enter", "step"}
       \/ pc = "idle" /\ objects
       => gl.target = "fragment"
    /\ level \in Trace \/ pc \in {"app", "store", "start"} => gl.recorded = <<>>
    /\ pc \notin {"record", "events"} =>
         /\ gl.recorded = <<>> \/ Complete(gl.recorded)
         /\ level \notin Trace => ~Primitive(at)
    /\ pc \in {"record", "events"} =>
         IF gl.recorded = <<>> THEN pc = "record" /\ Frame[at] \in Debuggable
         ELSE Unfinished(gl.recorded) /\ Primitive(at)
    /\ level = "debugable" \/ pc \in {"store", "start"} => Frame[at] \in Debuggable
    /\ pc \notin {"abortEnd", "abortTarget", "abortShader", "abortReplay"}
    /\ pc \in {"store", "start", "record", "events"} => level = "record"
    /\ pc = "interrupt" => level = "debugable"
    /\ pc = "target" => level \in {"debugable", "restart"}
    /\ pc = "enter" => level \in {"record", "restart"}
    /\ pc \in {"step", "cleanup"} => level \in Stages
    /\ pc \in {"leaveShader", "leaveQueries", "leaveReplay"} => level = "restart"
    /\ pc = "app" => level \in Trace \cup {"restart"}
    /\ pc \in {"app", "leaveShader", "leaveQueries", "leaveReplay"} /\ after = "skip"
         => Frame[at] \in {"draw", "other"}

(* What the query has counted and what is recorded are the calls made: it  *)
(* is stopped from the interruption to the replay, and marked then.        *)
QueryInv ==
    alive =>
      /\ \E n \in 0 .. Len(called) :
           /\ called = SubSeq(called, 1, n) \o gl.recorded
           /\ Counts(gl.image, SubSeq(called, 1, n))
      /\ IF (level \in Trace /\ pc # "target") \/ pc \in {"app", "leaveReplay"}
         THEN gl.query = "running"
         ELSE gl.query = "stopped" /\ gl.marked
      /\ pc \notin {"abortEnd", "abortTarget", "abortShader", "abortReplay"}
=============================================================================
