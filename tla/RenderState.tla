------------------------------ MODULE RenderState ------------------------------
(***************************************************************************)
(* What the debug library does to the debuggee's GL state while a shader   *)
(* is debugged: queries.c, glstate.c, the output targets of readback.c,    *)
(* the stored and the debug shader of shader.c, the recorder of            *)
(* streamRecorder.c and the commands of libglsldebug.c that combine them.  *)
(*                                                                         *)
(* An operation maps a state to the set of its outcomes [err, gl]: "none", *)
(* a GL error, which isErrorCritical lets pass, or a critical one.         *)
(***************************************************************************)
EXTENDS Integers, Sequences, FiniteSets

CONSTANTS
    Faults,    \* errors that may happen: a subset of {"gl", "critical"}
    MaxDepth   \* bound on what glPushAttrib holds

ASSUME RenderAssumption ==
    /\ Faults \subseteq {"gl", "critical"}
    /\ MaxDepth \in Nat \ {0}

(* The calls that matter: a draw call of its own, glBegin, a call between  *)
(* glBegin and glEnd, glEnd, the end of the frame, any other.              *)
CallKinds  == {"draw", "begin", "vertex", "end", "swap", "other"}
Debuggable == {"draw", "begin"}

Kinds    == {"feedback", "fragment"}
Programs == {"none", "app", "debug"}
Effects  == [call : CallKinds, program : Programs, counted : BOOLEAN]

(* program: the one in use; stored: storedShader.programHandle; pushed:    *)
(* the library's entries of the attribute stack, -1 when it took one of    *)
(* the application; query: the application has one; marked:                *)
(* Query.interrupted; feedback: transform feedback and rasterizer discard  *)
(* are on; open: between glBegin and glEnd; image: what the application's  *)
(* own target shows of this frame.                                         *)
GlStates ==
    [program  : Programs,
     stored   : Programs,
     pushed   : -1 .. MaxDepth,
     target   : {"none"} \cup Kinds,
     query    : {"running", "stopped"},
     marked   : BOOLEAN,
     feedback : BOOLEAN,
     open     : BOOLEAN,
     recorded : Seq(CallKinds),
     image    : Seq(Effects)]

Fresh == [program |-> "app", stored |-> "none", pushed |-> 0, target |-> "none",
          query |-> "running", marked |-> FALSE, feedback |-> FALSE,
          open |-> FALSE, recorded |-> <<>>, image |-> <<>>]

-----------------------------------------------------------------------------
Outcome(e, g) == [err |-> e, gl |-> g]
Ok(g)         == {Outcome("none", g)}
Fails(S)      == {Outcome(e, g) : e \in Faults, g \in S}

(* PCE_EXIT and failed allocations, where no GL error is looked for.       *)
Dies(g) == {Outcome(e, g) : e \in Faults \ {"gl"}}

(* Between glBegin and glEnd GL ignores what is not part of a primitive,   *)
(* glGetError included.                                                    *)
Outside(g, h) == IF g.open THEN g ELSE h

(* Calls in the state as it is: by the application or by                   *)
(* replayFunctionCalls.  The fragment target takes their output, and so    *)
(* does rasterizer discard; the feedback target alone does not.            *)
Effect(g, c) == [call |-> c, program |-> g.program,
                 counted |-> g.query = "running"]
Inside(c)    == c \in {"begin", "vertex"}

Execute(g, calls) ==
    [g EXCEPT
       !.open  = IF calls = <<>> THEN @ ELSE Inside(calls[Len(calls)]),
       !.image = IF g.target # "fragment" /\ ~g.feedback
                 THEN @ \o [i \in 1 .. Len(calls) |-> Effect(g, calls[i])]
                 ELSE @]

-----------------------------------------------------------------------------
Mut_InterruptOnly(g) ==
    Ok(Outside(g, [g EXCEPT !.query = "stopped", !.marked = FALSE])) \cup Dies(g)

InterruptQueries(g) ==
    LET ended == [g EXCEPT !.query = "stopped", !.marked = FALSE]
    IN  Ok(Outside(g, [ended EXCEPT !.marked = g.query = "running"]))
        \cup Dies(ended)

RestartQueries(g) ==
    Ok(Outside(g, [g EXCEPT !.query = IF g.marked THEN "running" ELSE @]))
    \cup Dies(g)

(* saveGLState and restoreGLState.  Without an entry of the library's own  *)
(* glPopAttrib fails or takes the application's.                           *)
Push(g) == IF g.pushed = MaxDepth
           THEN {Outcome("gl", g)}
           ELSE Ok([g EXCEPT !.pushed = @ + 1])

Mut_Pop(g) == Ok(g)

Pop(g) == (IF g.pushed >= 0 THEN Ok([g EXCEPT !.pushed = @ - 1]) ELSE {})
          \cup (IF g.pushed <= 0 THEN {Outcome("gl", g)} ELSE {})

(* setDbgOutputTarget: the buffers, and the attributes at the end.  The    *)
(* fragment variant leaves its framebuffer bound when a later call fails.  *)
SetTarget(g, k) ==
    LET bound == [g EXCEPT !.target = k]
        left  == IF k = "fragment" THEN bound ELSE g
    IN  IF g.open THEN Ok(g)
        ELSE Fails({g, left})
             \cup {IF p.err = "none" THEN p ELSE Outcome(p.err, left)
                     : p \in Push(bound)}

(* restoreOutputTargetVertexData or -FragmentData.                         *)
Release(g, k) == IF g.target = k THEN [g EXCEPT !.target = "none"] ELSE g

Mut_RestoreTarget(g, k) ==
    Ok(Outside(g, Release(g, k))) \cup Fails({g, Release(g, k)})

RestoreTarget(g, k) ==
    IF g.open THEN Ok(g)
    ELSE Fails({g})
         \cup UNION {IF p.err # "none" THEN {p}
                     ELSE Ok(Release(p.gl, k))
                          \cup Fails({p.gl, Release(p.gl, k)}) : p \in Pop(g)}

-----------------------------------------------------------------------------
StoreShader(g) ==
    LET stored == [g EXCEPT !.stored = g.program]
    IN  Ok(stored) \cup Fails({g, stored})

(* glUseProgram is an error while transform feedback is on.                *)
RestoreShader(g) ==
    IF g.feedback THEN {Outcome("gl", g)}
    ELSE Ok(Outside(g, [g EXCEPT !.program = g.stored, !.stored = "none"]))
         \cup Fails({g})

StartRecording(g) == Ok([g EXCEPT !.recorded = <<>>]) \cup Dies(g)

(* The hook records the call and falls through to the original.            *)
Record(g, c) ==
    Ok(Execute([g EXCEPT !.recorded = Append(@, c)], <<c>>)) \cup Dies(g)

(* loadDbgShader needs a stored shader.  setSavedGLState pops the          *)
(* attributes and pushes them again; for a vertex or geometry shader the   *)
(* replay runs under transform feedback, which its errors leave on.        *)
ShaderStep(g, k) ==
    LET loaded == [g EXCEPT !.program = "debug"]
        begun(h) == [h EXCEPT !.feedback = k = "feedback"]
        ended(h) == [Execute(begun(h), h.recorded) EXCEPT !.feedback = FALSE]
    IN  IF g.stored = "none" THEN {Outcome("critical", g)}
        ELSE IF g.feedback THEN {Outcome("gl", g)}
        ELSE Fails({g, loaded})
             \cup UNION {IF p.err # "none" THEN {p}
                         ELSE LET saved == [p.gl EXCEPT !.pushed = @ + 1]
                              IN  Ok(ended(saved)) \cup Fails({saved, begun(saved)})
                           : p \in Pop(loaded)}

CallGlEnd(g) == Ok(Execute(g, <<"end">>)) \cup Fails({g})

Mut_EndReplayTwice(g) ==
    Ok([Execute(Execute(g, g.recorded), g.recorded) EXCEPT !.recorded = <<>>])
    \cup Dies(g)

EndReplay(g) ==
    LET replayed == [Execute(g, g.recorded) EXCEPT !.recorded = <<>>]
    IN  Ok(replayed) \cup Fails({replayed})
=============================================================================
