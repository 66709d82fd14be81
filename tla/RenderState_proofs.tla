--------------------------- MODULE RenderState_proofs ---------------------------
(***************************************************************************)
(* What the operations of RenderState return, for every state and every    *)
(* set of faults: the lemmas about one command of the debug library on     *)
(* which the proofs about a session rest.                                  *)
(***************************************************************************)
EXTENDS RenderState, TLAPS

(* What an operation may answer.                                           *)
Outcomes == [err : {"none", "gl", "critical"}, gl : GlStates]

(* Calls have effects of the right type.                                   *)
LEMMA ExecuteTyped ==
    ASSUME NEW g \in GlStates, NEW calls \in Seq(CallKinds)
    PROVE  Execute(g, calls) \in GlStates
<1> DEFINE effects == [i \in 1 .. Len(calls) |-> Effect(g, calls[i])]
<1>1. effects \in Seq(Effects)
  BY DEF Effect, Effects, GlStates
<1>2. g.image \o effects \in Seq(Effects)
  BY <1>1 DEF GlStates
<1>3. (IF calls = <<>> THEN g.open ELSE Inside(calls[Len(calls)])) \in BOOLEAN
  <2>1. g.open \in BOOLEAN
    BY DEF GlStates
  <2>2. Inside(calls[Len(calls)]) \in BOOLEAN
    BY DEF Inside
  <2> QED
    BY <2>1, <2>2
<1> HIDE DEF effects
<1> QED
  BY <1>1, <1>2, <1>3 DEF Execute, GlStates, effects

(* A success, or the end of the debuggee.                                  *)
LEMMA AnswersTyped ==
    ASSUME NEW g \in GlStates, NEW h \in GlStates
    PROVE  Ok(Outside(g, h)) \subseteq Outcomes /\ Dies(h) \subseteq Outcomes
<1>1. Outside(g, h) \in GlStates
  BY DEF Outside
<1>2. Ok(Outside(g, h)) \subseteq Outcomes
  BY <1>1 DEF Ok, Outcome, Outcomes
<1>3. Dies(h) \subseteq Outcomes
  BY RenderAssumption DEF Dies, Outcome, Outcomes
<1> QED
  BY <1>2, <1>3

(* Ending and restarting the query.                                        *)
LEMMA QueriesTyped ==
    ASSUME NEW g \in GlStates
    PROVE  InterruptQueries(g) \cup RestartQueries(g) \subseteq Outcomes
<1> DEFINE ended == [g EXCEPT !.query = "stopped", !.marked = FALSE]
           asked == [ended EXCEPT !.marked = g.query = "running"]
           going == [g EXCEPT !.query = IF g.marked THEN "running" ELSE @]
<1>1. (g.query = "running") \in BOOLEAN
  OBVIOUS
<1>2. ended \in GlStates /\ going \in GlStates
  BY DEF GlStates
<1>3. asked \in GlStates
  BY <1>1, <1>2 DEF GlStates
<1> HIDE DEF ended, asked, going
<1>4. InterruptQueries(g) = Ok(Outside(g, asked)) \cup Dies(ended)
  BY DEF InterruptQueries, ended, asked
<1>5. RestartQueries(g) = Ok(Outside(g, going)) \cup Dies(g)
  BY DEF RestartQueries, going
<1> QED
  BY <1>2, <1>3, <1>4, <1>5, AnswersTyped

(* The attribute stack.                                                    *)
LEMMA StackTyped ==
    ASSUME NEW g \in GlStates
    PROVE  Push(g) \cup Pop(g) \subseteq Outcomes
BY RenderAssumption DEF Push, Pop, Ok, Outcome, Outcomes, GlStates

(* The output target.                                                      *)
LEMMA TargetTyped ==
    ASSUME NEW g \in GlStates, NEW k \in Kinds
    PROVE  SetTarget(g, k) \cup RestoreTarget(g, k) \subseteq Outcomes
<1>1. ASSUME NEW h \in GlStates PROVE Release(h, k) \in GlStates
  BY DEF Release, GlStates
<1>2. [g EXCEPT !.target = k] \in GlStates
  BY DEF GlStates
<1>3. SetTarget(g, k) \subseteq Outcomes
  BY <1>2, StackTyped, RenderAssumption DEF SetTarget, Ok, Fails, Outcome, Outcomes
<1>4. RestoreTarget(g, k) \subseteq Outcomes
  BY <1>1, StackTyped, RenderAssumption DEF RestoreTarget, Ok, Fails, Outcome, Outcomes
<1> QED
  BY <1>3, <1>4

(* The application's shader.                                               *)
LEMMA ShaderTyped ==
    ASSUME NEW g \in GlStates
    PROVE  StoreShader(g) \cup RestoreShader(g) \subseteq Outcomes
<1>1. [g EXCEPT !.stored = g.program] \in GlStates
  BY DEF GlStates
<1>2. [g EXCEPT !.program = g.stored, !.stored = "none"] \in GlStates
  BY DEF GlStates, Programs
<1> QED
  BY <1>1, <1>2, RenderAssumption
     DEF StoreShader, RestoreShader, Ok, Fails, Outside, Outcome, Outcomes

(* The recording.                                                          *)
LEMMA RecordingTyped ==
    ASSUME NEW g \in GlStates, NEW c \in CallKinds
    PROVE  StartRecording(g) \cup Record(g, c) \cup CallGlEnd(g) \cup EndReplay(g)
             \subseteq Outcomes
<1> DEFINE longer == Append(g.recorded, c)
<1>1. ASSUME NEW h \in GlStates PROVE [h EXCEPT !.recorded = <<>>] \in GlStates
  <2>1. <<>> \in Seq(CallKinds)
    OBVIOUS
  <2> QED
    BY <2>1 DEF GlStates
<1>2. [g EXCEPT !.recorded = Append(@, c)] \in GlStates
  <2>1. longer \in Seq(CallKinds)
    BY DEF GlStates
  <2> HIDE DEF longer
  <2>2. [g EXCEPT !.recorded = longer] \in GlStates
    BY <2>1 DEF GlStates
  <2> QED
    BY <2>2 DEF longer
<1>3. g.recorded \in Seq(CallKinds) /\ <<c>> \in Seq(CallKinds) /\ <<"end">> \in Seq(CallKinds)
  BY DEF GlStates, CallKinds
<1>4. Execute([g EXCEPT !.recorded = Append(@, c)], <<c>>) \in GlStates
  BY <1>2, <1>3, ExecuteTyped
<1>5. Execute(g, <<"end">>) \in GlStates /\ Execute(g, g.recorded) \in GlStates
  BY <1>3, ExecuteTyped
<1> QED
  BY <1>1, <1>4, <1>5, RenderAssumption
     DEF StartRecording, Record, CallGlEnd, EndReplay, Ok, Dies, Fails, Outcome, Outcomes

(* What is taken off the attribute stack and put there again.              *)
LEMMA SavedAgain ==
    ASSUME NEW g \in GlStates, NEW p \in Pop(g), p.err = "none"
    PROVE  [p.gl EXCEPT !.pushed = @ + 1] = g
<1>1. p.gl = [g EXCEPT !.pushed = @ - 1]
  BY DEF Pop, Ok, Outcome
<1>2. g.pushed \in Int /\ g.pushed - 1 + 1 = g.pushed
  BY RenderAssumption DEF GlStates
<1>3. p.gl.pushed = g.pushed - 1
  BY <1>1 DEF GlStates
<1>4. g = [g EXCEPT !.pushed = g.pushed]
  BY DEF GlStates
<1> QED
  BY <1>1, <1>2, <1>3, <1>4 DEF GlStates

(* A step of the debug shader.                                             *)
LEMMA StepTyped ==
    ASSUME NEW g \in GlStates, NEW k \in Kinds
    PROVE  ShaderStep(g, k) \subseteq Outcomes
<1> DEFINE loaded == [g EXCEPT !.program = "debug"]
           saved(p) == [p.gl EXCEPT !.pushed = @ + 1]
           begun(h) == [h EXCEPT !.feedback = k = "feedback"]
           ended(h) == [Execute(begun(h), h.recorded) EXCEPT !.feedback = FALSE]
           answers(p) == IF p.err # "none" THEN {p}
                         ELSE Ok(ended(saved(p))) \cup Fails({saved(p), begun(saved(p))})
<1>1. loaded \in GlStates
  BY DEF GlStates, Programs
<1>2. ASSUME NEW p \in Pop(loaded), p.err = "none" PROVE saved(p) = loaded
  BY <1>1, <1>2, SavedAgain
<1>3. begun(loaded) \in GlStates
  BY <1>1 DEF GlStates
<1>4. loaded.recorded \in Seq(CallKinds)
  BY <1>1 DEF GlStates
<1>5. Execute(begun(loaded), loaded.recorded) \in GlStates
  BY <1>3, <1>4, ExecuteTyped
<1>6. ended(loaded) \in GlStates
  BY <1>5 DEF GlStates
<1>7. Pop(loaded) \subseteq Outcomes
  BY <1>1, StackTyped
<1> HIDE DEF loaded, saved, begun, ended
<1>8. ASSUME NEW p \in Pop(loaded) PROVE answers(p) \subseteq Outcomes
  BY <1>1, <1>2, <1>3, <1>6, <1>7, RenderAssumption DEF Ok, Fails, Outcome, Outcomes
<1>9. Fails({g, loaded}) \subseteq Outcomes
  BY <1>1, RenderAssumption DEF Fails, Outcome, Outcomes
<1>10. Outcome("critical", g) \in Outcomes /\ Outcome("gl", g) \in Outcomes
  BY DEF Outcome, Outcomes
<1>11. ShaderStep(g, k) = IF g.stored = "none" THEN {Outcome("critical", g)}
                          ELSE IF g.feedback THEN {Outcome("gl", g)}
                          ELSE Fails({g, loaded}) \cup UNION {answers(p) : p \in Pop(loaded)}
  BY DEF ShaderStep, loaded, saved, begun, ended
<1> HIDE DEF answers
<1>12. UNION {answers(p) : p \in Pop(loaded)} \subseteq Outcomes
  BY <1>8
<1> QED
  BY <1>9, <1>10, <1>11, <1>12
-----------------------------------------------------------------------------
(* What each operation does where GL reports no errors, in the situation   *)
(* in which a session uses it, unless the debuggee dies of it.             *)

(* Calls change what is open and what is drawn.                            *)
LEMMA ExecuteKeeps ==
    ASSUME NEW g \in GlStates, NEW calls \in Seq(CallKinds)
    PROVE  /\ Execute(g, calls).program = g.program
           /\ Execute(g, calls).stored = g.stored
           /\ Execute(g, calls).pushed = g.pushed
           /\ Execute(g, calls).target = g.target
           /\ Execute(g, calls).query = g.query
           /\ Execute(g, calls).marked = g.marked
           /\ Execute(g, calls).feedback = g.feedback
           /\ Execute(g, calls).recorded = g.recorded
           /\ Execute(g, calls).open =
                IF calls = <<>> THEN g.open ELSE Inside(calls[Len(calls)])
BY DEF Execute, GlStates

(* Outside of a primitive the query is ended and restarted.                *)
LEMMA QueriesWork ==
    ASSUME NEW g \in GlStates, ~g.open
    PROVE  /\ \A o \in InterruptQueries(g) : o.err # "critical" =>
                /\ o.err = "none"
                /\ o.gl = [g EXCEPT !.query = "stopped", !.marked = g.query = "running"]
           /\ \A o \in RestartQueries(g) : o.err # "critical" =>
                /\ o.err = "none"
                /\ o.gl = [g EXCEPT !.query = IF g.marked THEN "running" ELSE @]
<1> DEFINE ended == [g EXCEPT !.query = "stopped", !.marked = FALSE]
           asked == [g EXCEPT !.query = "stopped", !.marked = g.query = "running"]
           going == [g EXCEPT !.query = IF g.marked THEN "running" ELSE @]
<1>1. [ended EXCEPT !.marked = g.query = "running"] = asked
  BY DEF GlStates
<1> HIDE DEF ended, asked, going
<1>2. InterruptQueries(g) = Ok(asked) \cup Dies(ended)
  BY <1>1 DEF InterruptQueries, Outside, ended
<1>3. RestartQueries(g) = Ok(going) \cup Dies(g)
  BY DEF RestartQueries, Outside, going
<1>4. \A o \in InterruptQueries(g) : o.err # "critical" => o.err = "none" /\ o.gl = asked
  BY <1>2, RenderAssumption DEF Ok, Dies, Outcome
<1>5. \A o \in RestartQueries(g) : o.err # "critical" => o.err = "none" /\ o.gl = going
  BY <1>3, RenderAssumption DEF Ok, Dies, Outcome
<1> QED
  BY <1>4, <1>5 DEF asked, going

(* An entry of the library's own is taken off the attribute stack.         *)
LEMMA PopWorks ==
    ASSUME NEW g \in GlStates, g.pushed = 1
    PROVE  Pop(g) = {Outcome("none", [g EXCEPT !.pushed = 0])}
<1>1. g.pushed - 1 = 0 /\ g.pushed >= 0 /\ ~(g.pushed <= 0)
  OBVIOUS
<1> QED
  BY <1>1 DEF Pop, Ok

(* There is room for the library's attributes.                             *)
LEMMA SetTargetWorks ==
    ASSUME "gl" \notin Faults, NEW g \in GlStates, NEW k \in Kinds, ~g.open,
           g.pushed = 0
    PROVE  \A o \in SetTarget(g, k) : o.err # "critical" =>
             o.err = "none" /\ o.gl = [g EXCEPT !.target = k, !.pushed = 1]
<1> SUFFICES ASSUME NEW o \in SetTarget(g, k), o.err # "critical"
             PROVE  o.err = "none" /\ o.gl = [g EXCEPT !.target = k, !.pushed = 1]
  OBVIOUS
<1> DEFINE bound == [g EXCEPT !.target = k]
<1>1. bound.pushed + 1 = 1 /\ bound.pushed # MaxDepth
  BY RenderAssumption DEF GlStates
<1> HIDE DEF bound
<1>2. Push(bound) = {Outcome("none", [bound EXCEPT !.pushed = 1])}
  BY <1>1 DEF Push, Ok
<1>3. o = Outcome("none", [bound EXCEPT !.pushed = 1])
  BY <1>2, RenderAssumption DEF SetTarget, Ok, Fails, Outcome, bound
<1> QED
  BY <1>3 DEF Outcome, bound

(* They are found again, and the target is given back.                     *)
LEMMA RestoreTargetWorks ==
    ASSUME "gl" \notin Faults, NEW g \in GlStates, NEW k \in Kinds, ~g.open,
           g.pushed = 1, g.target = k
    PROVE  \A o \in RestoreTarget(g, k) : o.err # "critical" =>
             o.err = "none" /\ o.gl = [g EXCEPT !.target = "none", !.pushed = 0]
<1> SUFFICES ASSUME NEW o \in RestoreTarget(g, k), o.err # "critical"
             PROVE  o.err = "none" /\ o.gl = [g EXCEPT !.target = "none", !.pushed = 0]
  OBVIOUS
<1> DEFINE popped == [g EXCEPT !.pushed = 0]
<1>1. Pop(g) = {Outcome("none", popped)}
  BY PopWorks
<1>2. popped.target = k
  BY DEF GlStates
<1> HIDE DEF popped
<1>3. RestoreTarget(g, k) =
        Fails({g}) \cup (Ok(Release(popped, k)) \cup Fails({popped, Release(popped, k)}))
  BY <1>1 DEF RestoreTarget, Outcome
<1>4. o = Outcome("none", [popped EXCEPT !.target = "none"])
  BY <1>2, <1>3, RenderAssumption DEF Release, Ok, Fails, Outcome
<1> QED
  BY <1>4 DEF Outcome, popped

(* The application's shader is put aside and taken up again.               *)
LEMMA ShaderWorks ==
    ASSUME "gl" \notin Faults, NEW g \in GlStates
    PROVE  /\ \A o \in StoreShader(g) : o.err # "critical" =>
                o.err = "none" /\ o.gl = [g EXCEPT !.stored = g.program]
           /\ ~g.open /\ ~g.feedback => \A o \in RestoreShader(g) : o.err # "critical" =>
                /\ o.err = "none"
                /\ o.gl = [g EXCEPT !.program = g.stored, !.stored = "none"]
BY RenderAssumption DEF StoreShader, RestoreShader, Ok, Fails, Outside, Outcome

(* A recording is begun, completed and replayed.                           *)
LEMMA RecordingWorks ==
    ASSUME "gl" \notin Faults, NEW g \in GlStates
    PROVE  /\ \A o \in StartRecording(g) : o.err # "critical" =>
                o.err = "none" /\ o.gl = [g EXCEPT !.recorded = <<>>]
           /\ \A o \in CallGlEnd(g) : o.err # "critical" =>
                o.err = "none" /\ o.gl = Execute(g, <<"end">>)
           /\ \A o \in EndReplay(g) : o.err # "critical" =>
                /\ o.err = "none"
                /\ o.gl = [Execute(g, g.recorded) EXCEPT !.recorded = <<>>]
BY RenderAssumption
   DEF StartRecording, CallGlEnd, EndReplay, Ok, Fails, Dies, Outcome

(* A recorded call is executed as well.                                    *)
LEMMA RecordWorks ==
    ASSUME NEW g \in GlStates, NEW c \in CallKinds, NEW o \in Record(g, c),
           o.err # "critical"
    PROVE  /\ o.err = "none"
           /\ o.gl = Execute([g EXCEPT !.recorded = Append(g.recorded, c)], <<c>>)
BY RenderAssumption DEF Record, Ok, Dies, Outcome

(* The debug shader replays the recording, into the target if it is a      *)
(* fragment shader and under transform feedback if it is another.          *)
LEMMA StepWorks ==
    ASSUME "gl" \notin Faults, NEW g \in GlStates, NEW k \in Kinds,
           g.stored # "none", ~g.feedback, g.pushed = 1
    PROVE  \A o \in ShaderStep(g, k) : o.err # "critical" =>
             /\ o.err = "none"
             /\ o.gl = [Execute([g EXCEPT !.program = "debug", !.feedback = k = "feedback"],
                                g.recorded) EXCEPT !.feedback = FALSE]
<1> SUFFICES ASSUME NEW o \in ShaderStep(g, k), o.err # "critical"
             PROVE  /\ o.err = "none"
                    /\ o.gl = [Execute([g EXCEPT !.program = "debug",
                                                 !.feedback = k = "feedback"],
                                       g.recorded) EXCEPT !.feedback = FALSE]
  OBVIOUS
<1> DEFINE loaded == [g EXCEPT !.program = "debug"]
           saved(p) == [p.gl EXCEPT !.pushed = @ + 1]
           begun(h) == [h EXCEPT !.feedback = k = "feedback"]
           ended(h) == [Execute(begun(h), h.recorded) EXCEPT !.feedback = FALSE]
<1>1. loaded \in GlStates /\ loaded.pushed = 1 /\ loaded.recorded = g.recorded
  BY DEF GlStates, Programs
<1>2. Pop(loaded) = {Outcome("none", [loaded EXCEPT !.pushed = 0])}
  BY <1>1, PopWorks
<1>3. saved(Outcome("none", [loaded EXCEPT !.pushed = 0])) = loaded
  <2>1. Outcome("none", [loaded EXCEPT !.pushed = 0]).err = "none"
    BY DEF Outcome
  <2> QED
    BY <1>1, <1>2, <2>1, SavedAgain
<1> HIDE DEF loaded, saved, begun, ended
<1>4. ShaderStep(g, k) =
        Fails({g, loaded})
        \cup UNION {IF p.err # "none" THEN {p}
                    ELSE Ok(ended(saved(p))) \cup Fails({saved(p), begun(saved(p))})
                      : p \in Pop(loaded)}
  BY DEF ShaderStep, loaded, saved, begun, ended
<1>5. o = Outcome("none", ended(loaded))
  BY <1>2, <1>3, <1>4, RenderAssumption DEF Ok, Fails, Outcome
<1>6. begun(loaded) = [g EXCEPT !.program = "debug", !.feedback = k = "feedback"]
  BY DEF begun, loaded
<1> QED
  BY <1>1, <1>5, <1>6 DEF Outcome, ended
=============================================================================
