-------------------------- MODULE ShaderDrawing_proofs --------------------------
(***************************************************************************)
(* What a shader-debug session does to the application's image: theorems   *)
(* about ShaderDebug that rest on those of ShaderDebug_proofs.             *)
(***************************************************************************)
EXTENDS ShaderDebug_proofs, SequenceTheorems

(* The effects that calls have where they reach the image.                 *)
Drawn(g, calls) == [i \in 1 .. Len(calls) |-> Effect(g, calls[i])]
Reaches(g)      == g.target # "fragment" /\ ~g.feedback

(* The image goes on by these effects, unless the output is diverted.      *)
LEMMA ExecuteDraws ==
    ASSUME NEW g \in GlStates, NEW calls \in Seq(CallKinds)
    PROVE  Execute(g, calls).image =
             IF Reaches(g) THEN g.image \o Drawn(g, calls) ELSE g.image
BY DEF Execute, Drawn, Reaches, GlStates

(* They are those of the calls, one by one and in order.                   *)
LEMMA DrawnCalls ==
    ASSUME NEW g \in GlStates, NEW calls \in Seq(CallKinds)
    PROVE  /\ Drawn(g, calls) \in Seq(Effects) /\ Len(Drawn(g, calls)) = Len(calls)
           /\ Calls(Drawn(g, calls)) = calls
           /\ \A i \in DOMAIN Drawn(g, calls) :
                Drawn(g, calls)[i].program = g.program
<1>1. /\ Drawn(g, calls) \in Seq(Effects) /\ Len(Drawn(g, calls)) = Len(calls)
      /\ DOMAIN Drawn(g, calls) = 1 .. Len(calls)
  BY DEF Drawn, Effect, Effects, GlStates
<1>2. \A i \in 1 .. Len(calls) :
        Drawn(g, calls)[i].call = calls[i] /\ Drawn(g, calls)[i].program = g.program
  BY DEF Drawn, Effect
<1>3. Calls(Drawn(g, calls)) = calls
  BY <1>1, <1>2 DEF Calls
<1> QED
  BY <1>1, <1>2, <1>3

(* The image grows by the number of calls drawn.                           *)
LEMMA DrawnLength ==
    ASSUME NEW g \in GlStates, NEW calls \in Seq(CallKinds)
    PROVE  /\ g.image \o Drawn(g, calls) \in Seq(Effects)
           /\ Len(g.image \o Drawn(g, calls)) = Len(g.image) + Len(calls)
<1> DEFINE s == g.image
           t == Drawn(g, calls)
<1>1. s \in Seq(Effects) /\ t \in Seq(Effects) /\ Len(t) = Len(calls)
  BY DrawnCalls DEF GlStates
<1> HIDE DEF s, t
<1>2. s \o t \in Seq(Effects) /\ Len(s \o t) = Len(s) + Len(t)
  BY <1>1, ConcatProperties
<1> QED
  BY <1>1, <1>2 DEF s, t

(* A replay makes it longer by at most the calls replayed.                 *)
LEMMA ReplayLength ==
    ASSUME NEW g \in GlStates, NEW calls \in Seq(CallKinds),
           NEW image \in {g.image, g.image \o Drawn(g, calls)}
    PROVE  Len(image) \in Nat /\ Len(image) <= Len(g.image) + Len(calls)
<1>1. Len(g.image) \in Nat /\ Len(calls) \in Nat
  BY DEF GlStates
<1>2. CASE image = g.image
  BY <1>1, <1>2
<1>3. CASE image = g.image \o Drawn(g, calls)
  BY <1>1, <1>3, DrawnLength
<1> QED
  BY <1>2, <1>3

(* The calls of an image.                                                  *)
LEMMA CallsTyped ==
    ASSUME NEW s \in Seq(Effects)
    PROVE  Calls(s) \in Seq(CallKinds) /\ Len(Calls(s)) = Len(s)
<1>1. \A i \in DOMAIN s : s[i] \in Effects
  OBVIOUS
<1>2. \A i \in DOMAIN s : s[i].call \in CallKinds
  BY <1>1 DEF Effects
<1> QED
  BY <1>2 DEF Calls

(* The calls of a longer image are those of its parts.                     *)
LEMMA CallsConcat ==
    ASSUME NEW s \in Seq(Effects), NEW t \in Seq(Effects)
    PROVE  Calls(s \o t) = Calls(s) \o Calls(t)
<1> DEFINE a == Calls(s)
           b == Calls(t)
           c == Calls(s \o t)
<1>1. /\ s \o t \in Seq(Effects) /\ Len(s \o t) = Len(s) + Len(t)
      /\ \A i \in 1 .. Len(s) + Len(t) :
           (s \o t)[i] = IF i <= Len(s) THEN s[i] ELSE t[i - Len(s)]
  BY ConcatProperties
<1>2. /\ a \in Seq(CallKinds) /\ b \in Seq(CallKinds)
      /\ Len(a) = Len(s) /\ Len(b) = Len(t)
  BY CallsTyped
<1>3. c \in Seq(CallKinds) /\ Len(c) = Len(s) + Len(t)
  BY <1>1, CallsTyped
<1>4. /\ \A i \in 1 .. Len(s) : a[i] = s[i].call
      /\ \A i \in 1 .. Len(t) : b[i] = t[i].call
      /\ \A i \in 1 .. Len(s) + Len(t) : c[i] = (s \o t)[i].call
  BY <1>1 DEF Calls
<1> HIDE DEF a, b, c
<1>5. /\ a \o b \in Seq(CallKinds) /\ Len(a \o b) = Len(s) + Len(t)
      /\ \A i \in 1 .. Len(s) + Len(t) :
           (a \o b)[i] = IF i <= Len(s) THEN a[i] ELSE b[i - Len(s)]
  <2>1. /\ a \o b \in Seq(CallKinds) /\ Len(a \o b) = Len(a) + Len(b)
        /\ \A i \in 1 .. Len(a) + Len(b) :
             (a \o b)[i] = IF i <= Len(a) THEN a[i] ELSE b[i - Len(a)]
    BY <1>2, ConcatProperties, Zenon
  <2> QED
    BY <1>2, <2>1, Zenon
<1>6. ASSUME NEW i \in 1 .. Len(s) + Len(t)
      PROVE  c[i] = (a \o b)[i]
  <2>1. CASE i <= Len(s)
    <3>1. i \in 1 .. Len(s)
      BY <2>1
    <3> QED
      BY <1>1, <1>4, <1>5, <2>1, <3>1
  <2>2. CASE i > Len(s)
    <3>1. i - Len(s) \in 1 .. Len(t) /\ ~(i <= Len(s))
      BY <2>2
    <3> QED
      BY <1>1, <1>4, <1>5, <3>1
  <2>3. i <= Len(s) \/ i > Len(s)
    OBVIOUS
  <2> QED
    BY <2>1, <2>2, <2>3
<1>7. c = a \o b
  BY <1>3, <1>5, <1>6, SeqEqual
<1> QED
  BY <1>7 DEF a, b, c

(* A call is appended to the second of two parts.                          *)
LEMMA ConcatAppend ==
    ASSUME NEW s \in Seq(CallKinds), NEW t \in Seq(CallKinds), NEW c \in CallKinds
    PROVE  s \o Append(t, c) = Append(s \o t, c)
<1> DEFINE one == <<c>>
<1>1. one \in Seq(CallKinds)
  OBVIOUS
<1>2. s \o t \in Seq(CallKinds)
  BY ConcatProperties
<1>3. Append(t, c) = t \o one /\ Append(s \o t, c) = (s \o t) \o one
  BY <1>2, AppendIsConcat
<1> HIDE DEF one
<1>4. (s \o t) \o one = s \o (t \o one)
  BY <1>1, ConcatAssociative
<1> QED
  BY <1>3, <1>4, Zenon

-----------------------------------------------------------------------------
(* The steps that neither call nor draw nor record.                        *)
QuietStep ==
    \/ LeaveShader \/ LeaveQueries \/ Interrupt \/ SetDbgTarget \/ Store
    \/ InitRecording \/ EventsDone \/ AbortTarget \/ AbortShader \/ Enter
    \/ CleanupDBGShader \/ SelectTab \/ StepClicked \/ SkipClicked
    \/ ShaderExecuteClicked \/ ShaderStepClicked \/ PauseClicked

(* Such a step draws nothing, records nothing, and touches the query only  *)
(* where it says so.                                                       *)
LEMMA QuietDraws ==
    ASSUME Undisturbed, TypeOK, SInv, alive', QuietStep
    PROVE  /\ alive /\ called' = called
           /\ gl'.image = gl.image /\ gl'.recorded = gl.recorded
           /\ \/ gl'.query = gl.query /\ gl'.marked = gl.marked
              \/ Interrupt
              \/ LeaveQueries
<1>1. gl \in GlStates
  BY Typed
<1>2. CASE LeaveShader
  BY <1>1, <1>2, LeaveShaderStep DEF GlStates, rest
<1>3. CASE LeaveQueries
  BY <1>1, <1>3, LeaveQueriesStep DEF GlStates, rest
<1>4. CASE Interrupt
  BY <1>1, <1>4, InterruptStep DEF GlStates, rest
<1>5. CASE SetDbgTarget
  BY <1>1, <1>5, SetDbgTargetStep DEF GlStates
<1>6. CASE Store
  BY <1>1, <1>6, StoreStep DEF GlStates, rest
<1>7. CASE InitRecording
  <2>1. gl.recorded = <<>>
    BY <1>7, InitRecordingStep DEF SInv, StartInv
  <2> QED
    BY <1>1, <1>7, <2>1, InitRecordingStep DEF GlStates
<1>8. CASE AbortTarget
  BY <1>1, <1>8, AbortTargetStep DEF GlStates, rest
<1>9. CASE AbortShader
  BY <1>1, <1>9, AbortShaderStep DEF GlStates, rest
<1>10. CASE CleanupDBGShader
  BY <1>1, <1>10, CleanupDBGShaderStep DEF GlStates
<1>11. CASE \/ EventsDone \/ Enter \/ SelectTab \/ StepClicked \/ SkipClicked
            \/ ShaderExecuteClicked \/ ShaderStepClicked \/ PauseClicked
  BY <1>11 DEF EventsDone, Enter, SelectTab, StepClicked, SkipClicked, Traced,
     ShaderExecuteClicked, ShaderStepClicked, PauseClicked, app
<1> QED
  BY <1>2, <1>3, <1>4, <1>5, <1>6, <1>7, <1>8, <1>9, <1>10, <1>11 DEF QuietStep

(* The debug shader draws the recording, and the query stays as it is.     *)
LEMMA ReadBackDraws ==
    ASSUME Undisturbed, TypeOK, SInv, alive', ReadBack
    PROVE  /\ alive /\ called' = called /\ gl'.recorded = gl.recorded
           /\ gl'.query = gl.query /\ gl'.marked = gl.marked
           /\ \/ gl'.image = gl.image
              \/ /\ Kind(level) # "fragment"
                 /\ \E g \in GlStates :
                      /\ g.query = gl.query
                      /\ gl'.image = gl.image \o Drawn(g, gl.recorded)
<1> DEFINE begun == [gl EXCEPT !.program = "debug",
                               !.feedback = Kind(level) = "feedback"]
<1>1. gl \in GlStates /\ gl.recorded \in Seq(CallKinds)
  BY Typed
<1>2. /\ alive /\ called' = called /\ gl.target = Kind(level)
      /\ gl' = [Execute(begun, gl.recorded) EXCEPT !.feedback = FALSE]
  BY ReadBackStep DEF Holds
<1>3. /\ begun \in GlStates /\ begun.target = Kind(level)
      /\ begun.image = gl.image /\ begun.recorded = gl.recorded
      /\ begun.query = gl.query /\ begun.marked = gl.marked
  BY <1>1, <1>2 DEF GlStates, Programs
<1> HIDE DEF begun
<1>4. /\ Execute(begun, gl.recorded) \in GlStates
      /\ Execute(begun, gl.recorded).recorded = gl.recorded
      /\ Execute(begun, gl.recorded).query = gl.query
      /\ Execute(begun, gl.recorded).marked = gl.marked
      /\ Execute(begun, gl.recorded).image =
           IF Reaches(begun) THEN gl.image \o Drawn(begun, gl.recorded) ELSE gl.image
  BY <1>1, <1>3, ExecuteTyped, ExecuteDraws, ExecuteKeeps
<1>5. /\ gl'.recorded = gl.recorded
      /\ gl'.query = gl.query /\ gl'.marked = gl.marked
      /\ gl'.image =
           IF Reaches(begun) THEN gl.image \o Drawn(begun, gl.recorded) ELSE gl.image
  BY <1>2, <1>4 DEF GlStates
<1> QED
  BY <1>2, <1>3, <1>5 DEF Reaches

(* With the fragment shader debugged, what the application calls during a  *)
(* recording, and what the debug shader draws, stays in the library's own  *)
(* target.                                                                 *)
LEMMA InsideTargetDraws ==
    ASSUME Undisturbed, Stages = {"fragment"}, TypeOK, SInv, alive',
           QuietStep \/ AbortEnd \/ ReadBack
    PROVE  /\ alive /\ called' = called
           /\ gl'.image = gl.image /\ gl'.recorded = gl.recorded
<1>1. /\ gl \in GlStates /\ \A s \in Stages : Kind(s) = "fragment"
      /\ tab \in Stages
  BY Typed DEF Kind
<1>2. CASE QuietStep
  BY <1>2, QuietDraws
<1>3. CASE AbortEnd
  <2>1. /\ gl.target = "fragment" /\ gl' = Execute(gl, <<"end">>)
        /\ alive /\ called' = called
    BY <1>1, <1>3, AbortEndStep DEF rest
  <2>2. <<"end">> \in Seq(CallKinds)
    BY DEF CallKinds
  <2> QED
    BY <1>1, <2>1, <2>2, ExecuteDraws, ExecuteKeeps DEF Reaches
<1>4. CASE ReadBack
  <2>1. Kind(level) = "fragment"
    BY <1>1, <1>4, ReadBackStep
  <2> QED
    BY <1>4, <2>1, ReadBackDraws
<1> QED
  BY <1>2, <1>3, <1>4

(* A recording is drawn once, and with the application's own shader.       *)
LEMMA ReplayDraws ==
    ASSUME Undisturbed, TypeOK, SInv, alive', LeaveReplay \/ AbortReplay
    PROVE  /\ alive /\ called' = called /\ gl'.recorded = <<>>
           /\ gl'.image = gl.image \o Drawn(gl, gl.recorded) /\ gl.program = "app"
           /\ gl'.query = gl.query /\ gl'.marked = gl.marked
<1>1. gl \in GlStates /\ gl.recorded \in Seq(CallKinds)
  BY Typed
<1>2. /\ alive /\ called' = called /\ Reaches(gl) /\ gl.program = "app"
      /\ gl' = [Execute(gl, gl.recorded) EXCEPT !.recorded = <<>>]
  BY LeaveReplayStep, AbortReplayStep DEF rest, Holds, Reaches
<1>3. /\ Execute(gl, gl.recorded) \in GlStates
      /\ Execute(gl, gl.recorded).image = gl.image \o Drawn(gl, gl.recorded)
      /\ Execute(gl, gl.recorded).query = gl.query
      /\ Execute(gl, gl.recorded).marked = gl.marked
  BY <1>1, <1>2, ExecuteTyped, ExecuteDraws, ExecuteKeeps
<1> QED
  BY <1>2, <1>3 DEF GlStates

(* A recorded call is called as well, and stays in a fragment target.      *)
LEMMA RecordDraws ==
    ASSUME Undisturbed, TypeOK, SInv, alive', RecordCall
    PROVE  /\ alive /\ called' = Append(called, Frame[at])
           /\ gl'.recorded = Append(gl.recorded, Frame[at])
           /\ gl'.query = gl.query /\ gl'.marked = gl.marked
           /\ \/ gl'.image = gl.image
              \/ /\ Kind(type) # "fragment"
                 /\ \E g \in GlStates :
                      /\ g.query = gl.query
                      /\ gl'.image = gl.image \o Drawn(g, <<Frame[at]>>)
<1> DEFINE longer == Append(gl.recorded, Frame[at])
           g == [gl EXCEPT !.recorded = longer]
           one == <<Frame[at]>>
<1>1. gl \in GlStates /\ longer \in Seq(CallKinds) /\ one \in Seq(CallKinds)
  BY Typed
<1>2. /\ alive /\ called' = Append(called, Frame[at])
      /\ Holds(Kind(type), "app") /\ gl' = Execute(g, one)
  BY RecordCallStep
<1> HIDE DEF longer, one
<1>3. /\ g \in GlStates /\ g.image = gl.image /\ g.recorded = longer
      /\ g.target = Kind(type) /\ g.query = gl.query /\ g.marked = gl.marked
  BY <1>1, <1>2 DEF GlStates, Holds
<1> HIDE DEF g
<1>4. /\ gl'.recorded = longer /\ gl'.query = gl.query /\ gl'.marked = gl.marked
      /\ gl'.image = IF Reaches(g) THEN gl.image \o Drawn(g, one) ELSE gl.image
  BY <1>1, <1>2, <1>3, ExecuteDraws, ExecuteKeeps
<1> QED
  BY <1>2, <1>3, <1>4 DEF longer, one, Reaches

(* A call at the trace is drawn, unless it is skipped, and the end of the  *)
(* frame begins a new image.                                               *)
LEMMA AppCallDraws ==
    ASSUME Undisturbed, TypeOK, SInv, alive', AppCall
    PROVE  /\ alive /\ gl'.recorded = <<>> /\ gl.recorded = <<>> /\ gl.program = "app"
           /\ gl'.query = gl.query /\ gl'.marked = gl.marked
           /\ \/ called' = <<>> /\ gl'.image = <<>>
              \/ called' = called /\ gl'.image = gl.image
              \/ /\ called' = called \o <<Frame[at]>>
                 /\ gl'.image = gl.image \o Drawn(gl, <<Frame[at]>>)
<1> DEFINE one == <<Frame[at]>>
           h == IF after = "skip" THEN gl ELSE Execute(gl, one)
<1>1. /\ gl \in GlStates /\ one \in Seq(CallKinds) /\ after \in {"step", "skip"}
      /\ called \in Seq(CallKinds) /\ Frame[at] \in CallKinds
  BY Typed DEF TypeOK
<1>2. /\ alive /\ gl.recorded = <<>> /\ gl.program = "app" /\ Reaches(gl)
      /\ Advance(h, after = "step")
  BY AppCallStep DEF Holds, Reaches
<1>3. Append(called, Frame[at]) = called \o one
  BY <1>1, AppendIsConcat
<1> HIDE DEF one
<1>4. /\ Execute(gl, one) \in GlStates /\ Execute(gl, one).recorded = <<>>
      /\ Execute(gl, one).query = gl.query /\ Execute(gl, one).marked = gl.marked
      /\ Execute(gl, one).image = gl.image \o Drawn(gl, one)
  BY <1>1, <1>2, ExecuteTyped, ExecuteKeeps, ExecuteDraws
<1>5. /\ h \in GlStates /\ h.recorded = <<>>
      /\ h.query = gl.query /\ h.marked = gl.marked
      /\ h.image = IF after = "skip" THEN gl.image ELSE gl.image \o Drawn(gl, one)
  BY <1>1, <1>2, <1>4
<1> HIDE DEF h
<1>6. /\ gl'.recorded = <<>> /\ gl'.query = gl.query /\ gl'.marked = gl.marked
      /\ \/ called' = <<>> /\ gl'.image = <<>>
         \/ called' = called /\ gl'.image = gl.image
         \/ called' = called \o one /\ gl'.image = gl.image \o Drawn(gl, one)
  BY <1>1, <1>2, <1>3, <1>5 DEF Advance, GlStates
<1> QED
  BY <1>2, <1>6 DEF one

(* What reaches the image is the application's: what was drawn before, and *)
(* then the calls with its own shader.                                     *)
LEMMA AppDraws ==
    ASSUME NEW g \in GlStates, NEW calls \in Seq(CallKinds), g.program = "app",
           \A i \in DOMAIN g.image : g.image[i].program = "app"
    PROVE  /\ Calls(g.image \o Drawn(g, calls)) = Calls(g.image) \o calls
           /\ \A i \in DOMAIN (g.image \o Drawn(g, calls)) :
                (g.image \o Drawn(g, calls))[i].program = "app"
<1> DEFINE s == g.image
           t == Drawn(g, calls)
<1>1. /\ s \in Seq(Effects) /\ t \in Seq(Effects) /\ Calls(t) = calls
      /\ \A i \in DOMAIN t : t[i].program = "app"
  BY DrawnCalls DEF GlStates
<1>2. Calls(s \o t) = Calls(s) \o calls
  BY <1>1, CallsConcat
<1>3. /\ s \o t \in Seq(Effects) /\ Len(s \o t) = Len(s) + Len(t)
      /\ \A i \in 1 .. Len(s) + Len(t) :
           (s \o t)[i] = IF i <= Len(s) THEN s[i] ELSE t[i - Len(s)]
  BY <1>1, ConcatProperties
<1>4. \A i \in DOMAIN s : s[i].program = "app"
  OBVIOUS
<1> HIDE DEF s, t
<1>5. ASSUME NEW i \in DOMAIN (s \o t) PROVE (s \o t)[i].program = "app"
  <2>1. i \in 1 .. Len(s) + Len(t)
    BY <1>3
  <2>2. CASE i \in 1 .. Len(s)
    BY <1>1, <1>3, <1>4, <2>1, <2>2
  <2>3. CASE i \notin 1 .. Len(s)
    <3>1. ~(i <= Len(s)) /\ i - Len(s) \in DOMAIN t
      BY <1>1, <2>1, <2>3
    <3> QED
      BY <1>1, <1>3, <2>1, <3>1
  <2> QED
    BY <2>2, <2>3
<1> QED
  BY <1>2, <1>5 DEF s, t

(* What has been drawn and what is recorded are always the calls made, in  *)
(* their order: a debugged fragment shader moves the calls of a draw from  *)
(* the image to the recording and, when it is left or given up, back.      *)
THEOREM Drawing_inductive ==
    ASSUME Undisturbed, Stages = {"fragment"} PROVE Spec => []DrawInv
<1>1. Init => DrawInv
  BY DEF Init, DrawInv
<1>2. TypeOK /\ SInv /\ DrawInv /\ [Next]_vars => DrawInv'
  <2> SUFFICES ASSUME TypeOK, SInv, DrawInv, [Next]_vars, alive'
               PROVE  /\ Calls(gl'.image) \o gl'.recorded = called'
                      /\ \A i \in DOMAIN gl'.image : gl'.image[i].program = "app"
    BY DEF DrawInv, Calls
  <2>1. /\ gl \in GlStates /\ gl.image \in Seq(Effects) /\ Calls(gl.image) \in Seq(CallKinds)
        /\ gl.recorded \in Seq(CallKinds) /\ Frame[at] \in CallKinds
        /\ <<Frame[at]>> \in Seq(CallKinds) /\ called \in Seq(CallKinds)
    <3>1. gl \in GlStates /\ gl.image \in Seq(Effects) /\ Frame[at] \in CallKinds
      BY Typed DEF GlStates
    <3> QED
      BY <3>1, CallsTyped, Typed DEF TypeOK
  <2>2. alive => /\ Calls(gl.image) \o gl.recorded = called
                 /\ \A i \in DOMAIN gl.image : gl.image[i].program = "app"
    BY DEF DrawInv
  <2>3. CASE UNCHANGED vars
    BY <2>2, <2>3 DEF vars, app
  <2>4. CASE QuietStep \/ AbortEnd \/ ReadBack
    BY <2>2, <2>4, InsideTargetDraws
  <2>5. CASE LeaveReplay \/ AbortReplay
    <3>1. /\ Calls(gl'.image) = called'
          /\ \A i \in DOMAIN gl'.image : gl'.image[i].program = "app"
      <4>1. /\ alive /\ called' = called /\ gl.program = "app"
            /\ gl'.image = gl.image \o Drawn(gl, gl.recorded)
        BY <2>5, ReplayDraws
      <4>2. /\ Calls(gl.image \o Drawn(gl, gl.recorded)) = called
            /\ \A i \in DOMAIN (gl.image \o Drawn(gl, gl.recorded)) :
                 (gl.image \o Drawn(gl, gl.recorded))[i].program = "app"
        BY <2>1, <2>2, <4>1, AppDraws
      <4> QED
        BY <4>1, <4>2, Zenon
    <3>2. called' \in Seq(CallKinds) /\ gl'.recorded = <<>>
      BY <2>1, <2>5, ReplayDraws
    <3>3. called' \o <<>> = called'
      BY <3>2, ConcatEmptySeq
    <3> QED
      BY <3>1, <3>2, <3>3
  <2>6. CASE RecordCall
    <3> DEFINE drawn == Calls(gl.image)
               c == Frame[at]
    <3>1. /\ drawn \o gl.recorded = called /\ called' = Append(called, c)
          /\ gl'.image = gl.image /\ gl'.recorded = Append(gl.recorded, c)
      <4>1. Kind(type) = "fragment"
        BY Typed DEF Kind
      <4> QED
        BY <2>2, <2>6, <4>1, RecordDraws
    <3>2. drawn \o Append(gl.recorded, c) = Append(drawn \o gl.recorded, c)
      BY <2>1, ConcatAppend
    <3> QED
      BY <2>2, <2>6, <3>1, <3>2, RecordDraws
  <2>7. CASE AppCall
    <3>1. Calls(gl.image) = called
      <4>1. Calls(gl.image) \o <<>> = called
        BY <2>2, <2>7, AppCallDraws
      <4> QED
        BY <2>1, <4>1, ConcatEmptySeq
    <3>2. /\ Calls(gl'.image) = called'
          /\ \A i \in DOMAIN gl'.image : gl'.image[i].program = "app"
      <4>1. CASE called' = <<>> /\ gl'.image = <<>>
        BY <4>1 DEF Calls
      <4>2. CASE called' = called /\ gl'.image = gl.image
        BY <2>2, <2>7, <3>1, <4>2, AppCallDraws
      <4>3. CASE /\ called' = called \o <<Frame[at]>>
                 /\ gl'.image = gl.image \o Drawn(gl, <<Frame[at]>>)
        <5>1. alive /\ gl.program = "app"
          BY <2>7, AppCallDraws
        <5>2. /\ Calls(gl.image \o Drawn(gl, <<Frame[at]>>)) = Calls(gl.image) \o <<Frame[at]>>
              /\ \A i \in DOMAIN (gl.image \o Drawn(gl, <<Frame[at]>>)) :
                   (gl.image \o Drawn(gl, <<Frame[at]>>))[i].program = "app"
          BY <2>1, <2>2, <5>1, AppDraws
        <5> QED
          BY <3>1, <4>3, <5>2, Zenon
      <4> QED
        BY <2>7, <4>1, <4>2, <4>3, AppCallDraws
    <3>3. gl'.recorded = <<>> /\ called' \in Seq(CallKinds)
      <4>1. called' \in {<<>>, called, called \o <<Frame[at]>>} /\ gl'.recorded = <<>>
        BY <2>7, AppCallDraws
      <4>2. called \o <<Frame[at]>> \in Seq(CallKinds) /\ <<>> \in Seq(CallKinds)
        BY <2>1, ConcatProperties
      <4> QED
        BY <2>1, <4>1, <4>2
    <3> QED
      BY <3>2, <3>3, ConcatEmptySeq
  <2>8. CASE ExecuteClicked
    <3>1. gl'.image = <<>> /\ gl'.recorded = <<>> /\ called' = <<>>
      BY <2>8 DEF ExecuteClicked, Launched, Kill, Gone, Fresh
    <3> QED
      BY <3>1 DEF Calls
  <2>9. CASE OpenAccepted
    BY <2>9 DEF OpenAccepted, Kill, Gone
  <2>10. CASE OpenCancelled
    BY <2>10, Fine DEF OpenCancelled
  <2> QED
    BY <2>3, <2>4, <2>5, <2>6, <2>7, <2>8, <2>9, <2>10
       DEF Next, Handler, User, QuietStep
<1> QED
  BY <1>1, <1>2, TypeCorrect, Session_inductive, PTL DEF Spec

(* Back at the trace the image shows exactly the calls made, once each, in *)
(* their order and with the application's shader.                          *)
THEOREM Drawn_as_called ==
    ASSUME Undisturbed, Stages = {"fragment"} PROVE Spec => []DrawnAsCalled
<1>1. TypeOK /\ SInv /\ DrawInv => DrawnAsCalled
  <2> SUFFICES ASSUME TypeOK, SInv, DrawInv, AtTrace
               PROVE  /\ Calls(gl.image) = called
                      /\ \A i \in DOMAIN gl.image : gl.image[i].program = "app"
    BY DEF DrawnAsCalled
  <2>1. /\ Calls(gl.image) \o <<>> = called
        /\ \A i \in DOMAIN gl.image : gl.image[i].program = "app"
    BY DEF AtTrace, SInv, TraceInv, DrawInv
  <2>2. Calls(gl.image) \in Seq(CallKinds)
    BY CallsTyped DEF TypeOK, GlStates
  <2> QED
    BY <2>1, <2>2, ConcatEmptySeq
<1> QED
  BY <1>1, TypeCorrect, Session_inductive, Drawing_inductive, PTL

-----------------------------------------------------------------------------
(* What each operation leaves alone, whatever its outcome.                 *)
Same(h, g) ==
    /\ h.image = g.image /\ h.recorded = g.recorded
    /\ h.open = g.open /\ h.feedback = g.feedback

(* Storing and restoring a shader leaves image, recording and target.      *)
LEMMA ShaderLeaves ==
    ASSUME NEW g \in GlStates
    PROVE  \A o \in StoreShader(g) \cup RestoreShader(g) :
             Same(o.gl, g) /\ o.gl.target = g.target
<1> DEFINE stored == [g EXCEPT !.stored = g.program]
           used   == [g EXCEPT !.program = g.stored, !.stored = "none"]
<1>1. /\ Same(stored, g) /\ stored.target = g.target
      /\ Same(used, g) /\ used.target = g.target
      /\ Same(g, g)
  BY DEF GlStates, Same
<1> HIDE DEF stored, used
<1>2. StoreShader(g) = Ok(stored) \cup Fails({g, stored})
  BY DEF StoreShader, stored
<1>3. RestoreShader(g) = IF g.feedback THEN {Outcome("gl", g)}
                         ELSE Ok(Outside(g, used)) \cup Fails({g})
  BY DEF RestoreShader, used
<1> QED
  BY <1>1, <1>2, <1>3 DEF Ok, Fails, Outside, Outcome

(* So does interrupting and restarting the queries.                        *)
LEMMA QueriesLeave ==
    ASSUME NEW g \in GlStates
    PROVE  \A o \in InterruptQueries(g) \cup RestartQueries(g) :
             Same(o.gl, g) /\ o.gl.target = g.target
<1> DEFINE ended == [g EXCEPT !.query = "stopped", !.marked = FALSE]
           asked == [ended EXCEPT !.marked = g.query = "running"]
           going == [g EXCEPT !.query = IF g.marked THEN "running" ELSE @]
<1>1. /\ Same(ended, g) /\ ended.target = g.target
      /\ Same(asked, g) /\ asked.target = g.target
      /\ Same(going, g) /\ going.target = g.target
      /\ Same(g, g)
  BY DEF GlStates, Same
<1> HIDE DEF ended, asked, going
<1>2. InterruptQueries(g) = Ok(Outside(g, asked)) \cup Dies(ended)
  BY DEF InterruptQueries, ended, asked
<1>3. RestartQueries(g) = Ok(Outside(g, going)) \cup Dies(g)
  BY DEF RestartQueries, going
<1> QED
  BY <1>1, <1>2, <1>3 DEF Ok, Dies, Outside, Outcome

(* And so do the library's pushes and pops of attributes.                  *)
LEMMA StackLeaves ==
    ASSUME NEW g \in GlStates
    PROVE  \A o \in Push(g) \cup Pop(g) : Same(o.gl, g) /\ o.gl.target = g.target
<1> DEFINE more == [g EXCEPT !.pushed = @ + 1]
           less == [g EXCEPT !.pushed = @ - 1]
<1>1. /\ Same(more, g) /\ more.target = g.target
      /\ Same(less, g) /\ less.target = g.target
      /\ Same(g, g)
  BY DEF GlStates, Same
<1> HIDE DEF more, less
<1>2. /\ Push(g) \subseteq {Outcome("gl", g), Outcome("none", more)}
      /\ Pop(g) \subseteq {Outcome("gl", g), Outcome("none", less)}
  BY DEF Push, Pop, Ok, more, less
<1> QED
  BY <1>1, <1>2 DEF Outcome

(* A target that is set without an error is the one that was asked for.    *)
LEMMA TargetLeaves ==
    ASSUME NEW g \in GlStates, NEW k \in Kinds
    PROVE  /\ \A o \in RestoreTarget(g, k) : Same(o.gl, g)
           /\ \A o \in SetTarget(g, k) :
                Same(o.gl, g) /\ (o.err = "none" /\ ~g.open => o.gl.target = k)
<1> DEFINE bound == [g EXCEPT !.target = k]
<1>1. bound \in GlStates /\ Same(bound, g) /\ bound.target = k
  BY DEF GlStates, Same
<1>2. ASSUME NEW h \in GlStates PROVE Same(Release(h, k), h)
  BY DEF Release, GlStates, Same
<1>3. ASSUME NEW h, NEW i, NEW j, Same(h, i), Same(i, j) PROVE Same(h, j)
  BY <1>3 DEF Same
<1> HIDE DEF bound
<1>4. \A o \in RestoreTarget(g, k) : Same(o.gl, g)
  <2>1. \A p \in Pop(g) : p.gl \in GlStates /\ Same(p.gl, g)
    BY StackTyped, StackLeaves DEF Outcomes
  <2>2. \A p \in Pop(g) : Same(Release(p.gl, k), g)
    BY <1>2, <1>3, <2>1
  <2> QED
    BY <2>1, <2>2 DEF RestoreTarget, Ok, Fails, Outcome, Same
<1>5. \A p \in Push(bound) : Same(p.gl, g) /\ p.gl.target = k
  BY <1>1, <1>3, StackLeaves
<1>6. \A o \in SetTarget(g, k) :
        Same(o.gl, g) /\ (o.err = "none" /\ ~g.open => o.gl.target = k)
  <2> DEFINE left == IF k = "fragment" THEN bound ELSE g
  <2>1. Same(left, g) /\ Same(g, g)
    BY <1>1 DEF Same
  <2> HIDE DEF left
  <2>2. SetTarget(g, k) =
          IF g.open THEN Ok(g)
          ELSE Fails({g, left})
               \cup {IF p.err = "none" THEN p ELSE Outcome(p.err, left)
                       : p \in Push(bound)}
    BY DEF SetTarget, left, bound
  <2> QED
    BY <1>5, <2>1, <2>2, RenderAssumption DEF Ok, Fails, Outcome
<1> QED
  BY <1>4, <1>6

(* A recording that is replayed is gone, even if GL reports an error.      *)
LEMMA RecordingLeaves ==
    ASSUME NEW g \in GlStates
    PROVE  /\ \A o \in StartRecording(g) :
                /\ o.gl.image = g.image /\ o.gl.open = g.open
                /\ o.gl.feedback = g.feedback /\ o.gl.target = g.target
                /\ o.gl.recorded \in {<<>>, g.recorded}
                /\ o.err = "none" => o.gl.recorded = <<>>
           /\ \A o \in EndReplay(g) :
                o.gl = [Execute(g, g.recorded) EXCEPT !.recorded = <<>>]
<1> DEFINE empty == [g EXCEPT !.recorded = <<>>]
           replayed == [Execute(g, g.recorded) EXCEPT !.recorded = <<>>]
<1>1. /\ empty.image = g.image /\ empty.open = g.open
      /\ empty.feedback = g.feedback /\ empty.target = g.target
      /\ empty.recorded = <<>>
  BY DEF GlStates
<1> HIDE DEF empty, replayed
<1>2. StartRecording(g) = Ok(empty) \cup Dies(g)
  BY DEF StartRecording, empty
<1>3. EndReplay(g) = Ok(replayed) \cup Fails({replayed})
  BY DEF EndReplay, replayed
<1>4. \A o \in EndReplay(g) : o.gl = replayed
  BY <1>3 DEF Ok, Fails, Outcome
<1>5. \A o \in StartRecording(g) :
        \/ o.err = "none" /\ o.gl = empty
        \/ o.err # "none" /\ o.gl = g
  BY <1>2, RenderAssumption DEF Ok, Dies, Outcome
<1> QED
  BY <1>1, <1>4, <1>5 DEF replayed

(* The debugged fragment shader draws into its target, and nowhere else.   *)
LEMMA StepLeaves ==
    ASSUME NEW g \in GlStates, g.target = "fragment", ~g.feedback
    PROVE  \A o \in ShaderStep(g, "fragment") :
             /\ o.gl.image = g.image /\ o.gl.recorded = g.recorded
             /\ ~o.gl.feedback /\ o.gl.target = "fragment"
             /\ o.gl.open \in {g.open, Execute(g, g.recorded).open}
<1> DEFINE loaded == [g EXCEPT !.program = "debug"]
           saved(p) == [p.gl EXCEPT !.pushed = @ + 1]
           begun(h) == [h EXCEPT !.feedback = FALSE]
           ended(h) == [Execute(begun(h), h.recorded) EXCEPT !.feedback = FALSE]
           Good(h) == /\ h.image = g.image /\ h.recorded = g.recorded
                      /\ h.feedback = FALSE /\ h.target = "fragment"
                      /\ h.open \in {g.open, Execute(g, g.recorded).open}
<1>1. loaded \in GlStates /\ Good(loaded) /\ Good(g)
  BY DEF GlStates, Programs
<1>2. begun(loaded) \in GlStates /\ Good(begun(loaded))
  BY <1>1 DEF GlStates
<1>3. Good(ended(loaded))
  <2> DEFINE drawn == Execute(begun(loaded), loaded.recorded)
  <2>1. g.recorded \in Seq(CallKinds) /\ loaded.recorded = g.recorded
        /\ begun(loaded).open = g.open
    BY <1>1, <1>2 DEF GlStates
  <2> HIDE DEF begun
  <2>2. /\ drawn \in GlStates /\ drawn.image = g.image
        /\ drawn.recorded = g.recorded /\ drawn.target = "fragment"
    BY <1>2, <2>1, ExecuteTyped, ExecuteKeeps, ExecuteDraws DEF Reaches
  <2>3. drawn.open = Execute(g, g.recorded).open
    <3>1. Execute(g, g.recorded).open =
            IF g.recorded = <<>> THEN g.open ELSE Inside(g.recorded[Len(g.recorded)])
      BY <2>1, ExecuteKeeps
    <3>2. Execute(begun(loaded), g.recorded).open =
            IF g.recorded = <<>> THEN begun(loaded).open
            ELSE Inside(g.recorded[Len(g.recorded)])
      BY <1>2, <2>1, ExecuteKeeps
    <3> QED
      BY <2>1, <3>1, <3>2
  <2> HIDE DEF drawn
  <2>4. ended(loaded) = [drawn EXCEPT !.feedback = FALSE]
    BY DEF drawn
  <2> QED
    BY <2>2, <2>3, <2>4 DEF GlStates
<1>4. \A p \in Pop(loaded) : Good(p.gl) /\ (p.err = "none" => saved(p) = loaded)
  <2>1. \A p \in Pop(loaded) : p.err = "none" => saved(p) = loaded
    BY <1>1, SavedAgain
  <2> HIDE DEF loaded
  <2>2. \A p \in Pop(loaded) : Same(p.gl, loaded) /\ p.gl.target = loaded.target
    BY <1>1, StackLeaves
  <2> QED
    BY <1>1, <2>1, <2>2 DEF Same
<1>5. ("fragment" = "feedback") = FALSE
  OBVIOUS
<1>6. \A o \in ShaderStep(g, "fragment") :
        \/ o.gl \in {g, loaded, begun(loaded), ended(loaded)}
        \/ \E p \in Pop(loaded) : o = p
  <2> DEFINE answers(p) == IF p.err # "none" THEN {p}
                           ELSE Ok(ended(saved(p))) \cup Fails({saved(p), begun(saved(p))})
  <2>1. ShaderStep(g, "fragment") \subseteq
          {Outcome("critical", g)} \cup {Outcome("gl", g)} \cup Fails({g, loaded})
          \cup UNION {answers(p) : p \in Pop(loaded)}
    BY <1>5 DEF ShaderStep
  <2>2. ASSUME NEW p \in Pop(loaded), NEW o \in answers(p)
        PROVE  o = p \/ o.gl \in {loaded, begun(loaded), ended(loaded)}
    <3> HIDE DEF loaded, saved, begun, ended
    <3> QED
      BY <1>4, <2>2 DEF Ok, Fails, Outcome
  <2> HIDE DEF loaded, begun, ended, answers
  <2> QED
    BY <2>1, <2>2 DEF Fails, Outcome
<1> HIDE DEF loaded, saved, begun, ended
<1>7. \A o \in ShaderStep(g, "fragment") : Good(o.gl)
  <2> HIDE DEF Good
  <2> QED
    BY <1>1, <1>2, <1>3, <1>4, <1>6
<1> QED
  BY <1>7

(* When the debuggee is gone, so are its image and its calls.              *)
LEMMA GoneOnce ==
    ASSUME Gone, ObjectsInv', level' \in {"setup", "restart"}, pc' = "idle"
    PROVE  OnceInv'
<1>1. /\ gl' = Fresh /\ called' = <<>> /\ at' = 1 /\ ~Primitive(1)
      /\ level' \notin Stages
  BY FrameCalls, ShaderDebugAssumption DEF Gone, Primitive
<1>2. ~objects'
  BY <1>1 DEF ObjectsInv, NoStaleObjects
<1> QED
  BY <1>1, <1>2 DEF OnceInv, Fresh, Trace, Primitive

(* A command that does not end the session leaves the handler at one of    *)
(* the two points named.                                                   *)
LEMMA CommandGoes ==
    ASSUME NEW S, NEW next, NEW onError, CommandOr(S, next, onError), ~Kill
    PROVE  /\ UNCHANGED <<level, tab, type, objects, after, at, called>>
           /\ \E o \in S : gl' = o.gl /\ pc' \in {next, onError}
BY DEF CommandOr, Answer, Outcome, app

(* Every step of a handler, with any outcome, keeps the invariant.         *)
LEMMA OnceHandler ==
    ASSUME Stages = {"fragment"}, PauseAt = {},
           TypeOK, OnceInv, ObjectsInv, ObjectsInv', Handler
    PROVE  OnceInv'
<1>1. /\ gl \in GlStates /\ gl.recorded \in Seq(CallKinds) /\ gl.image \in Seq(Effects)
      /\ gl.open \in BOOLEAN /\ gl.feedback \in BOOLEAN
      /\ called \in Seq(CallKinds) /\ Frame[at] \in CallKinds
      /\ type = "fragment" /\ Kind("fragment") = "fragment" /\ "fragment" \in Kinds
  BY Typed DEF TypeOK, GlStates, Kind, Kinds
<1>2. Kill => OnceInv'
  BY GoneOnce DEF Kill
<1>3. CASE LeaveShader
  <2> SUFFICES ASSUME ~Kill PROVE OnceInv'
    BY <1>2
  <2>1. /\ UNCHANGED <<level, tab, type, objects, after, at, called>>
        /\ \E o \in RestoreShader(gl) : gl' = o.gl /\ pc' = "leaveQueries"
    BY <1>3, CommandGoes DEF LeaveShader, Command
  <2>2. Same(gl', gl) /\ gl'.target = gl.target
    BY <1>1, <2>1, ShaderLeaves
  <2> QED
    BY <1>3, <2>1, <2>2 DEF LeaveShader, OnceInv, Same, Complete, Primitive, Trace
<1>4. CASE LeaveQueries
  <2> SUFFICES ASSUME ~Kill PROVE OnceInv'
    BY <1>2
  <2>1. /\ UNCHANGED <<level, tab, type, objects, after, at, called>>
        /\ \E o \in RestartQueries(gl) : gl' = o.gl /\ pc' = "leaveReplay"
    BY <1>4, CommandGoes DEF LeaveQueries, Command
  <2>2. Same(gl', gl) /\ gl'.target = gl.target
    BY <1>1, <2>1, QueriesLeave
  <2> QED
    BY <1>4, <2>1, <2>2 DEF LeaveQueries, OnceInv, Same, Complete, Primitive, Trace
<1>5. CASE Interrupt
  <2> SUFFICES ASSUME ~Kill PROVE OnceInv'
    BY <1>2
  <2>1. /\ UNCHANGED <<level, tab, type, objects, after, at, called>>
        /\ \E o \in InterruptQueries(gl) : gl' = o.gl /\ pc' = "target"
    BY <1>5, CommandGoes DEF Interrupt, Command
  <2>2. Same(gl', gl) /\ gl'.target = gl.target
    BY <1>1, <2>1, QueriesLeave
  <2> QED
    BY <1>5, <2>1, <2>2 DEF Interrupt, OnceInv, Same, Complete, Primitive, Trace
<1>6. CASE Store
  <2> SUFFICES ASSUME ~Kill PROVE OnceInv'
    BY <1>2
  <2>1. /\ UNCHANGED <<level, tab, type, objects, after, at, called>>
        /\ \E o \in StoreShader(gl) : gl' = o.gl /\ pc' = "start"
    BY <1>6, CommandGoes DEF Store, Command
  <2>2. Same(gl', gl) /\ gl'.target = gl.target
    BY <1>1, <2>1, ShaderLeaves
  <2> QED
    BY <1>6, <2>1, <2>2 DEF Store, OnceInv, Same, Complete, Primitive, Trace
<1>7. CASE LeaveReplay
  <2> SUFFICES ASSUME ~Kill PROVE OnceInv'
    BY <1>2
  <2>1. /\ UNCHANGED <<level, tab, type, objects, after, at, called>>
        /\ pc = "leaveReplay" /\ pc' = "app"
        /\ gl' = [Execute(gl, gl.recorded) EXCEPT !.recorded = <<>>]
    <3>1. \A o \in EndReplay(gl) :
            o.gl = [Execute(gl, gl.recorded) EXCEPT !.recorded = <<>>]
      BY <1>1, RecordingLeaves
    <3>2. /\ UNCHANGED <<level, tab, type, objects, after, at, called>>
          /\ pc = "leaveReplay" /\ pc' = "app"
          /\ \E o \in EndReplay(gl) : gl' = o.gl
      BY <1>7, CommandGoes DEF LeaveReplay, Command
    <3> QED
      BY <3>1, <3>2
  <2>2. level = "restart" /\ (gl.recorded = <<>> \/ Complete(gl.recorded))
    BY <2>1 DEF OnceInv
  <2>3. /\ gl'.recorded = <<>> /\ gl'.feedback = gl.feedback
        /\ gl'.image \in {gl.image, gl.image \o Drawn(gl, gl.recorded)}
        /\ gl'.open => gl.open
    <3>1. /\ Execute(gl, gl.recorded) \in GlStates
          /\ Execute(gl, gl.recorded).image
               \in {gl.image, gl.image \o Drawn(gl, gl.recorded)}
      BY <1>1, ExecuteTyped, ExecuteDraws
    <3>2. /\ Execute(gl, gl.recorded).feedback = gl.feedback
          /\ Execute(gl, gl.recorded).open => gl.open
      BY <1>1, <2>2, ExecuteKeeps DEF Complete
    <3> QED
      BY <2>1, <3>1, <3>2 DEF GlStates
  <2>4. Len(gl'.image) \in Nat /\ Len(gl'.image) <= Len(gl.image) + Len(gl.recorded)
    BY <1>1, <2>3, ReplayLength
  <2>5. Len(gl'.image) + Len(gl'.recorded) <= Len(called')
    <3>1. /\ Len(gl.image) + Len(gl.recorded) <= Len(called)
          /\ Len(gl'.recorded) = 0 /\ Len(called') = Len(called)
      BY <2>1, <2>3 DEF OnceInv
    <3> DEFINE a == Len(gl'.image)
               b == Len(gl.image)
               c == Len(gl.recorded)
               d == Len(called)
    <3>2. a \in Nat /\ b \in Nat /\ c \in Nat /\ d \in Nat
      BY <1>1, <2>4
    <3>3. b + c <= d /\ a <= b + c
      BY <2>4, <3>1
    <3> HIDE DEF a, b, c, d
    <3>4. a + 0 <= d
      BY <3>2, <3>3
    <3> QED
      BY <3>1, <3>4 DEF a, d
  <2> QED
    BY <2>1, <2>2, <2>3, <2>5 DEF OnceInv, Complete, Primitive, Trace
<1>8. CASE AppCall
  <2> DEFINE one == <<Frame[at]>>
             h == IF after = "skip" THEN gl ELSE Execute(gl, one)
  <2> SUFFICES ASSUME ~Kill PROVE OnceInv'
    BY <1>2
  <2>1. /\ pc = "app" /\ pc' = "idle" /\ level' = SubLevel(at')
        /\ Advance(h, after = "step")
        /\ UNCHANGED <<tab, type, objects>>
    <3>1. PICK o \in Answer((IF after = "skip" THEN Ok(gl) ELSE Ok(Execute(gl, one)))
                            \cup Dies(gl)) :
            /\ o.err = "none" /\ Advance(o.gl, after = "step")
            /\ level' = SubLevel(at') /\ pc' = "idle"
      BY <1>8 DEF AppCall
    <3>2. o.gl = h
      BY <3>1, RenderAssumption DEF Answer, Ok, Dies, Outcome
    <3> QED
      BY <1>8, <3>1, <3>2 DEF AppCall
  <2>2. /\ level \in Trace \cup {"restart"} /\ gl.recorded = <<>> /\ ~gl.feedback
        /\ gl.open => Primitive(at)
        /\ after = "skip" => Frame[at] \in {"draw", "other"}
        /\ Len(gl.image) + Len(gl.recorded) <= Len(called)
    BY <2>1 DEF OnceInv
  <2>3. level' \in Trace /\ (level' = "debugable" => Frame[at'] \in Debuggable)
    BY <2>1 DEF SubLevel, Trace
  <2>4. ~objects'
    BY <2>3, ShaderDebugAssumption DEF ObjectsInv, NoStaleObjects, Trace
  <2>5. /\ one \in Seq(CallKinds) /\ Len(one) = 1 /\ one # <<>> /\ one[1] = Frame[at]
        /\ after \in {"step", "skip"}
    BY <1>1 DEF TypeOK
  <2> HIDE DEF one
  <2>6. /\ h \in GlStates /\ h.recorded = <<>> /\ ~h.feedback
        /\ h.open => Inside(Frame[at])
        /\ IF after = "skip" THEN h.image = gl.image
           ELSE h.image \in {gl.image, gl.image \o Drawn(gl, one)}
    <3>1. CASE after = "skip"
      BY <1>1, <2>2, <3>1 DEF Primitive
    <3>2. CASE after # "skip"
      <4>1. h = Execute(gl, one) /\ one[Len(one)] = Frame[at]
        BY <2>5, <3>2
      <4> HIDE DEF h
      <4> QED
        BY <1>1, <2>2, <2>5, <3>2, <4>1, ExecuteTyped, ExecuteKeeps, ExecuteDraws
    <3> QED
      BY <3>1, <3>2
  <2>7. Inside(Frame[at]) <=> Primitive(at')
    BY <2>1, NextCall DEF Advance, Primitive, TypeOK
  <2> HIDE DEF h
  <2>8. /\ gl'.recorded = <<>> /\ ~gl'.feedback /\ (gl'.open => Primitive(at'))
        /\ \/ gl'.image = <<>> /\ called' = <<>>
           \/ /\ gl'.image = h.image
              /\ called' = IF after = "step" THEN Append(called, Frame[at]) ELSE called
    BY <2>1, <2>6, <2>7 DEF Advance, GlStates
  <2>9. Len(gl'.image) + Len(gl'.recorded) <= Len(called')
    <3>1. CASE gl'.image = <<>> /\ called' = <<>>
      BY <2>8, <3>1
    <3>2. CASE gl'.image = gl.image /\ called' = called
      BY <2>2, <2>8, <3>2
    <3>3. CASE /\ gl'.image \in {gl.image, gl.image \o Drawn(gl, one)}
               /\ called' = Append(called, Frame[at])
      <4>1. Len(gl'.image) \in Nat /\ Len(gl'.image) <= Len(gl.image) + 1
        BY <1>1, <2>5, <3>3, ReplayLength
      <4>2. /\ Len(called') = Len(called) + 1 /\ Len(called) \in Nat
            /\ Len(gl.image) \in Nat /\ Len(gl.image) + 0 <= Len(called)
            /\ Len(gl'.recorded) = 0
        BY <1>1, <2>2, <2>8, <3>3, AppendProperties
      <4> QED
        BY <4>1, <4>2
    <3> QED
      BY <2>5, <2>6, <2>8, <3>1, <3>2, <3>3
  <2> QED
    BY <2>1, <2>3, <2>4, <2>8, <2>9, ShaderDebugAssumption
       DEF OnceInv, Complete, Primitive, Trace
<1>9. CASE SetDbgTarget
  <2> SUFFICES ASSUME ~Kill PROVE OnceInv'
    BY <1>2
  <2>1. /\ pc = "target" /\ UNCHANGED <<tab, type, objects, after, at, called>>
        /\ \E o \in SetTarget(gl, "fragment") :
             /\ gl' = o.gl
             /\ \/ level' = "restart" /\ pc' = "idle"
                \/ /\ o.err = "none"
                   /\ IF level = "debugable" THEN level' = "record" /\ pc' = "store"
                      ELSE level' = level /\ pc' = "enter"
    BY <1>1, <1>9 DEF SetDbgTarget, Answer, Outcome, app
  <2>2. level \in {"debugable", "restart"}
    BY <2>1 DEF OnceInv
  <2>3. ~Primitive(at) /\ ~gl.open
    BY <2>1, <2>2 DEF OnceInv, Trace, Debuggable, Primitive
  <2>4. /\ Same(gl', gl)
        /\ \/ level' = "restart" /\ pc' = "idle"
           \/ /\ gl'.target = "fragment"
              /\ IF level = "debugable" THEN level' = "record" /\ pc' = "store"
                 ELSE level' = level /\ pc' = "enter"
    BY <1>1, <2>1, <2>3, TargetLeaves
  <2>5. level' = "restart" => ~objects'
    BY ShaderDebugAssumption DEF ObjectsInv, NoStaleObjects
  <2> QED
    BY <2>1, <2>2, <2>3, <2>4, <2>5 DEF OnceInv, Same, Complete, Primitive, Trace
<1>10. CASE InitRecording
  <2>1. /\ pc = "start" /\ pc' = "record"
        /\ UNCHANGED <<level, tab, type, objects, after, at, called>>
        /\ \E o \in Answer(StartRecording(gl)) : gl' = o.gl
    BY <1>10 DEF InitRecording, app
  <2>2. /\ gl'.image = gl.image /\ gl'.open = gl.open
        /\ gl'.feedback = gl.feedback /\ gl'.target = gl.target
        /\ gl'.recorded \in {<<>>, gl.recorded}
    <3>1. \A o \in StartRecording(gl) :
            /\ o.gl.image = gl.image /\ o.gl.open = gl.open
            /\ o.gl.feedback = gl.feedback /\ o.gl.target = gl.target
            /\ o.gl.recorded \in {<<>>, gl.recorded}
      BY <1>1, RecordingLeaves
    <3> QED
      BY <2>1, <3>1 DEF Answer, Outcome
  <2>3. gl.recorded = <<>> /\ Frame[at] \in Debuggable
    BY <2>1 DEF OnceInv
  <2> QED
    BY <2>1, <2>2, <2>3 DEF OnceInv, Complete, Primitive, Trace
<1>11. CASE RecordCall
  <2> SUFFICES ASSUME ~Kill PROVE OnceInv'
    BY <1>2
  <2> DEFINE one == <<Frame[at]>>
             longer == Append(gl.recorded, Frame[at])
             g == [gl EXCEPT !.recorded = longer]
  <2>1. /\ pc = "record" /\ UNCHANGED <<level, tab, type, objects, after>>
        /\ \E o \in Record(gl, Frame[at]) : o.err # "critical" /\ Advance(o.gl, TRUE)
        /\ pc' = IF Inside(Frame[at]) THEN "events"
                 ELSE IF level = "record" THEN "enter" ELSE "idle"
    <3>1. PICK o \in Answer(Record(gl, Frame[at])) :
            /\ o.err = "none" /\ Advance(o.gl, TRUE)
            /\ pc' = IF Inside(Frame[at]) THEN "events"
                     ELSE IF level = "record" THEN "enter" ELSE "idle"
            /\ UNCHANGED <<alive, level>>
      BY <1>11 DEF RecordCall
    <3>2. o \in Record(gl, Frame[at])
      BY <3>1 DEF Answer, Outcome
    <3> QED
      BY <1>11, <3>1, <3>2 DEF RecordCall
  <2>2. /\ level = "record" /\ gl.target = "fragment" /\ ~gl.feedback
        /\ Frame[at] \in {"draw", "begin", "vertex", "end"}
        /\ Len(gl.image) + Len(gl.recorded) <= Len(called)
    BY <2>1 DEF OnceInv, Debuggable, Primitive
  <2>3. /\ one \in Seq(CallKinds) /\ one # <<>> /\ one[Len(one)] = Frame[at]
        /\ longer \in Seq(CallKinds) /\ longer # <<>>
        /\ Len(longer) = Len(gl.recorded) + 1 /\ longer[Len(longer)] = Frame[at]
        /\ Append(called, Frame[at]) \in Seq(CallKinds)
        /\ Len(Append(called, Frame[at])) = Len(called) + 1
    BY <1>1
  <2>4. Advance(Execute(g, one), TRUE)
    BY <1>1, <2>1, RecordWorks
  <2> HIDE DEF one, longer
  <2>5. /\ g \in GlStates /\ g.image = gl.image /\ g.recorded = longer
        /\ g.target = "fragment" /\ ~g.feedback
    BY <1>1, <2>2, <2>3 DEF GlStates
  <2> HIDE DEF g
  <2>6. /\ gl' = Execute(g, one) /\ called' = Append(called, Frame[at])
    BY <2>2, <2>4 DEF Advance
  <2>7. /\ gl'.image = gl.image /\ gl'.recorded = longer /\ ~gl'.feedback
        /\ gl'.target = "fragment" /\ gl'.open = Inside(Frame[at])
    BY <2>3, <2>5, <2>6, ExecuteDraws, ExecuteKeeps DEF Reaches
  <2>8. Inside(Frame[at]) <=> Primitive(at')
    BY <2>4, NextCall DEF Advance, Primitive, TypeOK
  <2>9. Len(gl'.image) + Len(gl'.recorded) <= Len(called')
    <3> DEFINE a == Len(gl.image)
               b == Len(gl.recorded)
               c == Len(called)
    <3>1. a \in Nat /\ b \in Nat /\ c \in Nat
      BY <1>1
    <3>2. a + b <= c
      BY <2>2
    <3>3. Len(gl'.image) = a /\ Len(gl'.recorded) = b + 1 /\ Len(called') = c + 1
      BY <2>3, <2>6, <2>7
    <3> HIDE DEF a, b, c
    <3> QED
      BY <3>1, <3>2, <3>3
  <2>10. /\ longer # <<>> /\ Complete(longer) <=> ~Inside(Frame[at])
         /\ Unfinished(longer) <=> Inside(Frame[at])
    BY <2>3 DEF Complete, Unfinished, Inside
  <2> QED
    BY <2>1, <2>2, <2>7, <2>8, <2>9, <2>10, ShaderDebugAssumption
       DEF OnceInv, Trace, Complete, Unfinished
<1>12. CASE EventsDone
  BY <1>12 DEF EventsDone, OnceInv, app, Primitive, Complete, Unfinished, Trace
<1>13. CASE AbortEnd \/ AbortTarget \/ AbortShader \/ AbortReplay
  BY <1>13 DEF AbortEnd, AbortTarget, AbortShader, AbortReplay, OnceInv
<1>14. CASE Enter
  BY <1>1, <1>14, ShaderDebugAssumption
     DEF Enter, OnceInv, app, Primitive, Complete, Trace
<1>15. CASE ReadBack
  <2>1. CASE Gone /\ level' \in {"setup", "restart"} /\ pc' = "idle"
    BY <2>1, GoneOnce
  <2>2. CASE ~(Gone /\ level' \in {"setup", "restart"} /\ pc' = "idle")
    <3>1. pc = "step" /\ level = "fragment" /\ gl.target = "fragment" /\ ~gl.feedback
      BY <1>15 DEF ReadBack, OnceInv, ObjectsInv
    <3>2. /\ UNCHANGED <<level, tab, type, objects, after, at, called>>
          /\ pc' = "idle" /\ \E o \in ShaderStep(gl, "fragment") : gl' = o.gl
      BY <1>1, <1>15, <2>2, <3>1 DEF ReadBack, Answer, Outcome, app
    <3>3. /\ gl'.image = gl.image /\ gl'.recorded = gl.recorded
          /\ ~gl'.feedback /\ gl'.target = "fragment"
          /\ gl'.open \in {gl.open, Execute(gl, gl.recorded).open}
      BY <1>1, <3>1, <3>2, StepLeaves
    <3>4. gl.recorded = <<>> \/ Complete(gl.recorded)
      BY <3>1 DEF OnceInv
    <3>5. gl'.open => gl.open
      <4>1. Execute(gl, gl.recorded).open =
              IF gl.recorded = <<>> THEN gl.open
              ELSE Inside(gl.recorded[Len(gl.recorded)])
        BY <1>1, ExecuteKeeps
      <4> QED
        BY <3>3, <3>4, <4>1 DEF Complete
    <3> QED
      BY <3>1, <3>2, <3>3, <3>4, <3>5 DEF OnceInv, Complete, Primitive, Trace
  <2> QED
    BY <2>1, <2>2
<1>16. CASE CleanupDBGShader
  <2>1. CASE Gone
    BY <1>16, <2>1, GoneOnce DEF CleanupDBGShader
  <2>2. CASE ~Gone
    <3>1. /\ pc = "cleanup" /\ level' = "restart" /\ ~objects' /\ pc' = "idle"
          /\ UNCHANGED <<tab, type, after, at, called>>
          /\ \E o \in RestoreTarget(gl, Kind(level)) : gl' = o.gl
      BY <1>16, <2>2 DEF CleanupDBGShader, Answer, Outcome, app
    <3>2. Same(gl', gl)
      BY <1>1, <3>1, KindTyped, TargetLeaves
    <3> QED
      BY <3>1, <3>2 DEF OnceInv, Same, Complete, Primitive, Trace
  <2> QED
    BY <2>1, <2>2
<1> QED
  BY <1>3, <1>4, <1>5, <1>6, <1>7, <1>8, <1>9, <1>10, <1>11, <1>12, <1>13, <1>14,
     <1>15, <1>16 DEF Handler

(* The user's clicks: Open and Run forget the session; the others leave    *)
(* the GL state as it is.                                                  *)
LEMMA OnceUser ==
    ASSUME Stages = {"fragment"}, PauseAt = {},
           TypeOK, OnceInv, ObjectsInv, ObjectsInv', User
    PROVE  OnceInv'
<1>1. gl \in GlStates
  BY Typed
<1>2. Kill => OnceInv'
  BY GoneOnce DEF Kill
<1>3. Launched /\ ~objects' => OnceInv'
  <2> SUFFICES ASSUME Launched, ~objects' PROVE OnceInv'
    OBVIOUS
  <2>1. /\ gl' = Fresh /\ called' = <<>> /\ at' = 1 /\ ~Primitive(1) /\ pc' = "idle"
        /\ level' \in Trace /\ (level' = "debugable" => Frame[at'] \in Debuggable)
    BY FrameCalls DEF Launched, SubLevel, Trace, Primitive
  <2> QED
    BY <2>1 DEF OnceInv, Fresh, Trace, Primitive
<1>4. CASE ExecuteClicked
  BY <1>2, <1>3, <1>4 DEF ExecuteClicked
<1>5. CASE OpenAccepted
  BY <1>2, <1>5 DEF OpenAccepted
<1>6. CASE OpenCancelled
  <2> SUFFICES ASSUME ~Kill PROVE OnceInv'
    BY <1>2
  <2>1. /\ ~objects' /\ UNCHANGED <<level, pc, tab, type, after, at, called>>
        /\ pc = "idle" /\ \E o \in RestoreTarget(gl, Kind(level)) : gl' = o.gl
    BY <1>6 DEF OpenCancelled, Answer, Outcome, app
  <2>2. Same(gl', gl)
    BY <1>1, <2>1, KindTyped, TargetLeaves
  <2> QED
    BY <2>1, <2>2 DEF OnceInv, Same, Complete, Primitive, Trace
<1>7. CASE SelectTab
  BY <1>7 DEF SelectTab, OnceInv, app, Complete, Unfinished, Primitive
<1>8. CASE StepClicked \/ SkipClicked
  BY <1>8 DEF StepClicked, SkipClicked, Traced, OnceInv, app, Complete, Primitive, Trace
<1>9. CASE ShaderExecuteClicked
  <2>1. level = tab => level \in Stages
    BY DEF TypeOK
  <2> QED
    BY <1>9, <2>1 DEF ShaderExecuteClicked, OnceInv, app, Complete, Primitive, Trace
<1>10. CASE ShaderStepClicked
  <2>1. level = tab => level \in Stages
    BY DEF TypeOK
  <2> QED
    BY <1>10, <2>1 DEF ShaderStepClicked, OnceInv, app, Complete, Primitive, Trace
<1>11. CASE PauseClicked
  BY <1>11 DEF PauseClicked
<1> QED
  BY <1>4, <1>5, <1>6, <1>7, <1>8, <1>9, <1>10, <1>11 DEF User

(* Whichever commands fail, and in whichever way: while a fragment shader  *)
(* is debugged and no recording is given up, the application's image never *)
(* gets more than what has been called.                                    *)
THEOREM Once_inductive ==
    ASSUME Stages = {"fragment"}, PauseAt = {} PROVE Spec => []OnceInv
<1>1. Init => OnceInv
  BY FrameCalls, ShaderDebugAssumption DEF Init, OnceInv, Fresh, Primitive, Trace
<1>2. TypeOK /\ ObjectsInv /\ ObjectsInv' /\ OnceInv /\ [Next]_vars => OnceInv'
  <2>1. OnceInv /\ UNCHANGED vars => OnceInv'
    <3> SUFFICES ASSUME OnceInv, UNCHANGED vars PROVE OnceInv'
      OBVIOUS
    <3>1. UNCHANGED <<gl, alive, level, tab, type, objects, pc, after, at, called>>
      BY DEF vars, dbg, app
    <3> QED
      BY <3>1 DEF OnceInv, Complete, Unfinished, Primitive
  <2> QED
    BY <2>1, OnceHandler, OnceUser DEF Next
<1> QED
  BY <1>1, <1>2, TypeCorrect, Objects_inductive, PTL DEF Spec

(* For fragment shaders and recordings that are not interrupted no call    *)
(* reaches the application's frame buffer twice, whatever goes wrong.      *)
THEOREM Nothing_drawn_twice ==
    ASSUME Stages = {"fragment"}, PauseAt = {} PROVE Spec => []NothingDrawnTwice
<1>1. TypeOK /\ OnceInv => NothingDrawnTwice
  <2> SUFFICES ASSUME TypeOK, OnceInv PROVE NothingDrawnTwice
    OBVIOUS
  <2> DEFINE a == Len(gl.image)
             b == Len(gl.recorded)
             c == Len(called)
  <2>1. a \in Nat /\ b \in Nat /\ c \in Nat
    BY DEF TypeOK, GlStates
  <2>2. a + b <= c
    BY DEF OnceInv
  <2> HIDE DEF a, b, c
  <2>3. a <= c
    BY <2>1, <2>2
  <2> QED
    BY <2>3 DEF NothingDrawnTwice, a, c
<1> QED
  BY <1>1, TypeCorrect, Once_inductive, PTL
=============================================================================
