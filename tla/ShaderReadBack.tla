---------------------------- MODULE ShaderReadBack ----------------------------
(***************************************************************************)
(* Reading back a stepped shader: what the user is shown of a fragment is  *)
(* computed by the shaders that DebugCode writes.  It should be what the   *)
(* application's shader computes for that fragment at the statement, in    *)
(* the call and in the turns of the loops at which the user stopped it.    *)
(***************************************************************************)
EXTENDS DebugCode, JumpSession

CONSTANTS
    MaxIter,   \* bound on the turns of a loop that is stepped
    MaxTrue    \* bound on the evaluations of a condition that may be true

ASSUME BoundsAssumption == MaxIter \in Nat /\ MaxTrue \in Nat

Stopped == res.pos # "UNSET"
Onward  == res.pos = "LOOP_CHOOSE" => res.iter < MaxIter

StepInto == Onward /\ Jump("INTO")
StepOver == Stopped /\ Jump("OVER")   \* also skip, and break
ChooseElse    == res.pos = "SELECTION_CHOOSE_ELSE" /\ Jump("ELSE")
NextIteration == res.pos = "LOOP_CHOOSE" /\ Onward /\ Jump("NEXT")

Next == StepInto \/ StepOver \/ ChooseElse \/ NextIteration

Spec == JumpInit /\ [][Next]_jvars

-----------------------------------------------------------------------------
(* The position at which the user stopped the shader: the calls on the way *)
(* to it, the statement, the part of it that comes next, and the turns of  *)
(* the loops around it and around the calls.                               *)
CallsEntered == {n \in DOMAIN T : T[n].k = "call" /\ jump.mark[n] = "Target"} \ {res.at}

Phase ==
    CASE jump.inner[res.at] = "INIT"     -> "if"
      [] jump.inner[res.at] = "PASSED"   -> "which"
      [] jump.inner[res.at] = "QYR_INIT" -> "init"
      [] jump.inner[res.at] = "QYR_TEST" -> "test"
      [] jump.inner[res.at] = "SELECT_FLOW"  -> "choose"
      [] jump.inner[res.at] = "QYR_TERMINAL" -> "terminal"
      [] OTHER -> "statement"

Turns ==
    {[loop |-> n, turn |-> jump.iter[n]] : n \in {m \in DOMAIN T :
        T[m].k = "loop" /\ \E i \in CallsEntered \cup {res.at} : i \in m .. End(m)}}

(* The application's shader, with that position in it; on: the calls so    *)
(* far are those on the way.                                               *)
HereAt(n, phase, on) == IF on /\ n = res.at /\ phase = Phase THEN Here(Turns) ELSE <<>>

Meaning == INSTANCE ShaderEffects

RECURSIVE Plain(_, _)
PlainAll(c, on) == FoldLeft(LAMBDA a, i : a \o Plain(i, on), <<>>, c)

PlainCall(n, on) ==
    LET f == FunctionNamed(T, T[n].f)
    IN  PlainAll(T[n].c, on) \o HereAt(n, "statement", on) \o Write(T[f].v)
        \o Subroutine(PlainAll(T[f].c, on /\ n \in CallsEntered)) \o Write(Meaning!OutArgs(n))

PlainSelection(n, on) ==
    LET c == T[n].c
    IN  HereAt(n, "if", on)
        \o Choice(Plain(c[1], on) \o Do("eval", n) \o HereAt(n, "which", on),
                  Plain(c[2], on), Plain(c[3], on))

PlainLoop(n, on) ==
    LET c    == T[n].c
        ask  == IF c[2] = 0 THEN Do("always", 0)
                ELSE HereAt(n, "test", on) \o Plain(c[2], on) \o Do("eval", n)
        then == IF c[3] = 0 THEN <<>> ELSE HereAt(n, "terminal", on) \o Plain(c[3], on)
    IN  Do("zero", n) \o (IF c[1] = 0 THEN <<>> ELSE HereAt(n, "init", on) \o Plain(c[1], on))
        \o Cycle(IF T[n].f = "do" THEN "body first" ELSE "test first",
                 ask \o HereAt(n, "choose", on), Plain(c[4], on), then \o Do("count", n))

Plain(n, on) ==
    IF n = 0 THEN <<>>
    ELSE LET kind == T[n].k
             c    == T[n].c
             here == HereAt(n, "statement", on)
         IN  CASE kind = "call"      -> PlainCall(n, on)
               [] kind = "selection" -> PlainSelection(n, on)
               [] kind = "loop"      -> PlainLoop(n, on)
               [] kind = "branch"    -> Plain(c[1], on) \o here \o Flow(T[n].f)
               [] kind = "assign"    -> here \o PlainAll(<<c[2], c[1]>>, on) \o Write(Meaning!Own(n))
               [] kind = "incr"      -> PlainAll(c, on) \o here \o Write(Meaning!Own(n))
               [] OTHER              -> here \o PlainAll(c, on) \o Write(Meaning!Own(n))

-----------------------------------------------------------------------------
(* The fragments, and what the shaders do for them.                        *)
Variables  == UNION {T[n].p \cup (IF T[n].k = "declaration" THEN T[n].v ELSE {}) : n \in DOMAIN T}
Conditions == {n \in DOMAIN T : T[n].k \in {"selection", "loop"}}
Fragments  == [Conditions -> SUBSET (1 .. MaxTrue)]

Fresh == Started(Variables, Conditions)

(* The states in which a fragment comes to the user's position.            *)
Visited(frag) == Exec(frag, PlainAll(T[Main].c, TRUE), Fresh).at

(* What the debugger reads for it.                                         *)
Read(frag, code) == Exec(frag, code, Fresh).out

(* The code for a question is right if for every fragment that comes to    *)
(* the position it answers as the application's shader would there.        *)
Answers(option, v, Expected(_)) ==
    \E code \in {CompileDbg(jump, option, v)}, visits \in {[f \in Fragments |-> Visited(f)]} :
        \A frag \in Fragments :
            visits[frag] # <<>> => Read(frag, code) = Expected(visits[frag][1])

(* A fragment is covered if and only if the application's shader comes to  *)
(* the position for it.                                                    *)
CoverageIsReached ==
    Stopped =>
        \E code \in {CompileDbg(jump, "COVERAGE", "")} :
            \A frag \in Fragments :
                Read(frag, code) = IF Visited(frag) = <<>> THEN 0 ELSE 2

(* The value shown of a variable in scope, or in the scope of a caller, is *)
(* the one it has at the position.                                         *)
ValueIsCurrent ==
    Stopped =>
        \A v \in res.scope \cup res.frames :
            /\ Generated(jump, "CHANGEABLE", v)
            /\ Answers("CHANGEABLE", v, LAMBDA s : s.val[v])

(* The dialogs show which way each fragment takes.                         *)
BranchIsShown ==
    /\ res.pos \in {"SELECTION_CHOOSE", "SELECTION_CHOOSE_ELSE"} =>
         Answers("SELECTION_CONDITIONAL", "", LAMBDA s :
             IF s.truth THEN 2 ELSE IF T[res.at].c[3] # 0 THEN 1 ELSE 0)
    /\ res.pos = "LOOP_CHOOSE" =>
         Answers("LOOP_CONDITIONAL", "", LAMBDA s : IF s.truth THEN 1 ELSE 0)

(* The questions that the debugger may ask at the position.                *)
Questions ==
    {[option |-> "COVERAGE", v |-> ""]}
    \cup {[option |-> "CHANGEABLE", v |-> v] : v \in res.scope \cup res.frames}
    \cup {[option |-> o, v |-> ""] : o \in
             (CASE res.pos \in {"SELECTION_CHOOSE", "SELECTION_CHOOSE_ELSE"} -> {"SELECTION_CONDITIONAL"}
                [] res.pos = "LOOP_CHOOSE" -> {"LOOP_CONDITIONAL"}
                [] OTHER -> {})}

(* Reading back disturbs nothing: the shader with the probe evaluates the  *)
(* same conditions and writes the same variables as the application's.     *)
NothingDisturbed ==
    Stopped =>
        \A q \in Questions :
            \E code \in {CompileDbg(jump, q.option, q.v)}, plain \in {PlainAll(T[Main].c, TRUE)} :
                \A frag \in Fragments :
                    LET ours == Exec(frag, code, Fresh)
                        its  == Exec(frag, plain, Fresh)
                    IN  its.flow # "discard" =>
                            /\ ours.flow # "discard"
                            /\ ours.val = its.val /\ ours.seen = its.seen
=============================================================================
