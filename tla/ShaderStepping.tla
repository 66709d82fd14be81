----------------------------- MODULE ShaderStepping -----------------------------
(***************************************************************************)
(* Stepping a shader in the main window: MainWindow::ShaderStep, the       *)
(* buttons and dialogs that call it, and the values in the watch list.     *)
(*                                                                         *)
(* Every variable is watched (WatchList).  Whether a value shown is that   *)
(* of the current position is decided by ShaderEffects, which knows what   *)
(* the steps wrote.                                                        *)
(***************************************************************************)
EXTENDS JumpSession, WatchList

CONSTANT MaxIter   \* bound on the iterations of a loop with active data

ASSUME MaxIterAssumption == MaxIter \in Nat \ {0}

VARIABLES
    agenda,     \* what the marks stand for: a function of jump
    loopData,   \* the loop that the data on top of m_qLoopData were made for
    active      \* some of those data are active (getActive() > 0)

vars == <<shader, jump, agenda, res, ui, loopData, active, watch>>

Meaning == INSTANCE ShaderEffects

Variables == UNION {T[n].p \cup (IF T[n].k = "declaration" THEN T[n].v ELSE {}) : n \in DOMAIN T}

-----------------------------------------------------------------------------
(* The agenda that the marks stand for.                                    *)
MarkedChildren(j, n) ==
    {i \in DOMAIN T[n].c : T[n].c[i] # 0 /\ j.mark[T[n].c[i]] # "None"}

Count(j, n)   == IF T[n].f = "do" THEN j.iter[n] - 1 ELSE j.iter[n]
Counted(j, n) == IF T[n].f = "do" THEN j.iter[n] ELSE j.iter[n] + 1

(* A node that is a target.  A call whose function is on the stack is left *)
(* when the function ends.                                                 *)
AtTarget(j, n) ==
    LET state == j.inner[n]
        Called == T[n].k = "call" /\ \E i \in 1 .. Len(j.stack) - 1 :
                     j.stack[i] = FunctionNamed(T, T[n].f)
    IN  CASE Called -> Meaning!Ran(Meaning!OutArgs(n))
          [] state = "INIT"     -> Meaning!StopAt(n, "if", 0)
          [] state = "PASSED"   -> Meaning!StopAt(n, "which", 0)
          [] state = "QYR_INIT" -> Meaning!StopAt(n, "init", 0)
          [] state = "QYR_TEST" -> Meaning!StopAt(n, "test", Count(j, n))
          [] state = "SELECT_FLOW"  -> Meaning!StopAt(n, "choose", Count(j, n))
          [] state = "QYR_TERMINAL" -> Meaning!StopAt(n, "terminal", Count(j, n) + 1)
          [] OTHER -> Meaning!StopAt(n, "statement", 0)

RECURSIVE Rest(_, _)
Rest(j, n) ==
    IF j.mark[n] = "Target" THEN AtTarget(j, n)
    ELSE IF MarkedChildren(j, n) = {} THEN <<>>
    ELSE
    LET c     == T[n].c
        i     == CHOOSE x \in MarkedChildren(j, n) : TRUE
        state == j.inner[n]
        later == SubSeq(c, i + 1, Len(c))
        k     == T[n].k
        then  ==
          CASE k = "assign" -> (IF i = 2 THEN Meaning!Visit(c[1]) ELSE <<>>)
                               \o Meaning!Ran(Meaning!Own(n))
            [] k \in {"call", "incr", "branch"} ->
                 Meaning!Visits(later) \o Meaning!StopAt(n, "statement", 0)
            [] state = "CONDITION" -> Meaning!StopAt(n, "which", 0)
            [] state = "IF"   -> Meaning!Pass(c[3])
            [] state = "ELSE" -> Meaning!Pass(c[2])
            [] state = "WRK_INIT" -> Meaning!Test(n, 0)
            [] state = "WRK_TEST" -> Meaning!StopAt(n, "choose", Count(j, n))
            [] state = "WRK_BODY" -> Meaning!Back(n, Counted(j, n))
            [] state = "WRK_TERMINAL" -> Meaning!Test(n, Counted(j, n))
            [] OTHER -> Meaning!Visits(later) \o Meaning!Ran(Meaning!Own(n))
    IN  Rest(j, c[i]) \o then

Agenda(j) ==
    IF j.stack = <<>> THEN Meaning!Begun
    ELSE FoldLeft(LAMBDA a, f : a \o Rest(j, f), <<>>, j.stack)

-----------------------------------------------------------------------------
(* The dialog that a stop opens; none after DBG_BH_LOOP_NEXT_ITER.         *)
DialogAt(r) ==
    CASE r.pos \in {"SELECTION_CHOOSE", "SELECTION_CHOOSE_ELSE"} -> "selection"
      [] r.pos = "LOOP_CHOOSE" -> "loop"
      [] OTHER -> "idle"

(* At DBG_RS_POSITION_LOOP_CHOOSE: iteration 0 makes new loop data, any    *)
(* other adds its condition to the data on top of the stack.               *)
LoopStorage(r, cover) ==
    IF r.pos = "LOOP_CHOOSE" /\ (r.iter = 0 \/ cover)
    THEN /\ active' \in (IF r.iter < MaxIter THEN BOOLEAN ELSE {FALSE})
         /\ loopData' = IF r.iter = 0 THEN r.at ELSE loopData
    ELSE UNCHANGED <<loopData, active>>

(* ShDebugJumpToNext.                                                      *)
MoveOn(j, bh) == JumpToNext(j, bh) /\ agenda' = Agenda(jump')

(* What the shader writes in this step.                                    *)
Wrote(bh) ==
    IF jump.stack = <<>> THEN Meaning!Run(agenda, {}).wrote
    ELSE Meaning!After(agenda, bh).wrote

(* ShaderStep with the watch list w.                                       *)
ShaderStepFrom(w, bh, update, cover, next) ==
    /\ MoveOn(jump, bh)
    /\ ui' = IF next = "dialog" THEN DialogAt(res') ELSE next
    /\ \E seen \in {SetChangedAndScope(Outdated(w, Wrote(bh)), res')},
          completed \in (IF cover THEN Completions ELSE {"no"}) :
          watch' = IF update THEN UpdateWatchListData(seen, res', completed) ELSE seen
    /\ LoopStorage(res', cover)

ShaderStep(bh, update, cover, next) ==
    ShaderStepFrom(watch, bh, update, cover, next)

Init ==
    /\ JumpInit /\ agenda = Agenda(jump)
    /\ ui = "start" /\ loopData = 0 /\ active = FALSE
    /\ watch = [v \in Variables |-> Unseen]

(* on_tbShaderExecute_clicked ends with the first step.                    *)
Start == ui = "start" /\ ShaderStep("INTO", TRUE, TRUE, "dialog")

Mut_Steppable == ui = "idle"   \* the buttons stay enabled

(* The buttons are disabled at the end of main.                            *)
Steppable == ui = "idle" /\ res.pos # "DUMMY"
StepInto == Steppable /\ ShaderStep("INTO", TRUE, TRUE, "dialog")
StepOver == Steppable /\ ShaderStep("ELSE", TRUE, TRUE, "dialog")

(* A reset has no answer; the marks are gone and the first step follows.   *)
ShaderReset ==
    /\ ui = "idle"
    /\ MoveOn(Reset(jump.fin), "INTO")
    /\ ui' = DialogAt(res')
    /\ watch' = ResetWatchListData(SetChangedAndScope(watch, res'))
    /\ LoopStorage(res', TRUE)

(* The selection dialog; its Else is there only if the shader has one.     *)
ChooseIf   == ui = "selection" /\ ShaderStep("INTO", TRUE, TRUE, "dialog")
ChooseElse ==
    /\ ui = "selection" /\ res.pos = "SELECTION_CHOOSE_ELSE"
    /\ ShaderStep("ELSE", TRUE, TRUE, "dialog")
Skip == ui = "selection" /\ ShaderStep("OVER", TRUE, TRUE, "dialog")

(* The loop dialog, which ends with SA_BREAK at once if nothing is active. *)
LoopNext  == ui = "loop" /\ active /\ ShaderStep("NEXT", TRUE, TRUE, "idle")
LoopBreak == ui = "loop" /\ ShaderStep("OVER", TRUE, TRUE, "dialog")

(* on_pbJump_clicked passes iterations without any update; SA_JUMP then    *)
(* updates the watch list and steps into the body.                         *)
JumpIteration ==
    /\ ui = "jump" \/ (ui = "loop" /\ active)
    /\ res.iter < MaxIter
    /\ ShaderStep("NEXT", FALSE, FALSE, "jump")

Mut_JumpInto == ui = "jump" /\ ShaderStep("INTO", TRUE, TRUE, "dialog")

JumpInto ==
    /\ ui = "jump"
    /\ \E completed \in Completions \ {"no"} :
          ShaderStepFrom(UpdateWatchListData(watch, res, completed), "INTO", TRUE, TRUE, "dialog")

(* on_pbStatistics_clicked: iterations until nothing is active or the user *)
(* stops it, then one with an update, and the dialog is back.              *)
StatisticsIteration ==
    /\ ui \in {"loop", "statistics"} /\ active
    /\ ShaderStep("NEXT", FALSE, TRUE, "statistics")

StatisticsEnd == ui = "statistics" /\ ShaderStep("NEXT", TRUE, TRUE, "loop")

Proceed ==
    \/ Start \/ StepInto \/ StepOver
    \/ ChooseIf \/ ChooseElse \/ Skip
    \/ LoopNext \/ LoopBreak
    \/ JumpIteration \/ JumpInto
    \/ StatisticsIteration \/ StatisticsEnd

Next == Proceed \/ ShaderReset

Spec == Init /\ [][Next]_vars

(* The user goes on as long as there is something to do.  This is          *)
(* WF_vars(Proceed) with its ENABLED Proceed spelled out: in every state   *)
(* but the end of main one of the actions above can be taken.              *)
Ended    == ui = "idle" /\ res.pos = "DUMMY"
FairSpec == Spec /\ ([]<>Ended \/ []<><<Proceed>>_vars)

-----------------------------------------------------------------------------
(* The statement, the question and the iteration that are shown to the     *)
(* user are those of the position that the marks stand for.                *)
PhaseOf(pos) ==
    CASE pos \in {"SELECTION", "SELECTION_ELSE"} -> {"if"}
      [] pos \in {"SELECTION_CHOOSE", "SELECTION_CHOOSE_ELSE"} -> {"which"}
      [] pos = "LOOP_CHOOSE" -> {"choose"}
      [] pos \in {"LOOP_for", "LOOP_while", "LOOP_do"} -> {"init", "test", "terminal"}
      [] OTHER -> {"statement"}

StopIsShown ==
    ui # "start" => LET stop == Head(agenda)
                    IN  /\ stop.do = "stop" /\ stop.n = res.at
                        /\ stop.phase \in PhaseOf(res.pos)
                        /\ stop.phase = "choose" => stop.iter = res.iter

(* The loop dialog shows the iterations of the loop it asks about.         *)
DialogShowsItsLoop == ui = "loop" => loopData = res.at

(* A user who keeps going, and does not start over for ever, comes to the  *)
(* end of the shader.                                                      *)
EndReached == <>[][~ShaderReset]_vars => <>(res.pos = "DUMMY")

(* Stepping implements ShaderWalk.                                         *)
Walk == INSTANCE ShaderWalk WITH reported <- res.changed
WalkSpec == Walk!Spec
=============================================================================
