------------------------------- MODULE DebugJump --------------------------------
(***************************************************************************)
(* ShDebugJumpToNext: DebugJump.cpp finds the next statement at which a    *)
(* stepped shader stops.  It has no program counter.  Marks in the tree    *)
(* say where the shader is: in every function on the parse stack one node  *)
(* is the target, its ancestors are the path, and selections and loops     *)
(* know which of their parts is in progress.  A step unsets the target and *)
(* walks on until a node takes the mark.                                   *)
(*                                                                         *)
(* The operators thread one record s: the marks and the parse stack, the   *)
(* operation op and the behaviour bh of the traverser, and the result res. *)
(* op = "Abort" stands for exit(1) and for the dereference of NULL.        *)
(*                                                                         *)
(* The recursion of the traversal is a function of its depth: an operator  *)
(* that traverses other nodes takes the traversal that is one call         *)
(* shallower as its parameter, named deeper.  That Depth is enough is      *)
(* proved in JumpSession_proofs.                                           *)
(***************************************************************************)
EXTENDS ShaderTree, Integers, FiniteSets

CONSTANT Shaders   \* the shaders that may be stepped

VARIABLE shader    \* the one that is: its tree, and what DebugVar noted in it

T     == shader.tree
Known == shader.notes
Main  == FunctionNamed(T, "main")

(* The last node of the subtree of n, and what lies in that subtree.       *)
End(n)      == Known.end[n]
Under(m, n) == n # 0 /\ n <= m /\ m <= End(n)

-----------------------------------------------------------------------------
(* What the traversal relies on: the trees are those of shaders that were  *)
(* compiled and linked.                                                    *)
NodeTypes(t) ==
    t \in Seq([k : STRING, c : Seq(Nat), f : STRING,
               v : SUBSET STRING, p : SUBSET STRING, o : SUBSET Nat]) \ {<<>>}

NoteTypes(sh) ==
    LET N == DOMAIN sh.tree
        Names == SUBSET STRING
    IN  sh.notes \in [end : [N -> N], cgb : [N -> Names], left : [N -> Names],
                      param : [N -> Names], flags : [N -> Names], scope : [N -> Names]]

(* The subtrees nest, and the children of a node share its subtree out     *)
(* among them, in their order.                                             *)
Subtrees(t, end) ==
    \A n \in DOMAIN t :
        LET c == t[n].c
        IN  /\ n <= end[n] /\ \A m \in n .. end[n] : end[m] <= end[n]
            /\ \A i \in DOMAIN c : c[i] \in {0} \cup n + 1 .. end[n]
            /\ \A i, j \in DOMAIN c :
                   i < j /\ c[i] # 0 /\ c[j] # 0 => end[c[i]] < c[j]
            /\ \A m \in n + 1 .. end[n] : \E i \in DOMAIN c : c[i] # 0 /\ m \in c[i] .. end[c[i]]

(* The parts of the nodes.  A selection has a true block if it has a false *)
(* one; nothing is executed in types and constants.                        *)
StopKinds == {"assign", "incr", "branch", "dummy", "call", "selection", "loop"}

Shaped(t, end) ==
    \A n \in DOMAIN t :
        LET c == t[n].c
        IN  CASE t[n].k = "assign" -> Len(c) = 2 /\ c[1] # 0 /\ c[2] # 0
              [] t[n].k \in {"incr", "branch"} -> Len(c) = 1
              [] t[n].k = "selection" -> Len(c) = 3 /\ (c[2] # 0 \/ c[3] = 0)
              [] t[n].k = "loop" -> Len(c) = 4 /\ t[n].f \in {"for", "while", "do"}
              [] t[n].k \in {"struct", "symbol", "constant"} ->
                   \A m \in n + 1 .. end[n] : t[m].k \notin StopKinds
              [] OTHER -> TRUE

(* The root is a function or the sequence of the definitions; what is      *)
(* called is defined, without recursion; and main ends with the dummy that *)
(* the parser adds.                                                        *)
Functions(t) == {n \in DOMAIN t : t[n].k = "function"}

Callable(t, end) ==
    /\ \A f \in Functions(t), m \in DOMAIN t :
           m < f /\ f <= end[m] => m = 1 /\ t[m].k = "sequence"
    /\ \E rank \in [Functions(t) -> 1 .. Len(t)] :
           \A f \in Functions(t), n \in DOMAIN t :
               n \in f .. end[f] /\ t[n].k = "call" =>
                   LET callee == FunctionNamed(t, t[n].f)
                   IN  callee # 0 /\ rank[callee] < rank[f]

EndsWithDummy(t) ==
    LET main == FunctionNamed(t, "main")
    IN  /\ main # 0 /\ Len(t[main].c) = 1 /\ t[main].c[1] # 0
        /\ LET body == t[main].c[1]
                last == Len(t[body].c)
           IN  /\ t[body].k = "sequence" /\ last # 0 /\ t[body].c[last] # 0
               /\ t[t[body].c[last]].c = <<>>
               /\ \A n \in DOMAIN t : t[n].k = "dummy" <=> n = t[body].c[last]

WellFormed(sh) ==
    /\ NodeTypes(sh.tree) /\ NoteTypes(sh)
    /\ Subtrees(sh.tree, sh.notes.end) /\ Shaped(sh.tree, sh.notes.end)
    /\ Callable(sh.tree, sh.notes.end) /\ EndsWithDummy(sh.tree)

ASSUME ShadersAssumption == \A sh \in Shaders : WellFormed(sh)

-----------------------------------------------------------------------------
Marks      == {"None", "Path", "Target", "Finished"}
SelectionStates == {"UNSET", "INIT", "CONDITION", "PASSED", "IF", "ELSE"}
LoopStates == {"UNSET", "QYR_INIT", "WRK_INIT", "QYR_TEST", "WRK_TEST", "SELECT_FLOW",
               "WRK_BODY", "QYR_TERMINAL", "WRK_TERMINAL"}

(* The states of the parts of a selection or a loop at which it is at work, *)
(* in the order of its children.                                           *)
Works(n) ==
    CASE T[n].k = "selection" -> <<"CONDITION", "IF", "ELSE">>
      [] T[n].k = "loop"      -> <<"WRK_INIT", "WRK_TEST", "WRK_TERMINAL", "WRK_BODY">>
      [] OTHER                -> <<>>

Operations == {"TargetUnset", "TargetSet", "Done", "Finished", "Abort"}
Behaviours == {"INTO", "ELSE", "OVER", "NEXT"}   \* NONE is left of INTO
Positions  == {"UNSET", "ASSIGNMENT", "UNARY", "BRANCH", "DUMMY", "FUNCTION_CALL",
               "SELECTION", "SELECTION_ELSE", "SELECTION_CHOOSE", "SELECTION_CHOOSE_ELSE",
               "LOOP_for", "LOOP_while", "LOOP_do", "LOOP_CHOOSE"}

(* What RESET makes of the tree; it reaches every node that can be marked, *)
(* but leaves finishedDbgFunction alone.                                   *)
Reset(fin) ==
    [mark  |-> [n \in DOMAIN T |-> "None"],
     inner |-> [n \in DOMAIN T |-> "UNSET"],
     iter  |-> [n \in DOMAIN T |-> 0],
     stack |-> <<>>, fin |-> fin]

NoResult == [status |-> "UNSET", pos |-> "UNSET", at |-> 0, iter |-> 0,
             changed |-> {}, scope |-> {}, frames |-> {}]

Top(s)   == s.stack[1]
Abort(s) == [s EXCEPT !.op = "Abort"]

(* copyShChangeableList, and passedEmitVertex and passedDiscard.           *)
Copy(s, S) == [s EXCEPT !.res = [s.res EXCEPT !.changed = s.res.changed \cup S]]
PassAll(s, nodes) ==
    Copy(s, UNION {Known.cgb[n] \cup Known.flags[n] : n \in ToSet(nodes) \ {0}})
Pass(s, n) == PassAll(s, <<n>>)

(* The node becomes the target and the step is over.                       *)
Stop(s, n, pos) ==
    [s EXCEPT !.mark[n] = "Target", !.op = "Done",
              !.res = [@ EXCEPT !.pos = pos, !.at = n, !.scope = Known.scope[n]]]

(* The target is left and the next one is looked for.                      *)
Unset(s, n) ==
    [s EXCEPT !.mark[n] = "None", !.op = "TargetSet",
              !.res = [@ EXCEPT !.pos = "UNSET"]]

Position(n) ==
    CASE T[n].k = "assign" -> "ASSIGNMENT"
      [] T[n].k = "incr"   -> "UNARY"
      [] T[n].k = "branch" -> "BRANCH"
      [] T[n].k = "dummy"  -> "DUMMY"

ProcessDebugable(s, n) ==
    CASE s.op = "TargetUnset" /\ s.mark[n] = "Target" -> Unset(s, n)
      [] s.op = "TargetSet" /\ s.mark[n] = "Target"   -> Abort(s)
      [] s.op = "TargetSet" /\ s.mark[n] = "None"     -> Stop(s, n, Position(n))
      [] OTHER -> s

Looking == {"TargetUnset", "TargetSet"}

(* The states that the traversal passes through.                           *)
Results ==
    [status : {"UNSET", "OK", "FINISHED", "ABORT", "ERROR"}, pos : Positions,
     at : Nat, iter : Int, changed : SUBSET STRING, scope : SUBSET STRING,
     frames : SUBSET STRING]

Markings == [DOMAIN T -> Marks]
Progress == [DOMAIN T -> SelectionStates \cup LoopStates]
LoopCounters == [DOMAIN T -> Nat]
Stacks   == Seq(Functions(T))

States ==
    [mark : Markings, inner : Progress, iter : LoopCounters, stack : Stacks, fin : BOOLEAN,
     op : Operations, bh : Behaviours \cup {"NONE"}, res : Results]

Visits == States \X (DOMAIN T)

(* Nothing changes once the step is done.                                  *)
Traverse(deeper, s, n) ==
    IF n = 0 \/ s.op \notin Looking THEN s ELSE deeper[<<s, n>>]

TraverseAll(deeper, s, c) ==
    LET after[i \in 0 .. Len(c)] ==
            IF i = 0 THEN s ELSE Traverse(deeper, after[i - 1], c[i])
    IN  after[Len(c)]

(* An expression or a part that is traversed from its parent's visit; if   *)
(* that finds no target all that the part does was passed.                 *)
PassIfNoStop(s, n) == IF s.op = "TargetSet" THEN Pass(s, n) ELSE s
Into(deeper, s, n) == PassIfNoStop(Traverse(deeper, s, n), n)

-----------------------------------------------------------------------------
(* Selections <<condition, true block, false block>>.  A visit answers s   *)
(* and whether the traversal of the node goes on.                          *)
Go(s)    == [s |-> s, go |-> TRUE]
NoGo(s)  == [s |-> s, go |-> FALSE]

(* DBG_STATE_SELECTION_INIT: into the condition, or over the selection.    *)
EnterCondition(deeper, s, n) ==
    LET c  == T[n].c
        in == [Unset(s, n) EXCEPT !.inner[n] = "CONDITION"]
    IN  IF s.bh = "INTO" THEN Into(deeper, in, c[1])
        ELSE PassAll([in EXCEPT !.inner[n] = "UNSET"], c)

(* DBG_STATE_SELECTION_CONDITION_PASSED: the block to debug is chosen.     *)
(* What the other one changes is reported when the chosen one is done; a   *)
(* discard in it at once.                                                  *)
ChooseBlock(s, n) ==
    LET c    == T[n].c
        out  == Unset(s, n)
        Follow(state, other) ==
            Go(Copy([out EXCEPT !.inner[n] = state],
                    IF other = 0 THEN {} ELSE Known.flags[other] \cap {"DISCARD"}))
    IN  IF s.bh = "OVER"
        THEN IF c[2] = 0 /\ c[3] # 0 THEN NoGo(Abort(s))
             ELSE NoGo(PassAll([out EXCEPT !.inner[n] = "UNSET"], Tail(c)))
        ELSE IF s.bh = "ELSE" /\ c[3] # 0 THEN Follow("ELSE", c[2])
        ELSE Follow("IF", c[3])

Mut_LeaveBlock(s, n) == [s EXCEPT !.inner[n] = "UNSET"]   \* nothing is copied

(* The chosen block is done: the other one's changes are copied.           *)
LeaveBlock(s, n) ==
    LET other == IF s.inner[n] = "IF" THEN T[n].c[3] ELSE T[n].c[2]
        s2    == [s EXCEPT !.inner[n] = "UNSET"]
    IN  IF other = 0 THEN s2
        ELSE Copy(s2, Known.cgb[other] \cup (Known.flags[other] \cap {"EMIT"}))

AtSelection(n) == IF T[n].c[3] = 0 THEN "SELECTION" ELSE "SELECTION_ELSE"
AtChoice(n)    == IF T[n].c[3] = 0 THEN "SELECTION_CHOOSE" ELSE "SELECTION_CHOOSE_ELSE"

VisitSelection(deeper, s, n) ==
    LET state == s.inner[n]
    IN  CASE s.op = "TargetUnset" /\ s.mark[n] = "Target" ->
               (CASE state = "INIT"   -> NoGo(EnterCondition(deeper, s, n))
                  [] state = "PASSED" -> ChooseBlock(s, n)
                  [] state = "UNSET"  -> NoGo(Abort(s))
                  [] OTHER            -> Go(s))
          [] s.op = "TargetSet" /\ s.mark[n] = "None" ->
               (CASE state = "UNSET" ->
                       NoGo(Stop([s EXCEPT !.inner[n] = "INIT"], n, AtSelection(n)))
                  [] state = "CONDITION" ->
                       NoGo(Stop([s EXCEPT !.inner[n] = "PASSED"], n, AtChoice(n)))
                  [] state \in {"IF", "ELSE"} -> NoGo(LeaveBlock(s, n))
                  [] OTHER -> Go(s))
          [] OTHER -> Go(s)


-----------------------------------------------------------------------------
Mut_Iteration(s, n) == s.iter[n]   \* a do loop is numbered as the others

(* Loops <<init, test, terminal, body>>.  A do loop has counted its first  *)
(* iteration before it is first asked for its test.                        *)
Iteration(s, n) == IF T[n].f = "do" THEN s.iter[n] - 1 ELSE s.iter[n]

LoopParts(n) == <<T[n].c[2], T[n].c[4], T[n].c[3]>>   \* test, body, terminal

Mut_LeaveLoop(s, n) == [s EXCEPT !.inner[n] = "UNSET"]   \* the counter stays
LeaveLoop(s, n) == [s EXCEPT !.inner[n] = "UNSET", !.iter[n] = 0]

StopLoop(s, n, state, pos) == Stop([s EXCEPT !.inner[n] = state], n, pos)

StopChoose(s, n) ==
    [StopLoop(s, n, "SELECT_FLOW", "LOOP_CHOOSE")
        EXCEPT !.res = [@ EXCEPT !.iter = Iteration(s, n)]]

Mut_CountUp(s, n) == s
CountUp(s, n) == [s EXCEPT !.iter[n] = @ + 1]

(* Into a part of the loop at which it stopped, or over the whole loop.    *)
EnterPart(deeper, s, n, work, part, rest) ==
    LET in == [Unset(s, n) EXCEPT !.inner[n] = work]
    IN  IF s.bh = "INTO" THEN Into(deeper, in, part) ELSE PassAll(LeaveLoop(in, n), rest)

EnterTerminal(deeper, s, n) ==
    LET in == [Unset(s, n) EXCEPT !.inner[n] = "WRK_TERMINAL"]
    IN  IF s.bh = "INTO" THEN Into(deeper, in, T[n].c[3]) ELSE Pass(in, T[n].c[3])

(* DBG_STATE_LOOP_SELECT_FLOW: out of the loop, one iteration without      *)
(* stepping it, or into the body.                                          *)
ChooseFlow(s, n) ==
    LET out == Unset(s, n)
    IN  CASE s.bh = "OVER" -> NoGo(PassAll(LeaveLoop(out, n), LoopParts(n)))
          [] s.bh = "NEXT" -> Go(StopChoose(CountUp(PassAll(s, LoopParts(n)), n), n))
          [] OTHER -> Go([out EXCEPT !.inner[n] = "WRK_BODY"])

LeaveStop(deeper, s, n) ==
    LET c == T[n].c
    IN  CASE s.inner[n] = "QYR_INIT" ->
               NoGo(EnterPart(deeper, s, n, "WRK_INIT", c[1], <<c[1]>> \o LoopParts(n)))
          [] s.inner[n] = "QYR_TEST" ->
               NoGo(EnterPart(deeper, s, n, "WRK_TEST", c[2], LoopParts(n)))
          [] s.inner[n] = "SELECT_FLOW"  -> ChooseFlow(s, n)
          [] s.inner[n] = "QYR_TERMINAL" -> NoGo(EnterTerminal(deeper, s, n))
          [] s.inner[n] = "UNSET" -> NoGo(Abort(s))
          [] OTHER -> Go(s)

AtTest(n) ==
    CASE T[n].f = "for"   -> "LOOP_for"
      [] T[n].f = "while" -> "LOOP_while"
      [] T[n].f = "do"    -> "LOOP_do"

ReachLoop(s, n) ==
    LET c == T[n].c
    IN  CASE T[n].f = "do" -> Go([s EXCEPT !.inner[n] = "WRK_BODY"])
          [] T[n].f # "do" /\ c[1] # 0 -> NoGo(StopLoop(s, n, "QYR_INIT", AtTest(n)))
          [] T[n].f # "do" /\ c[1] = 0 /\ c[2] # 0 -> NoGo(StopLoop(s, n, "QYR_TEST", AtTest(n)))
          [] OTHER -> NoGo(StopChoose(s, n))

(* The body is done: the terminal is next, else the test, else the choice. *)
LeaveBody(s, n) ==
    LET c == T[n].c
    IN  IF c[3] # 0 THEN StopLoop(s, n, "QYR_TERMINAL", AtTest(n))
        ELSE IF c[2] # 0 THEN CountUp(StopLoop(s, n, "QYR_TEST", AtTest(n)), n)
        ELSE CountUp(StopChoose(s, n), n)

LeaveTerminal(s, n) ==
    CountUp(IF T[n].c[2] # 0 THEN StopLoop(s, n, "QYR_TEST", AtTest(n))
            ELSE StopChoose(s, n), n)

ReachStop(s, n) ==
    CASE s.inner[n] = "UNSET"        -> ReachLoop(s, n)
      [] s.inner[n] = "WRK_INIT"     ->
           NoGo(StopLoop(s, n, IF T[n].c[2] # 0 THEN "QYR_TEST" ELSE "SELECT_FLOW", "LOOP_for"))
      [] s.inner[n] = "WRK_TEST"     -> NoGo(StopChoose(s, n))
      [] s.inner[n] = "WRK_BODY"     -> NoGo(LeaveBody(s, n))
      [] s.inner[n] = "WRK_TERMINAL" -> NoGo(LeaveTerminal(s, n))
      [] OTHER -> Go(s)

VisitLoop(deeper, s, n) ==
    CASE s.op = "TargetUnset" /\ s.mark[n] = "Target" -> LeaveStop(deeper, s, n)
      [] s.op = "TargetSet" /\ s.mark[n] = "None"     -> ReachStop(s, n)
      [] OTHER -> Go(s)

-----------------------------------------------------------------------------
(* TIntermSelection::traverse and TIntermLoop::traverse go through stages: *)
(* a node in one of the given states is visited, and a part is traversed   *)
(* if the node is now at work on it.                                       *)
VisitIn(states, deeper, v, n) ==
    IF v.s.inner[n] \notin states THEN v
    ELSE IF T[n].k = "selection" THEN VisitSelection(deeper, v.s, n)
    ELSE VisitLoop(deeper, v.s, n)

Work(deeper, v, n, i) ==
    IF v.go /\ v.s.inner[n] = Works(n)[i]
    THEN [v EXCEPT !.s = Traverse(deeper, @, T[n].c[i])] ELSE v

Stage(states, deeper, v, n, i) == Work(deeper, VisitIn(states, deeper, v, n), n, i)

TraverseSelection(deeper, s, n) ==
    LET condition == Stage({"UNSET", "INIT", "PASSED"}, deeper, Go(s), n, 1)
        yes       == Stage({"CONDITION"}, deeper, condition, n, 2)
        no        == Work(deeper, yes, n, 3)
    IN  VisitIn({"IF", "ELSE"}, deeper, no, n).s

TraverseLoop(deeper, s, n) ==
    LET init     == Stage({"UNSET", "QYR_INIT"}, deeper, Go(s), n, 1)
        test     == Stage({"WRK_INIT", "QYR_TEST"}, deeper, init, n, 2)
        body     == Stage({"WRK_TEST", "SELECT_FLOW"}, deeper, test, n, 4)
        terminal == Stage({"WRK_BODY", "QYR_TERMINAL"}, deeper, body, n, 3)
    IN  VisitIn({"WRK_TERMINAL"}, deeper, terminal, n).s

-----------------------------------------------------------------------------
(* Functions and calls.                                                    *)

(* The caller is searched for a statement, not for its target.             *)
Mut_VisitFunction(deeper, s, n) ==
    LET popped == [s EXCEPT !.stack = Tail(@), !.fin = TRUE,
                            !.bh = IF @ = "INTO" THEN "NONE" ELSE @]
    IN  CASE s.op # "TargetSet" -> s
          [] s.op = "TargetSet" /\ Len(s.stack) > 1 -> Traverse(deeper, popped, Top(popped))
          [] OTHER -> [popped EXCEPT !.op = "Finished"]

(* The end of a function: go on in the caller, behind the call.  The       *)
(* behaviour loses DBG_BH_JUMPINTO.                                        *)
VisitFunction(deeper, s, n) ==
    LET popped == [s EXCEPT !.stack = Tail(@), !.fin = TRUE,
                            !.bh = IF @ = "INTO" THEN "NONE" ELSE @]
    IN  CASE s.op # "TargetSet" -> s
          [] s.op = "TargetSet" /\ n # Top(s) -> Abort(s)
          [] s.op = "TargetSet" /\ n = Top(s) /\ Len(s.stack) > 1 ->
               Traverse(deeper, [popped EXCEPT !.op = "TargetUnset"], Top(popped))
          [] OTHER -> [popped EXCEPT !.op = "Finished"]

Entered(s, f) ==
    Copy([s EXCEPT !.stack = <<f>> \o @, !.op = "TargetSet"], Known.param[f])

PassedCall(s, n) == IF s.op = "TargetSet" THEN Copy(s, Known.cgb[n]) ELSE s

(* The target is not taken from a call that is stepped over.               *)
Mut_LeaveCall(deeper, s, n) ==
    LET over == [s EXCEPT !.op = "TargetSet"]
    IN  CASE s.bh = "INTO" -> PassedCall(Traverse(deeper, Entered(s, FunctionNamed(T, T[n].f)),
                                                  FunctionNamed(T, T[n].f)), n)
          [] s.bh # "INTO" /\ s.fin -> Copy([over EXCEPT !.fin = FALSE], Known.param[n])
          [] OTHER -> Pass(over, n)

(* The call at which the shader stopped: into the function, behind the     *)
(* call after its end, or over the call.                                   *)
LeaveCall(deeper, s, n) ==
    LET f    == FunctionNamed(T, T[n].f)
        over == Unset(s, n)
    IN  CASE s.bh = "INTO" /\ f = 0 -> Abort(s)
          [] s.bh = "INTO" /\ f # 0 -> PassedCall(Traverse(deeper, Entered(s, f), f), n)
          [] s.bh # "INTO" /\ s.fin -> Copy([over EXCEPT !.fin = FALSE], Known.param[n])
          [] OTHER -> Pass(over, n)

VisitCall(deeper, s, n) ==
    CASE s.op = "TargetUnset" /\ s.mark[n] = "Target" -> LeaveCall(deeper, s, n)
      [] s.op = "TargetSet" /\ s.mark[n] = "Target"   -> Abort(s)
      [] s.op = "TargetSet" /\ s.mark[n] = "None"     -> Stop(s, n, "FUNCTION_CALL")
      [] OTHER -> s

-----------------------------------------------------------------------------
(* Assignments are visited before their operands, increments after theirs. *)
(* A call on the right of an assignment is a stop of its own.              *)
PassLeft(s, n) ==
    IF s.op = "TargetSet" THEN Copy(s, Known.left[n] \cup Known.flags[Left(T, n)]) ELSE s

TraverseAssign(deeper, s, n) ==
    LET Parts(a) == Traverse(deeper, Traverse(deeper, a, Right(T, n)), Left(T, n))
    IN  CASE s.mark[n] = "Target" /\ s.op = "TargetUnset" /\ s.bh = "INTO" ->
               PassIfNoStop(Parts(Unset(s, n)), n)
          [] s.mark[n] = "Target" /\ s.op = "TargetUnset" /\ s.bh # "INTO" -> Pass(Unset(s, n), n)
          [] s.mark[n] # "Target" /\ s.op = "TargetUnset" -> PassLeft(Parts(s), n)
          [] OTHER -> ProcessDebugable(s, n)

VisitIncr(deeper, s, n) ==
    CASE s.mark[n] = "Target" /\ s.op = "TargetUnset" /\ s.bh # "INTO" -> Pass(Unset(s, n), n)
      [] s.mark[n] = "Target" /\ s.op = "TargetUnset" /\ s.bh = "INTO" ->
           PassIfNoStop(Traverse(deeper, Unset(s, n), Left(T, n)), n)
      [] s.mark[n] # "Target" /\ s.op = "TargetUnset" -> PassIfNoStop(Traverse(deeper, s, Left(T, n)), n)
      [] OTHER -> ProcessDebugable(s, n)

(* TIntermNode::traverse with debugVisit: only assignments, selections and *)
(* loops are visited before their children, switches not at all.           *)
Visit(deeper, s, n) ==
    LET kind   == T[n].k
        passed == TraverseAll(deeper, s, T[n].c)
    IN  CASE kind = "assign"    -> TraverseAssign(deeper, s, n)
          [] kind = "selection" -> TraverseSelection(deeper, s, n)
          [] kind = "loop"      -> TraverseLoop(deeper, s, n)
          [] kind = "switch"    -> s
          [] kind = "function"  -> VisitFunction(deeper, passed, n)
          [] kind = "call"      -> VisitCall(deeper, passed, n)
          [] kind = "incr"      -> VisitIncr(deeper, passed, n)
          [] kind = "dummy" \/ (kind = "branch" /\ T[n].c[1] # 0) -> ProcessDebugable(passed, n)
          [] kind = "builtin" /\ passed.op = "TargetSet" -> Copy(passed, Known.flags[n])
          [] OTHER -> passed

(* The traversal of a given depth.  Deeper calls end like an exit(1).      *)
TooDeep == [x \in Visits |-> Abort(x[1])]

OneDeeper(deeper) == [x \in Visits |-> Visit(deeper, x[1], x[2])]

(* No step nests more calls: nodes deep in each of as many functions.      *)
Room(functions, nodes) == functions * (Len(T) + 1) + nodes
Depth == Room(Len(T) + 3, 0)

Traversal[depth \in 0 .. Depth] ==
    IF depth = 0 THEN TooDeep ELSE OneDeeper(Traversal[depth - 1])

-----------------------------------------------------------------------------
(* The path: cleared before a step, built after it.                        *)
Markable(n) == T[n].k \notin {"struct", "switch", "symbol", "constant"}

(* The children that the clearing traversal visits.                        *)
InProgress(s, n) ==
    CASE T[n].k \in {"selection", "loop"} ->
           (IF T[n].k = "selection" THEN {T[n].c[1]} ELSE {})
           \cup {T[n].c[i] : i \in {j \in DOMAIN Works(n) : s.inner[n] = Works(n)[j]}}
      [] T[n].k = "switch" -> {}
      [] OTHER -> ToSet(T[n].c)

(* The false block is forgotten.                                           *)
Mut_Reached(s, n) ==
    \A m \in 1 .. n - 1 :
        Under(n, m) => s.inner[m] # "ELSE" /\ \E i \in InProgress(s, m) : Under(n, i)

Reached(s, n) ==
    \A m \in 1 .. n - 1 : Under(n, m) => \E i \in InProgress(s, m) : Under(n, i)

ClearPath(s) ==
    [s EXCEPT !.mark = [n \in DOMAIN T |->
        IF s.mark[n] = "Path" /\ Markable(n) /\ Reached(s, n) THEN "None" ELSE s.mark[n]]]

(* A path leads up from a marked node as far as every node takes a mark.   *)
OnPath(s, n) ==
    \E t \in n + 1 .. End(n) :
        /\ s.mark[t] # "None"
        /\ \A m \in n .. t - 1 : Under(t, m) => Markable(m)

BuildPath(s) ==
    [s EXCEPT !.mark = [n \in DOMAIN T |->
        IF s.mark[n] = "None" /\ OnPath(s, n) THEN "Path" ELSE s.mark[n]]]

-----------------------------------------------------------------------------
(* The scope stack: the scopes of the nodes on the way to the targets.     *)
(* Aggregates, selections and loops are entered only on the path; a        *)
(* selection or loop by the parts that it has come to.                     *)
Guarded(n) ==
    T[n].k \in {"sequence", "function", "call", "builtin", "struct", "selection", "loop"}

Descends(s, n) ==
    LET state   == s.inner[n]
        come    == CASE state \in {"CONDITION", "PASSED"} -> {1}
                     [] state = "IF"   -> {1, 2}
                     [] state = "ELSE" -> {1, 3}
                     [] state \in {"WRK_INIT", "QYR_TEST"} -> {1}
                     [] state \in {"WRK_TEST", "SELECT_FLOW", "QYR_TERMINAL"} -> {1, 2}
                     [] state = "WRK_BODY"     -> {1, 2, 4}
                     [] state = "WRK_TERMINAL" -> {1, 2, 3}
                     [] OTHER -> {}
    IN  CASE T[n].k \in {"selection", "loop"} -> {T[n].c[i] : i \in come}
          [] T[n].k = "switch" -> {Right(T, n)}
          [] OTHER -> ToSet(T[n].c)

ScopeStack(s, start) ==
    LET walk[n \in DOMAIN T] ==
          [w \in [passed : BOOLEAN, ids : SUBSET STRING] |->
              LET v   == IF T[n].k = "function" /\ s.mark[n] # "None"
                         THEN [w EXCEPT !.passed = FALSE] ELSE w
                  add == IF T[n].k = "switch" THEN v ELSE [v EXCEPT !.ids = @ \cup Known.scope[n]]
                  Child(x, i) == IF i \in Descends(s, n) \ {0} THEN walk[i][x] ELSE x
              IN  CASE v.passed -> v
                    [] ~v.passed /\ s.mark[n] = "Target" -> [add EXCEPT !.passed = TRUE]
                    [] ~v.passed /\ s.mark[n] = "None" /\ Guarded(n) -> v
                    [] OTHER -> FoldLeft(Child, add, T[n].c)]
    IN  walk[1][start]

-----------------------------------------------------------------------------
(* TTraverseDebugJump::process with any behaviour but RESET.               *)
Kept(s) == [mark |-> s.mark, inner |-> s.inner, iter |-> s.iter,
            stack |-> s.stack, fin |-> s.fin]

Begin(s) ==
    IF s.stack # <<>> THEN s ELSE [s EXCEPT !.op = "TargetSet", !.stack = <<Main>>]

(* buildScopeListFromPath.                                                 *)
Framed(s) ==
    [s EXCEPT !.res = [@ EXCEPT
        !.frames = ScopeStack(s, [passed |-> FALSE, ids |-> s.res.scope]).ids]]

Answer(s) ==
    CASE s.op = "Abort"    -> [s EXCEPT !.res = [@ EXCEPT !.status = "ABORT"]]
      [] s.op = "Finished" -> [s EXCEPT !.mark[1] = "Finished", !.res = [@ EXCEPT !.status = "FINISHED"]]
      [] OTHER -> [Framed(BuildPath(s)) EXCEPT !.res = [@ EXCEPT !.status = "OK"]]

Begun(jump, bh) ==
    [mark |-> jump.mark, inner |-> jump.inner, iter |-> jump.iter, stack |-> jump.stack,
     fin |-> jump.fin, op |-> "TargetUnset", bh |-> bh, res |-> NoResult]

Find(s) == Answer(Traverse(Traversal[Depth], s, Top(s)))

Process(jump, bh) ==
    CASE jump.mark[1] = "Finished" -> [Begun(jump, bh) EXCEPT !.res = [@ EXCEPT !.status = "FINISHED"]]
      [] jump.mark[1] # "Finished" /\ jump.stack = <<>> /\ Main = 0 ->
           [Begun(jump, bh) EXCEPT !.res = [@ EXCEPT !.status = "ERROR"]]
      [] OTHER -> Find(Begin(ClearPath(Begun(jump, bh))))
=============================================================================
