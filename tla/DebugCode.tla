-------------------------------- MODULE DebugCode --------------------------------
(***************************************************************************)
(* TGenericCompiler::compileDbg: the shader that the debugger runs in      *)
(* place of the application's to learn something about the statement at    *)
(* which it stopped (CodeGen.cpp, CodeInsertion.cpp, CodeTools.cpp).       *)
(*                                                                         *)
(* The first pass collects the nodes on the way to that statement from the *)
(* marks in the tree; the second one writes the shader anew and inserts    *)
(* an assignment to dbgResult, the probe, at one of these nodes.  A        *)
(* function on the way is written twice, and only the call on the way      *)
(* calls the copy with the probe.                                          *)
(*                                                                         *)
(* Written shaders are instructions of ShaderExec, functions replaced by   *)
(* their bodies.  The language is that of fragment shaders; a function is  *)
(* defined before it is called.                                            *)
(***************************************************************************)
EXTENDS DebugJump, ShaderExec

(* What is asked of a shader: who covers the statement, the value of a     *)
(* variable, or how a condition came out.                                  *)
Options == {"COVERAGE", "CHANGEABLE", "SELECTION_CONDITIONAL", "LOOP_CONDITIONAL"}

-----------------------------------------------------------------------------
(* The first pass: the debug stack.  0 stands for exit(1).                 *)
Aggregate(n) == T[n].k \in {"sequence", "function", "builtin", "struct", "declaration"}

RECURSIVE Stack(_, _)
Stack(j, n) ==
    IF n = 0 \/ j.mark[n] = "None" THEN <<>>
    ELSE
    LET c      == T[n].c
        kind   == T[n].k
        state  == j.inner[n]
        target == j.mark[n] = "Target"
        children  == FoldLeft(LAMBDA a, i : a \o Stack(j, i), <<>>, c)
        part   == CASE state \in {"CONDITION", "WRK_INIT"} -> {1}
                    [] state \in {"IF", "WRK_TEST"} -> {2}
                    [] state \in {"ELSE", "WRK_TERMINAL"} -> {3}
                    [] state = "WRK_BODY" -> {4}
                    [] OTHER -> {}
        stops  == {"INIT", "PASSED", "QYR_INIT", "QYR_TEST", "SELECT_FLOW", "QYR_TERMINAL"}
    IN  CASE kind = "call" -> <<n>> \o (IF target THEN Stack(j, FunctionNamed(T, T[n].f)) ELSE children)
          [] kind \in {"selection", "loop"} /\ target -> IF state \in stops THEN <<n>> ELSE <<0>>
          [] kind \in {"selection", "loop"} /\ ~target ->
               IF part = {} THEN <<0>> ELSE <<n>> \o Stack(j, c[CHOOSE i \in part : TRUE])
          [] Aggregate(n) -> IF target THEN <<0>> ELSE children
          [] kind \in {"incr", "unary"} /\ ~target -> children
          [] target -> <<n>>
          [] OTHER  -> <<n>> \o children

DebugStack(j) == Stack(j, Main)

Calls(nodes) == {n \in nodes : n # 0 /\ T[n].k = "call"}
Callees(calls) == {FunctionNamed(T, T[n].f) : n \in calls}

(* Where to read variable v: at the last node of the stack in whose scope  *)
(* it is; 0 if there is none.                                              *)
ReadAt(stack, v) ==
    LET known == {i \in DOMAIN stack : v \in Known.scope[stack[i]]}
    IN  IF known = {} THEN 0 ELSE Max(known)

(* The plan of the second pass.  original: the calls, and the functions,   *)
(* at and behind the target (DbgOwOriginalCode).                           *)
Plan(j, stack, option, v) ==
    LET at == IF option = "CHANGEABLE" THEN ReadAt(stack, v) ELSE Len(stack)
        behind == IF option = "CHANGEABLE" THEN Calls({stack[i] : i \in at .. Len(stack)}) ELSE {}
        before == Calls({stack[i] : i \in 1 .. at - 1})
    IN  [j |-> j, option |-> option, stack |-> stack, v |-> v,
         target   |-> IF at = 0 THEN 0 ELSE stack[at],
         original |-> behind \cup (Callees(behind) \ Callees(before))]

-----------------------------------------------------------------------------
(* CodeInsertion: the loops of the stack that have a counter, and the      *)
(* probe, which looks at all of their counters.                            *)
NeedDbgLoopIter(j, n) == j.inner[n] \notin {"UNSET", "QYR_INIT", "WRK_INIT"}

Mut_Counters(g) == {}   \* the probe answers in every turn

Counters(g) ==
    {[loop |-> n, turn |-> g.j.iter[n]] :
        n \in {m \in ToSet(g.stack) : T[m].k = "loop" /\ NeedDbgLoopIter(g.j, m)}}

DbgCode(g) ==
    CASE g.option = "COVERAGE"         -> Probe({}, "whole", Counters(g))
      [] g.option = "CHANGEABLE"       -> Probe({g.v}, "value", Counters(g))
      [] g.option = "LOOP_CONDITIONAL" -> Probe({}, "cond", Counters(g))

BranchCode(g, taken) == Probe({}, IF taken THEN "whole" ELSE "half", Counters(g))

(* main clears dbgResult first, and where it ends gives it out.            *)
AddInitialization == Do("clear", 0)
AddOutput         == Do("output", 0)

(* A node is the target in the code that is not a copy of the original.    *)
IsTarget(g, n) == g.target = n /\ g.option # "ORIGINAL"
ProbeAt(g, n)  == IF IsTarget(g, n) THEN DbgCode(g) ELSE <<>>

-----------------------------------------------------------------------------
(* The second pass.                                                        *)
RECURSIVE Output(_, _)
OutputAll(g, c) == FoldLeft(LAMBDA a, i : a \o Output(g, i), <<>>, c)

RECURSIVE Variable(_)
Variable(n) == IF T[n].k = "index" THEN Variable(Left(T, n)) ELSE T[n].v

(* A unary operator does not pass on the side effects of its operand.      *)
RECURSIVE HasSideEffects(_)
HasSideEffects(n) ==
    n # 0 /\ (\/ T[n].k \in {"assign", "incr", "call", "builtin", "branch"}
              \/ T[n].k # "unary" /\ \E i \in ToSet(T[n].c) : HasSideEffects(i))

(* A function is written twice if it is on the way to the probe.  The copy *)
(* with the probe has a name of its own; a call by the old name gets the   *)
(* other one, if there is another one.                                     *)
Mut_Doubled(g, f) == FALSE   \* every call calls the function with the probe
Doubled(g, f) == g.option # "ORIGINAL" /\ g.j.mark[f] = "Path" /\ f \notin g.original

Body(g, n, debug) ==
    LET f == FunctionNamed(T, T[n].f)
        h == IF Doubled(g, f) /\ ~debug THEN [g EXCEPT !.option = "ORIGINAL"] ELSE g
    IN  Write(T[f].v) \o Subroutine(OutputAll(h, T[f].c))
        \o Write(UNION {Variable(T[n].c[i]) : i \in T[n].o})

(* The target is a call: the probe goes into its last in argument, behind  *)
(* it if it has side effects, else before it; without such an argument,    *)
(* before the call.                                                        *)
DebugParameters(n) == DOMAIN T[n].c \ T[n].o

ArgumentsWithProbe(g, n) ==
    LET c    == T[n].c
        last == Max(DebugParameters(n))
        argument == IF HasSideEffects(c[last]) THEN Output(g, c[last]) \o DbgCode(g)
                    ELSE DbgCode(g) \o Output(g, c[last])
    IN  IF DebugParameters(n) = {} THEN DbgCode(g) \o OutputAll(g, c)
        ELSE OutputAll(g, SubSeq(c, 1, last - 1)) \o argument
             \o OutputAll(g, SubSeq(c, last + 1, Len(c)))

OutputCall(g, n) ==
    IF IsTarget(g, n) THEN ArgumentsWithProbe(g, n) \o Body(g, n, FALSE)
    ELSE OutputAll(g, T[n].c)
         \o Body(g, n, g.j.mark[n] = "Target" /\ n \notin g.original)

(* The probe looks before the condition is saved; or the condition is      *)
(* written out again instead of its copy.                                  *)
Mut_EarlyProbe(g, test) == test \o DbgCode(g) \o Do("save", 0) \o Do("load", 0)
Mut_TestedTwice(g, test) == test \o Do("save", 0) \o DbgCode(g) \o test

(* A condition is saved in dbgCond and the probe looks at it.              *)
Copied(g, test) == test \o Do("save", 0) \o DbgCode(g) \o Do("load", 0)
Condition(g, n, c) == Output(g, c) \o Do("eval", n)

OutputSelection(g, n) ==
    LET c      == T[n].c
        state  == g.j.inner[n]
        reads  == IsTarget(g, n) /\ g.option \in {"COVERAGE", "CHANGEABLE"}
        colors == IsTarget(g, n) /\ g.option = "SELECTION_CONDITIONAL" /\ state = "PASSED"
        test   == Condition(g, n, c[1])
        Block(i) == IF c[i] = 0 THEN <<>>
                    ELSE (IF colors THEN BranchCode(g, i = 2) ELSE <<>>) \o Output(g, c[i])
    IN  (IF reads /\ state \in {"INIT", "CONDITION"} THEN DbgCode(g) ELSE <<>>)
        \o Choice(IF reads /\ state \in {"PASSED", "IF", "ELSE"} THEN Copied(g, test) ELSE test,
                  Block(2), Block(3))

(* The test of a loop, in the state of the target.                         *)
LoopTest(g, n) ==
    LET c     == T[n].c
        test  == IF c[2] = 0 THEN Do("always", 0) ELSE Condition(g, n, c[2])
        state == IF IsTarget(g, n) THEN g.j.inner[n] ELSE "UNSET"
    IN  CASE state = "QYR_TEST"    -> DbgCode(g) \o test
          [] state = "SELECT_FLOW" -> Copied(g, test)
          [] OTHER -> test

(* A loop on the way counts its turns: a for loop behind its terminal, the *)
(* others at the end of their bodies.                                      *)
OutputLoop(g, n) ==
    LET c     == T[n].c
        type  == T[n].f
        state == IF IsTarget(g, n) THEN g.j.inner[n] ELSE "UNSET"
        counts == g.option # "ORIGINAL" /\ NeedDbgLoopIter(g.j, n)
        Counter(op) == IF counts THEN Do(op, n) ELSE <<>>
        start == IF state = "QYR_INIT" /\ g.option \in {"COVERAGE", "CHANGEABLE"}
                 THEN DbgCode(g) ELSE <<>>
        \* a for loop in progress with its initialization writes it only on the way
        init  == IF state = "WRK_INIT" THEN <<>> ELSE Output(g, c[1])
        next  == (IF state = "QYR_TERMINAL" THEN DbgCode(g) ELSE <<>>) \o Output(g, c[3])
        body  == Output(g, c[4])
    IN  Counter("zero") \o
        (CASE type = "for"   -> start \o init \o
                                Cycle("test first", LoopTest(g, n), body, next \o Counter("count"))
           [] type = "while" -> Cycle("test first", LoopTest(g, n), body \o Counter("count"), <<>>)
           [] type = "do"    -> Cycle("body first", LoopTest(g, n), body \o Counter("count"), <<>>))

(* dbgTargetProcessed: the target was written before this discard.  That   *)
(* of a do loop is written behind its body.                                *)
TargetProcessed(g, n) ==
    /\ g.target # 0 /\ g.target < n
    /\ ~(T[g.target].k = "loop" /\ T[g.target].f = "do" /\ n <= End(g.target))

IsPartOfMain(n) == n \in Main .. End(Main)

(* A discard behind the target is not written, lest the result be lost.    *)
OutputBranch(g, n) ==
    LET kind == T[n].f
        answer == IF g.option # "ORIGINAL" /\ IsPartOfMain(n) THEN AddOutput ELSE <<>>
    IN  CASE kind = "discard" ->
               IF TargetProcessed(g, n) /\ g.option # "ORIGINAL" THEN <<>> ELSE Flow("discard")
          [] kind = "return" -> Output(g, T[n].c[1]) \o ProbeAt(g, n) \o answer \o Flow("return")
          [] OTHER -> Flow(kind)

(* The initial value of a declaration is an assignment only on the way.    *)
OutputDeclaration(g, n) ==
    LET e == T[n].c[1]
    IN  IF e = 0 THEN <<>>
        ELSE (IF g.j.mark[n] = "Path" THEN ProbeAt(g, e) ELSE <<>>)
             \o Output(g, Right(T, e)) \o Write(T[n].v)

Output(g, n) ==
    IF n = 0 THEN <<>>
    ELSE LET kind == T[n].k
             all  == OutputAll(g, T[n].c)
         IN  CASE kind = "call"        -> OutputCall(g, n)
               [] kind = "selection"   -> OutputSelection(g, n)
               [] kind = "loop"        -> OutputLoop(g, n)
               [] kind = "branch"      -> OutputBranch(g, n)
               [] kind = "declaration" -> OutputDeclaration(g, n)
               [] kind \in {"assign", "incr"} ->
                    ProbeAt(g, n) \o all \o Write(Variable(Left(T, n)))
               [] kind = "builtin"     -> all \o Write(T[n].v)
               [] OTHER                -> ProbeAt(g, n) \o all

(* The shader for the user's question.                                     *)
CompileDbg(j, option, v) ==
    AddInitialization \o OutputAll(Plan(j, DebugStack(j), option, v), T[Main].c) \o AddOutput

(* There is none without a place for the probe, nor if a pass gave up.     *)
Generated(j, option, v) ==
    LET stack == DebugStack(j)
    IN  stack # <<>> /\ 0 \notin ToSet(stack) /\ Plan(j, stack, option, v).target # 0
=============================================================================
