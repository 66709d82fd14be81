----------------------------- MODULE ShaderEffects -----------------------------
(***************************************************************************)
(* What stepping a shader means, without marks and notes in the tree: what *)
(* is still to be executed is an agenda, and a step executes its items     *)
(* until one of them is a stop.                                            *)
(*                                                                         *)
(* The parts of the shader that different fragments take are executed one  *)
(* after the other: the block that is stepped, then the other one.         *)
(***************************************************************************)
EXTENDS ShaderTree

VARIABLE shader

T == shader.tree

(* The items: a node to visit, a node to execute without a stop, a stop,   *)
(* and variables that are written.                                         *)
Item(do, n) == IF n = 0 THEN <<>> ELSE <<[do |-> do, n |-> n, phase |-> "", iter |-> 0, vars |-> {}]>>
Visit(n)  == Item("visit", n)
Pass(n)   == Item("pass", n)
StopAt(n, phase, k) == <<[do |-> "stop", n |-> n, phase |-> phase, iter |-> k, vars |-> {}]>>
Ran(S)    == IF S = {} THEN <<>> ELSE <<[do |-> "ran", n |-> 0, phase |-> "", iter |-> 0, vars |-> S]>>
Visits(c) == FoldLeft(LAMBDA a, i : a \o Visit(i), <<>>, c)
Passes(c) == FoldLeft(LAMBDA a, i : a \o Pass(i), <<>>, c)

-----------------------------------------------------------------------------
(* The variable that an assignable expression denotes.                     *)
RECURSIVE Base(_)
Base(n) == IF T[n].k = "index" THEN Base(T[n].c[1]) ELSE T[n].v

OutArgs(n) == UNION {Base(T[n].c[i]) : i \in T[n].o}
Callee(n)  == FunctionNamed(T, T[n].f)

(* What a node itself writes, its parts aside, and all that it writes.     *)
(* A call writes the parameters of the function, its variables, and the    *)
(* out arguments.                                                          *)
Own(n) ==
    CASE T[n].k \in {"assign", "incr"} -> Base(T[n].c[1])
      [] T[n].k = "builtin" -> T[n].v
      [] T[n].k = "call"    -> OutArgs(n) \cup T[Callee(n)].v
      [] OTHER -> {}

RECURSIVE Writes(_)
Writes(n) ==
    IF n = 0 THEN {}
    ELSE Own(n) \cup UNION {Writes(i) : i \in ToSet(T[n].c)}
                \cup (IF T[n].k = "call" THEN Writes(Callee(n)) ELSE {})

-----------------------------------------------------------------------------
(* After the body of loop n: the terminal, the test, or at once the choice *)
(* of whether to go on, in iteration k.                                    *)
Test(n, k) == StopAt(n, IF T[n].c[2] # 0 THEN "test" ELSE "choose", k)
Back(n, k) == IF T[n].c[3] # 0 THEN StopAt(n, "terminal", k) ELSE Test(n, k)

(* The items of a node that is reached.                                    *)
Expand(n) ==
    LET c    == T[n].c
        kind == T[n].k
    IN  CASE kind \in {"assign", "dummy"} -> StopAt(n, "statement", 0)
          [] kind = "call"      -> Visits(c) \o StopAt(n, "statement", 0)
          [] kind = "incr"      -> Visits(c) \o StopAt(n, "statement", 0)
          [] kind = "branch"    -> Visits(c) \o (IF c[1] # 0 THEN StopAt(n, "statement", 0) ELSE <<>>)
          [] kind = "selection" -> StopAt(n, "if", 0)
          [] kind = "switch"    -> Pass(n)
          [] kind = "loop" /\ T[n].f = "do" -> Visit(c[4]) \o Back(n, 0)
          [] kind = "loop" /\ T[n].f # "do" ->
               IF c[1] # 0 THEN StopAt(n, "init", 0) ELSE Test(n, 0)
          [] OTHER -> Visits(c) \o Ran(Own(n))

(* The items that take the place of a stop, by what the user asked for.    *)
Resume(item, bh) ==
    LET n    == item.n
        c    == T[n].c
        kind == T[n].k
        k    == item.iter
        turn == Passes(SubSeq(c, 2, 4))
    IN  CASE kind = "assign" /\ bh # "INTO" -> Pass(n)
          [] kind = "assign" /\ bh = "INTO" -> Visit(c[2]) \o Visit(c[1]) \o Ran(Own(n))
          [] kind = "incr"   -> Ran(Own(n))
          [] kind = "call" /\ bh # "INTO" -> Ran(Own(n)) \o Pass(Callee(n))
          [] kind = "call" /\ bh = "INTO" ->
               Ran(T[Callee(n)].v) \o Visits(T[Callee(n)].c) \o Ran(OutArgs(n))
          [] kind \in {"branch", "dummy"} -> <<>>
          [] item.phase = "if" /\ bh # "INTO" -> Pass(n)
          [] item.phase = "if" /\ bh = "INTO" -> Visit(c[1]) \o StopAt(n, "which", 0)
          [] item.phase = "which" ->
               (CASE bh = "OVER" -> Pass(c[2]) \o Pass(c[3])
                  [] bh = "ELSE" /\ c[3] # 0 -> Visit(c[3]) \o Pass(c[2])
                  [] OTHER -> Visit(c[2]) \o Pass(c[3]))
          [] item.phase \in {"init", "test"} /\ bh # "INTO" ->
               Passes(SubSeq(c, IF item.phase = "init" THEN 1 ELSE 2, 4))
          [] item.phase = "init" /\ bh = "INTO" -> Visit(c[1]) \o Test(n, 0)
          [] item.phase = "test" /\ bh = "INTO" -> Visit(c[2]) \o StopAt(n, "choose", k)
          [] item.phase = "choose" ->
               (CASE bh = "OVER" -> turn
                  [] bh = "NEXT" -> turn \o StopAt(n, "choose", k + 1)
                  [] OTHER -> Visit(c[4]) \o Back(n, k + 1))
          [] item.phase = "terminal" ->
               (IF bh = "INTO" THEN Visit(c[3]) ELSE Pass(c[3])) \o Test(n, k)

(* Execution up to the next stop, and what it wrote.                       *)
RECURSIVE Run(_, _)
Run(agenda, wrote) ==
    IF agenda = <<>> THEN [agenda |-> agenda, wrote |-> wrote]
    ELSE LET first == Head(agenda)
         IN  CASE first.do = "stop"  -> [agenda |-> agenda, wrote |-> wrote]
               [] first.do = "visit" -> Run(Expand(first.n) \o Tail(agenda), wrote)
               [] first.do = "pass"  -> Run(Tail(agenda), wrote \cup Writes(first.n))
               [] first.do = "ran"   -> Run(Tail(agenda), wrote \cup first.vars)

Begun == Visits(T[FunctionNamed(T, "main")].c)

After(agenda, bh) == Run(Resume(Head(agenda), bh) \o Tail(agenda), {})
=============================================================================
