------------------------------- MODULE ShaderExec -------------------------------
(***************************************************************************)
(* The execution of a shader for one fragment, as GLSL defines it.         *)
(*                                                                         *)
(* A program is a sequence of instructions.  The value of a variable is    *)
(* the number of times it was written (one more, so that 0 is no value):   *)
(* two points of an execution can be told apart if a write lies between    *)
(* them.  Conditions are not computed: a fragment is the set, for every    *)
(* condition, of those evaluations that give true.                         *)
(***************************************************************************)
EXTENDS Integers, SequencesExt

I(op, n)     == [op |-> op, n |-> n, vars |-> {}, what |-> "", when |-> {}, parts |-> <<>>]
Do(op, n)    == <<I(op, n)>>
Write(S)     == IF S = {} THEN <<>> ELSE <<[I("write", 0) EXCEPT !.vars = S]>>
Flow(kind)   == <<[I("flow", 0) EXCEPT !.what = kind]>>
Probe(S, what, when) == <<[I("probe", 0) EXCEPT !.vars = S, !.what = what, !.when = when]>>
Here(when)   == <<[I("here", 0) EXCEPT !.when = when]>>
Choice(test, yes, no)          == <<[I("if", 0) EXCEPT !.parts = <<test, yes, no>>]>>
Cycle(type, test, body, next)  == <<[I(type, 0) EXCEPT !.parts = <<test, body, next>>]>>
Subroutine(body)               == <<[I("call", 0) EXCEPT !.parts = <<body>>]>>

(* A loop counter nobody has set, and a result computed from one.          *)
NoTurn     == -1
Undefined == -1

(* val: the variables; seen: how often each condition was evaluated;       *)
(* truth: the last of them; cond: dbgCond; turn: the loop counters;        *)
(* result: dbgResult; out: the fragment's color; flow: how control goes on;*)
(* at: the states of the variables and the last condition at each Here.    *)
Started(variables, conditions) ==
    [val |-> [v \in variables |-> 1], seen |-> [n \in conditions |-> 0],
     truth |-> FALSE, cond |-> FALSE, turn |-> [n \in conditions |-> NoTurn],
     result |-> 0, out |-> 0, flow |-> "on", at |-> <<>>]

Matches(s, when) == \A w \in when : s.turn[w.loop] = w.turn

Assigned(s, i) ==
    CASE i.what = "value" -> s.val[CHOOSE v \in i.vars : TRUE]
      [] i.what = "cond"  -> IF s.cond THEN 1 ELSE 0
      [] i.what = "half"  -> 1
      [] i.what = "whole" -> 2

Simple(frag, i, s) ==
    CASE i.op = "write"  -> [s EXCEPT !.val = [v \in DOMAIN @ |-> @[v] + IF v \in i.vars THEN 1 ELSE 0]]
      [] i.op = "eval"   -> [s EXCEPT !.truth = s.seen[i.n] + 1 \in frag[i.n], !.seen[i.n] = @ + 1]
      [] i.op = "always" -> [s EXCEPT !.truth = TRUE]
      [] i.op = "save"   -> [s EXCEPT !.cond = s.truth]
      [] i.op = "load"   -> [s EXCEPT !.truth = s.cond]
      [] i.op = "zero"   -> [s EXCEPT !.turn[i.n] = 0]
      [] i.op = "count"  -> [s EXCEPT !.turn[i.n] = @ + 1]
      [] i.op = "flow"   -> [s EXCEPT !.flow = i.what]
      [] i.op = "clear"  -> [s EXCEPT !.result = 0]
      [] i.op = "output" -> [s EXCEPT !.out = s.result]
      [] i.op = "here"   ->
           IF Matches(s, i.when) THEN [s EXCEPT !.at = Append(@, [val |-> s.val, truth |-> s.truth])]
           ELSE s
      [] i.op = "probe"  ->
           CASE \E w \in i.when : s.turn[w.loop] = NoTurn -> [s EXCEPT !.result = Undefined]
             [] OTHER -> IF Matches(s, i.when) THEN [s EXCEPT !.result = Assigned(s, i)] ELSE s

(* Control that leaves a construct of the given kind goes on behind it.    *)
Caught(s, kind) == IF s.flow = kind THEN [s EXCEPT !.flow = "on"] ELSE s

RECURSIVE Exec(_, _, _), Test(_, _, _), Turn(_, _, _)

(* A loop from its test on, and from its body on.                          *)
Test(frag, i, s) ==
    LET t == Exec(frag, i.parts[1], s)
    IN  IF t.flow # "on" \/ ~t.truth THEN t ELSE Turn(frag, i, t)

Turn(frag, i, s) ==
    LET b == Caught(Exec(frag, i.parts[2], s), "continue")
        c == Exec(frag, i.parts[3], b)
    IN  IF c.flow # "on" THEN c ELSE Test(frag, i, c)

Execute(frag, i, s) ==
    CASE i.op = "call" -> Caught(Exec(frag, i.parts[1], s), "return")
      [] i.op = "test first" -> Caught(Test(frag, i, s), "break")
      [] i.op = "body first" -> Caught(Turn(frag, i, s), "break")
      [] i.op = "if" ->
           LET t == Exec(frag, i.parts[1], s)
           IN  IF t.flow # "on" THEN t ELSE Exec(frag, i.parts[IF t.truth THEN 2 ELSE 3], t)
      [] OTHER -> Simple(frag, i, s)

Exec(frag, code, s) ==
    IF code = <<>> \/ s.flow # "on" THEN s
    ELSE Exec(frag, Tail(code), Execute(frag, Head(code), s))
=============================================================================
