------------------------------ MODULE JumpSession ------------------------------
(***************************************************************************)
(* ShDebugJumpToNext as its callers use it: a shader is stepped with any   *)
(* behaviour until the end of main, and may be reset at any stop.  What    *)
(* the user is offered of this is in ShaderStepping and ShaderReadBack.    *)
(***************************************************************************)
EXTENDS DebugJump, DbgResult

VARIABLE jump   \* the marks in the tree and the parse stack

jvars == <<shader, jump, res>>

JumpInit ==
    /\ shader \in Shaders
    /\ jump = Reset(FALSE) /\ res = NoResult

(* A step from the marks j.                                                *)
JumpToNext(j, bh) ==
    \E s \in {Process(j, bh)} :
        /\ jump' = Kept(s)
        /\ res' = s.res
        /\ UNCHANGED shader

(* Nobody steps on at the end of main.  A reset has no answer; the first   *)
(* step follows it.                                                        *)
Jump(bh)  == res.pos # "DUMMY" /\ JumpToNext(jump, bh)
JumpReset == JumpToNext(Reset(jump.fin), "INTO")

JumpNext == (\E bh \in Behaviours : Jump(bh)) \/ JumpReset

JumpSpec == JumpInit /\ [][JumpNext]_jvars

-----------------------------------------------------------------------------
(* Every step finds a statement to stop at: the traversal neither gives up *)
(* (exit(1) for a target where none may be, NULL blocks) nor loses the     *)
(* target, whatever the user chooses and resets.                           *)
AlwaysStops == res # NoResult => res.status = "OK" /\ res.pos # "UNSET"

(* Exactly the functions on the parse stack have a target, one each; that  *)
(* of a caller is the call of the function above it.                       *)
BodyOf(f) == {n \in DOMAIN T : n > f /\ \A m \in f + 1 .. n : T[m].k # "function"}
Targets(f) == {n \in BodyOf(f) : jump.mark[n] = "Target"}

OneTargetPerFrame ==
    LET frames == jump.stack
    IN  /\ \A f \in Functions(T) : f \notin ToSet(frames) => Targets(f) = {}
        /\ \A i \in DOMAIN frames :
             /\ Cardinality(Targets(frames[i])) = 1
             /\ i > 1 => \A n \in Targets(frames[i]) :
                           T[n].k = "call" /\ FunctionNamed(T, T[n].f) = frames[i - 1]

(* The marks on the tree lead to the targets and nowhere else, and nothing *)
(* is in progress beside them: a selection or loop that was left, entered  *)
(* over or reset starts afresh when it is reached again.                   *)
MarksLeadToTargets ==
    \A n \in DOMAIN T :
        LET below == \E i \in ToSet(T[n].c) \ {0} : jump.mark[i] # "None"
        IN  /\ jump.mark[n] = "Path" => below
            /\ below => jump.mark[n] \in {"Path", "Target"}
            /\ jump.inner[n] # "UNSET" \/ jump.iter[n] # 0 => jump.mark[n] # "None"
-----------------------------------------------------------------------------
(* The inductive invariant, on the marks without the path.  A node is      *)
(* quiet that nothing is known of; the nodes above n lead to it if n lies  *)
(* in the part that they are at work on.                                   *)
Quiet(s, m) == s.mark[m] = "None" /\ s.inner[m] = "UNSET" /\ s.iter[m] = 0

Leads(s, m, n) ==
    /\ s.mark[m] = "None" /\ T[m].k # "switch"
    /\ T[m].k # "loop" => s.iter[m] = 0
    /\ IF T[m].k \in {"selection", "loop"}
       THEN \E i \in DOMAIN Works(m) : s.inner[m] = Works(m)[i] /\ Under(n, T[m].c[i])
       ELSE s.inner[m] = "UNSET"

(* All that is going on in the function f leads to n.                      *)
Region(f) == f .. End(f)

At(s, f, n) ==
    /\ n \in Region(f)
    /\ \A m \in Region(f) \ {n} : IF Under(n, m) THEN Leads(s, m, n) ELSE Quiet(s, m)

(* The stop t of the function f.                                           *)
StopStates(t) ==
    CASE T[t].k = "selection" -> {"INIT", "PASSED"}
      [] T[t].k = "loop" -> {"QYR_INIT", "QYR_TEST", "SELECT_FLOW", "QYR_TERMINAL"}
      [] OTHER -> {"UNSET"}

StopsIn(s, f, t) ==
    /\ At(s, f, t) /\ t # f
    /\ s.mark[t] = "Target" /\ s.inner[t] \in StopStates(t)
    /\ T[t].k # "loop" => s.iter[t] = 0
    /\ T[t].k \in StopKinds /\ (T[t].k = "branch" => T[t].c[1] # 0)

(* The callers on the parse stack wait at their calls; all else is quiet.  *)
CallsTo(t, f) == T[t].k = "call" /\ FunctionNamed(T, T[t].f) = f

Stacked(s) ==
    /\ s.stack # <<>> /\ s.stack[Len(s.stack)] = Main
    /\ \A i \in 2 .. Len(s.stack) : \E t \in Region(s.stack[i]) :
           StopsIn(s, s.stack[i], t) /\ CallsTo(t, s.stack[i - 1])
    /\ \A m \in DOMAIN T :
           (\A i \in 1 .. Len(s.stack) : m \notin Region(s.stack[i])) => Quiet(s, m)

StopsAt(s, t) == Stacked(s) /\ StopsIn(s, Top(s), t)

(* Every answer is a stop, and the marks are those of the stop it names    *)
(* with the path to it.                                                    *)
Unmarked(j) ==
    [Begun(j, "INTO") EXCEPT !.mark =
        [n \in DOMAIN T |-> IF j.mark[n] = "Path" THEN "None" ELSE j.mark[n]]]

Answered(j, r) ==
    /\ r.status = "OK" /\ r.pos \in Positions \ {"UNSET"}
    /\ r.pos = "DUMMY" <=> T[r.at].k = "dummy"
    /\ StopsAt(Unmarked(j), r.at) /\ j.mark = BuildPath(Unmarked(j)).mark

Marked == [mark : Markings, inner : Progress, iter : LoopCounters, stack : Stacks, fin : BOOLEAN]

JumpInv ==
    /\ jump \in Marked
    /\ res = NoResult => jump = Reset(FALSE)
    /\ res # NoResult => Answered(jump, res)
=============================================================================
