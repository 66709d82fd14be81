-------------------------- MODULE JumpSession_proofs --------------------------
(***************************************************************************)
(* Proofs about stepping a shader: whatever the shader, every step of      *)
(* ShDebugJumpToNext finds a statement to stop at, and leaves the marks    *)
(* that the next step relies on.                                           *)
(*                                                                         *)
(* A traversal of a given depth keeps a contract (Contract), which says    *)
(* how the visit of a node comes out if the depth is enough for it (Fits). *)
(* One lemma per kind of node shows that its visit keeps the contract if   *)
(* the visits of its parts do; the induction over the depth is DeepEnough. *)
(* Depth is enough, because the parse stack holds no function twice.       *)
(***************************************************************************)
EXTENDS JumpSession, WellFoundedInduction, SequenceTheorems, FiniteSetTheorems, TLAPS

-----------------------------------------------------------------------------
(* Induction over the naturals, as sets: the induction theorems of the     *)
(* library take operators.                                                 *)

(* Every set of naturals that is not empty has a least element.            *)
LEMMA LeastNat ==
  ASSUME NEW S \in SUBSET Nat, S # {}
  PROVE  \E x \in S : \A y \in S : x <= y
<1> DEFINE R == OpToRel(<, Nat)
<1>1. IsWellFoundedOn(R, Nat)
  BY NatLessThanWellFounded
<1>2. PICK x \in S : \A y \in S : <<y, x>> \notin R
  <2> HIDE DEF R
  <2> QED BY <1>1, WFMin, Zenon
<1>3. \A y \in S : ~(y < x)
  BY <1>2 DEF OpToRel
<1>4. \A y \in S : x <= y
  <2> HIDE DEF R
  <2> TAKE y \in S
  <2> x \in Nat /\ y \in Nat
    BY <1>2
  <2> QED BY <1>3
<1> HIDE DEF R
<1> QED BY <1>4, <1>2

(* A set of naturals that holds 0 and every successor is that of all of    *)
(* them.                                                                   *)
LEMMA SetInduction ==
  ASSUME NEW S \in SUBSET Nat, 0 \in S, \A n \in S : n + 1 \in S
  PROVE  S = Nat
<1> SUFFICES ASSUME Nat \ S # {} PROVE FALSE
  OBVIOUS
<1>1. PICK x \in Nat \ S : \A y \in Nat \ S : x <= y
  BY LeastNat
<1>2. x # 0 /\ x - 1 \in Nat /\ x - 1 \notin Nat \ S
  BY <1>1
<1> QED BY <1>1, <1>2

-----------------------------------------------------------------------------
(* The tree.                                                               *)

(* The shader that is stepped is one that was compiled and linked.         *)
LEMMA Formed ==
    ASSUME shader \in Shaders
    PROVE  /\ NodeTypes(T) /\ NoteTypes(shader) /\ Subtrees(T, Known.end)
           /\ Shaped(T, Known.end) /\ Callable(T, Known.end) /\ EndsWithDummy(T)
BY ShadersAssumption DEF WellFormed, T, Known

(* The nodes are numbered from 1; each has its kind, its children and the  *)
(* last node of its subtree.                                               *)
LEMMA Nodes ==
    ASSUME shader \in Shaders
    PROVE  /\ Len(T) \in Nat /\ DOMAIN T = 1 .. Len(T) /\ 1 \in DOMAIN T
           /\ \A n \in DOMAIN T : /\ T[n].k \in STRING /\ T[n].c \in Seq(Nat)
                                  /\ T[n].f \in STRING
                                  /\ End(n) \in DOMAIN T
                                  /\ n \in Nat /\ End(n) \in Nat
<1>1. T \in Seq([k : STRING, c : Seq(Nat), f : STRING,
               v : SUBSET STRING, p : SUBSET STRING, o : SUBSET Nat]) /\ T # <<>>
  BY Formed DEF NodeTypes
<1>2. \A n \in DOMAIN T : T[n] \in [k : STRING, c : Seq(Nat), f : STRING,
               v : SUBSET STRING, p : SUBSET STRING, o : SUBSET Nat]
  <2> DEFINE R == [k : STRING, c : Seq(Nat), f : STRING,
                   v : SUBSET STRING, p : SUBSET STRING, o : SUBSET Nat]
  <2> HIDE DEF R
  <2>1. T \in Seq(R)
    BY <1>1 DEF R
  <2>2. \A n \in DOMAIN T : T[n] \in R
    BY <2>1
  <2> QED BY <2>2 DEF R
<1>3. Known.end \in [DOMAIN T -> DOMAIN T]
  BY Formed DEF NoteTypes, T, Known
<1> QED BY <1>1, <1>2, <1>3 DEF End

(* The subtrees of the nodes in a subtree end within it.                   *)
LEMMA Nested ==
    ASSUME shader \in Shaders, NEW n \in DOMAIN T
    PROVE  n <= End(n) /\ \A m \in n .. End(n) : m \in DOMAIN T /\ End(m) <= End(n)
BY Formed, Nodes DEF Subtrees, End

(* The subtree of a child lies within that of its parent, behind the       *)
(* parent.                                                                 *)
LEMMA Children ==
    ASSUME shader \in Shaders, NEW n \in DOMAIN T, NEW i \in DOMAIN T[n].c, T[n].c[i] # 0
    PROVE  /\ T[n].c[i] \in DOMAIN T /\ n < T[n].c[i] /\ T[n].c[i] <= End(n)
           /\ End(T[n].c[i]) <= End(n)
<1>1. T[n].c[i] \in n + 1 .. End(n)
  BY Formed DEF Subtrees, End
<1> QED BY <1>1, Nodes, Nested

(* A node lies in one child at most.                                       *)
LEMMA OneChild ==
    ASSUME shader \in Shaders, NEW n \in DOMAIN T, NEW m \in DOMAIN T,
           NEW i \in DOMAIN T[n].c, NEW j \in DOMAIN T[n].c,
           Under(m, T[n].c[i]), Under(m, T[n].c[j])
    PROVE  i = j
<1> DEFINE c == T[n].c
<1>1. \A x, y \in DOMAIN c : x < y /\ c[x] # 0 /\ c[y] # 0 => End(c[x]) < c[y]
  BY Formed DEF Subtrees, End
<1>2. c \in Seq(Nat) /\ i \in Nat /\ j \in Nat
  BY Nodes
<1>3. c[i] \in DOMAIN T /\ c[j] \in DOMAIN T /\ c[i] # 0 /\ c[j] # 0
  BY Children DEF Under
<1>4. i \in DOMAIN c /\ j \in DOMAIN c
  OBVIOUS
<1>5. ~(i < j) /\ ~(j < i)
  <2> c[i] \in Nat /\ c[j] \in Nat /\ End(c[i]) \in Nat /\ End(c[j]) \in Nat /\ m \in Nat
    BY <1>3, Nodes
  <2> c[i] <= m /\ m <= End(c[i]) /\ c[j] <= m /\ m <= End(c[j])
    BY DEF Under
  <2> QED BY <1>1, <1>3, <1>4
<1> QED BY <1>2, <1>5

(* A node below n lies in a child of n.                                    *)
LEMMA SomeChild ==
    ASSUME shader \in Shaders, NEW n \in DOMAIN T, NEW m \in DOMAIN T, m # n, Under(m, n)
    PROVE  \E i \in DOMAIN T[n].c : Under(m, T[n].c[i])
<1>1. m \in n + 1 .. End(n)
  BY Nodes DEF Under
<1>2. PICK i \in DOMAIN T[n].c : T[n].c[i] # 0 /\ m \in T[n].c[i] .. End(T[n].c[i])
  BY <1>1, Formed DEF Subtrees, End
<1> QED BY <1>2, Children, Nodes DEF Under

(* The nodes above a child are those above its parent, and the parent.     *)
LEMMA AboveChild ==
    ASSUME shader \in Shaders, NEW n \in DOMAIN T, NEW i \in DOMAIN T[n].c, T[n].c[i] # 0,
           NEW m \in DOMAIN T, m # n, m # T[n].c[i]
    PROVE  Under(T[n].c[i], m) <=> Under(n, m)
<1> DEFINE x == T[n].c[i]
<1>0. x \in DOMAIN T /\ n < x /\ x <= End(n) /\ End(x) <= End(n) /\ x <= End(x)
  BY Children, Nested
<1> n \in Nat /\ End(n) \in Nat /\ m \in Nat /\ End(m) \in Nat /\ x \in Nat /\ End(x) \in Nat
  BY <1>0, Nodes
<1>1. ASSUME Under(n, m) PROVE Under(x, m)
  <2>1. m # 0 /\ m <= n /\ n <= End(m)
    BY <1>1 DEF Under
  <2>2. End(n) <= End(m)
    BY <2>1, Nested
  <2> QED BY <1>0, <2>1, <2>2 DEF Under
<1>2. ASSUME Under(x, m), ~Under(n, m) PROVE FALSE
  <2>1. n < m /\ m < x /\ x <= End(m)
    BY <1>0, <1>2 DEF Under
  <2>a. Under(m, n)
    BY <2>1, <1>0, Nodes DEF Under
  <2>2. PICK j \in DOMAIN T[n].c : Under(m, T[n].c[j])
    BY <2>a, SomeChild
  <2>b. T[n].c[j] # 0 /\ T[n].c[j] <= m /\ m <= End(T[n].c[j])
    BY <2>2 DEF Under
  <2>c. T[n].c[j] \in DOMAIN T
    BY <2>b, Children
  <2>d. T[n].c[j] \in Nat /\ End(T[n].c[j]) \in Nat
    BY <2>c, Nodes
  <2>3. T[n].c[j] \in DOMAIN T /\ End(m) <= End(T[n].c[j])
    <3>1. m \in T[n].c[j] .. End(T[n].c[j])
      BY <2>b, <2>d
    <3> QED BY <2>c, <3>1, Nested
  <2>4. Under(x, T[n].c[j]) /\ Under(x, x)
    <3> T[n].c[j] \in Nat /\ End(T[n].c[j]) \in Nat
      BY <2>3, Nodes
    <3> HIDE DEF x
    <3> QED BY <1>0, <2>1, <2>2, <2>3 DEF Under
  <2>5. i = j
    BY <2>4, OneChild, <1>0
  <2> QED BY <2>1, <2>2, <2>5, Nodes DEF Under
<1> QED BY <1>1, <1>2

(* A node and its child lie in the same part of a node above them.         *)
LEMMA SamePart ==
    ASSUME shader \in Shaders, NEW n \in DOMAIN T, NEW i \in DOMAIN T[n].c, T[n].c[i] # 0,
           NEW m \in DOMAIN T, m # n, Under(n, m), NEW j \in DOMAIN T[m].c
    PROVE  Under(T[n].c[i], T[m].c[j]) <=> Under(n, T[m].c[j])
<1> DEFINE x == T[n].c[i]
<1>0. x \in DOMAIN T /\ n < x /\ x <= End(n)
  BY Children, Nested
<1> n \in Nat /\ End(n) \in Nat /\ m \in Nat /\ End(m) \in Nat /\ x \in Nat /\ End(x) \in Nat
  BY <1>0, Nodes
<1>1. ASSUME NEW k \in DOMAIN T[m].c, Under(n, T[m].c[k]) PROVE Under(x, T[m].c[k])
  <2>1. T[m].c[k] \in DOMAIN T
    BY <1>1, Children DEF Under
  <2>2. End(n) <= End(T[m].c[k])
    BY <1>1, <2>1, Nested, Nodes DEF Under
  <2> HIDE DEF x
  <2> T[m].c[k] \in Nat /\ End(T[m].c[k]) \in Nat
    BY <2>1, Nodes
  <2> QED BY <1>0, <1>1, <2>2 DEF Under
<1>2. PICK k \in DOMAIN T[m].c : Under(n, T[m].c[k])
  BY SomeChild
<1>3. ASSUME Under(x, T[m].c[j]) PROVE j = k
  BY <1>0, <1>1, <1>2, <1>3, OneChild
<1> QED BY <1>1, <1>2, <1>3

-----------------------------------------------------------------------------
(* The functions.                                                          *)

(* No node lies in two functions.                                          *)
LEMMA Separate ==
    ASSUME shader \in Shaders, NEW f \in Functions(T), NEW g \in Functions(T), f # g,
           NEW n \in DOMAIN T, n \in Region(f)
    PROVE  n \notin Region(g)
<1>1. \A x \in Functions(T), m \in DOMAIN T :
           m < x /\ x <= End(m) => m = 1 /\ T[m].k = "sequence"
  BY Formed DEF Callable, End
<1>2. f \in DOMAIN T /\ g \in DOMAIN T /\ T[f].k = "function" /\ T[g].k = "function"
  BY DEF Functions
<1>3. ~(f < g /\ g <= End(f)) /\ ~(g < f /\ f <= End(g))
  BY <1>1, <1>2
<1> QED BY <1>2, <1>3, Nodes DEF Region

(* No function is defined within a function.                               *)
LEMMA NoneInside ==
    ASSUME shader \in Shaders, NEW f \in Functions(T), NEW n \in Region(f)
    PROVE  n \in DOMAIN T /\ (n # f => T[n].k # "function")
<1>1. f \in DOMAIN T /\ f <= End(f)
  BY Nested DEF Functions
<1>2. n \in DOMAIN T
  BY <1>1, Nested DEF Region
<1>3. ASSUME n \in Functions(T), n # f PROVE FALSE
  <2>1. n \in Region(n)
    BY <1>2, Nested, Nodes DEF Region
  <2> QED BY <2>1, <1>2, <1>3, Separate
<1> QED BY <1>2, <1>3 DEF Functions

(* What a call finds by its name is a function.                            *)
LEMMA Named ==
    ASSUME shader \in Shaders, NEW name, FunctionNamed(T, name) # 0
    PROVE  FunctionNamed(T, name) \in Functions(T)
<1> DEFINE found == {n \in {1} \cup ToSet(T[1].c) :
                       n # 0 /\ T[n].k = "function" /\ T[n].f = name}
<1>1. found \in SUBSET DOMAIN T
  <2>1. ASSUME NEW n \in ToSet(T[1].c), n # 0 PROVE n \in DOMAIN T
    <3>1. PICK i \in DOMAIN T[1].c : n = T[1].c[i]
      BY Nodes DEF ToSet
    <3> QED BY <3>1, <2>1, Children, Nodes
  <2> QED BY <2>1, Nodes
<1>2. FunctionNamed(T, name) = IF found = {} THEN 0 ELSE Min(found)
  BY DEF FunctionNamed
<1>3. found # {}
  BY <1>2
<1>4. found \in SUBSET Nat
  BY <1>1, Nodes
<1>5. Min(found) \in found
  <2> HIDE DEF found
  <2> \E x \in found : \A y \in found : x <= y
    BY <1>3, <1>4, LeastNat
  <2> QED BY DEF Min
<1> QED BY <1>1, <1>2, <1>3, <1>5 DEF Functions

-----------------------------------------------------------------------------
(* What the steps of a traversal make of its state.                        *)

(* What DebugVar notes at a node are sets of variables and flags.          *)
LEMMA Noted ==
    ASSUME shader \in Shaders
    PROVE  \A n \in DOMAIN T :
             /\ Known.cgb[n] \in SUBSET STRING /\ Known.left[n] \in SUBSET STRING
             /\ Known.param[n] \in SUBSET STRING /\ Known.flags[n] \in SUBSET STRING
             /\ Known.scope[n] \in SUBSET STRING
BY Formed DEF NoteTypes, T, Known

(* The fields of a state of the traverser.                                 *)
LEMMA Fields ==
    ASSUME NEW s \in States
    PROVE  /\ s.mark \in Markings /\ s.inner \in Progress /\ s.iter \in LoopCounters
           /\ s.stack \in Stacks /\ s.fin \in BOOLEAN /\ s.op \in Operations
           /\ s.bh \in Behaviours \cup {"NONE"} /\ s.res \in Results
           /\ s.res.pos \in Positions
BY DEF States, Results

(* r differs from s in the lists of the result only.                       *)
Same(r, s) ==
    /\ r \in States /\ r.mark = s.mark /\ r.inner = s.inner /\ r.iter = s.iter
    /\ r.stack = s.stack /\ r.op = s.op /\ r.bh = s.bh
    /\ r.res.pos = s.res.pos /\ r.res.at = s.res.at

(* Copying changeables (copyShChangeableList) changes nothing else.        *)
LEMMA Copied ==
    ASSUME NEW s \in States, NEW S \in SUBSET STRING
    PROVE  Same(Copy(s, S), s)
<1> DEFINE ans == [s.res EXCEPT !.changed = @ \cup S]
<1>1. ans \in Results /\ ans.pos = s.res.pos /\ ans.at = s.res.at
  <2> s.res \in Results
    BY Fields
  <2> s.res.changed \cup S \in SUBSET STRING
    BY DEF Results
  <2> QED BY DEF Results
<1>2. Copy(s, S) = [s EXCEPT !.res = ans]
  BY DEF Copy
<1> HIDE DEF ans
<1> QED BY <1>1, <1>2 DEF Same, States

(* So does passing nodes.                                                  *)
LEMMA PassedAll ==
    ASSUME shader \in Shaders, NEW s \in States, NEW nodes,
           ToSet(nodes) \subseteq {0} \cup DOMAIN T
    PROVE  Same(PassAll(s, nodes), s)
<1> DEFINE S == UNION {Known.cgb[n] \cup Known.flags[n] : n \in ToSet(nodes) \ {0}}
<1>1. S \in SUBSET STRING
  BY Noted
<1> HIDE DEF S
<1> QED BY <1>1, Copied DEF PassAll, S

(* And passing a single one.                                               *)
LEMMA Passed ==
    ASSUME shader \in Shaders, NEW s \in States, NEW n \in {0} \cup DOMAIN T
    PROVE  Same(Pass(s, n), s)
<1> ToSet(<<n>>) = {n}
  BY DEF ToSet
<1> QED BY PassedAll DEF Pass

(* What taking the mark of the target does.                                *)
LEMMA Stopped ==
    ASSUME shader \in Shaders, NEW s \in States, NEW n \in DOMAIN T, NEW pos \in Positions
    PROVE  LET r == Stop(s, n, pos)
           IN  /\ r \in States /\ r.mark = [s.mark EXCEPT ![n] = "Target"]
               /\ r.inner = s.inner /\ r.iter = s.iter /\ r.stack = s.stack /\ r.bh = s.bh
               /\ r.op = "Done" /\ r.res.pos = pos /\ r.res.at = n
<1> DEFINE ans  == [s.res EXCEPT !.pos = pos, !.at = n, !.scope = Known.scope[n]]
           mark == [s.mark EXCEPT ![n] = "Target"]
<1>1. ans \in Results /\ ans.pos = pos /\ ans.at = n
  <2> s.res \in Results
    BY Fields
  <2> n \in Nat
    BY Nodes
  <2> Known.scope[n] \in SUBSET STRING
    BY Noted
  <2> QED BY DEF Results
<1>2. Stop(s, n, pos) = [s EXCEPT !.mark = mark, !.op = "Done", !.res = ans]
  BY DEF Stop
<1>3. mark \in Markings /\ "Done" \in Operations
  BY Fields DEF Markings, Marks, Operations
<1> HIDE DEF ans, mark
<1>4. /\ Stop(s, n, pos) \in States /\ Stop(s, n, pos).mark = mark
      /\ Stop(s, n, pos).inner = s.inner /\ Stop(s, n, pos).iter = s.iter
      /\ Stop(s, n, pos).stack = s.stack /\ Stop(s, n, pos).bh = s.bh
      /\ Stop(s, n, pos).op = "Done" /\ Stop(s, n, pos).res = ans
  BY <1>1, <1>2, <1>3 DEF States
<1> QED BY <1>4, <1>1 DEF mark

(* What unsetting the target does.                                         *)
LEMMA Left_off ==
    ASSUME shader \in Shaders, NEW s \in States, NEW n \in DOMAIN T
    PROVE  LET r == Unset(s, n)
           IN  /\ r \in States /\ r.mark = [s.mark EXCEPT ![n] = "None"]
               /\ r.inner = s.inner /\ r.iter = s.iter /\ r.stack = s.stack /\ r.bh = s.bh
               /\ r.op = "TargetSet"
<1> DEFINE ans  == [s.res EXCEPT !.pos = "UNSET"]
           mark == [s.mark EXCEPT ![n] = "None"]
<1>1. ans \in Results
  <2> s.res \in Results
    BY Fields
  <2> QED BY DEF Results, Positions
<1>2. Unset(s, n) = [s EXCEPT !.mark = mark, !.op = "TargetSet", !.res = ans]
  BY DEF Unset
<1>3. mark \in Markings /\ "TargetSet" \in Operations
  BY Fields DEF Markings, Marks, Operations
<1> HIDE DEF ans, mark
<1>4. /\ Unset(s, n) \in States /\ Unset(s, n).mark = mark
      /\ Unset(s, n).inner = s.inner /\ Unset(s, n).iter = s.iter
      /\ Unset(s, n).stack = s.stack /\ Unset(s, n).bh = s.bh
      /\ Unset(s, n).op = "TargetSet"
  BY <1>1, <1>2, <1>3 DEF States
<1> QED BY <1>4 DEF mark

(* What a change of the state of a selection or loop does.                 *)
LEMMA Working ==
    ASSUME NEW s \in States, NEW n \in DOMAIN T, NEW x \in SelectionStates \cup LoopStates
    PROVE  LET r == [s EXCEPT !.inner[n] = x]
           IN  /\ r \in States /\ r.inner = [s.inner EXCEPT ![n] = x]
               /\ r.mark = s.mark /\ r.iter = s.iter /\ r.stack = s.stack /\ r.bh = s.bh
               /\ r.op = s.op /\ r.res = s.res
<1> DEFINE inner == [s.inner EXCEPT ![n] = x]
<1>1. inner \in Progress
  BY Fields DEF Progress
<1> HIDE DEF inner
<1>2. LET r == [s EXCEPT !.inner = inner]
      IN  /\ r \in States /\ r.inner = inner
          /\ r.mark = s.mark /\ r.iter = s.iter /\ r.stack = s.stack /\ r.bh = s.bh
          /\ r.op = s.op /\ r.res = s.res
  BY <1>1 DEF States
<1> QED BY <1>2 DEF inner

(* What leaving a loop does.                                               *)
LEMMA LeftLoop ==
    ASSUME NEW s \in States, NEW n \in DOMAIN T
    PROVE  LET r == LeaveLoop(s, n)
           IN  /\ r \in States /\ r.inner = [s.inner EXCEPT ![n] = "UNSET"]
               /\ r.iter = [s.iter EXCEPT ![n] = 0]
               /\ r.mark = s.mark /\ r.stack = s.stack /\ r.bh = s.bh /\ r.op = s.op
<1> DEFINE inner == [s.inner EXCEPT ![n] = "UNSET"]
           iter  == [s.iter EXCEPT ![n] = 0]
<1>1. inner \in Progress /\ iter \in LoopCounters
  BY Fields DEF Progress, LoopCounters, LoopStates
<1>2. LeaveLoop(s, n) = [s EXCEPT !.inner = inner, !.iter = iter]
  BY DEF LeaveLoop
<1> HIDE DEF inner, iter
<1>3. LET r == LeaveLoop(s, n)
      IN  /\ r \in States /\ r.inner = inner /\ r.iter = iter
          /\ r.mark = s.mark /\ r.stack = s.stack /\ r.bh = s.bh /\ r.op = s.op
  BY <1>1, <1>2 DEF States
<1> QED BY <1>3 DEF inner, iter

(* What the end of an iteration does.                                      *)
LEMMA CountedUp ==
    ASSUME NEW s \in States, NEW n \in DOMAIN T
    PROVE  LET r == CountUp(s, n)
           IN  /\ r \in States /\ r.iter = [s.iter EXCEPT ![n] = s.iter[n] + 1]
               /\ r.inner = s.inner /\ r.mark = s.mark /\ r.stack = s.stack
               /\ r.bh = s.bh /\ r.op = s.op /\ r.res = s.res
<1> DEFINE iter  == [s.iter EXCEPT ![n] = s.iter[n] + 1]
<1>1. iter \in LoopCounters
  BY Fields DEF LoopCounters
<1>2. CountUp(s, n) = [s EXCEPT !.iter = iter]
  BY DEF CountUp
<1> HIDE DEF iter
<1>3. LET r == CountUp(s, n)
      IN  /\ r \in States /\ r.inner = s.inner /\ r.iter = iter
          /\ r.mark = s.mark /\ r.stack = s.stack /\ r.bh = s.bh /\ r.op = s.op /\ r.res = s.res
  BY <1>1, <1>2 DEF States
<1> QED BY <1>3 DEF iter

(* What a loop does that becomes the target.                               *)
LEMMA StoppedLoop ==
    ASSUME shader \in Shaders, NEW s \in States, NEW n \in DOMAIN T, NEW pos \in Positions,
           NEW x \in LoopStates
    PROVE  LET r == StopLoop(s, n, x, pos)
           IN  /\ r \in States /\ r.mark = [s.mark EXCEPT ![n] = "Target"]
               /\ r.inner = [s.inner EXCEPT ![n] = x]
               /\ r.iter = s.iter /\ r.stack = s.stack /\ r.bh = s.bh
               /\ r.op = "Done" /\ r.res.pos = pos /\ r.res.at = n
<1> DEFINE w == [s EXCEPT !.inner[n] = x]
<1>1. /\ w \in States /\ w.inner = [s.inner EXCEPT ![n] = x]
      /\ w.mark = s.mark /\ w.iter = s.iter /\ w.stack = s.stack /\ w.bh = s.bh
  BY Working
<1> HIDE DEF w
<1>2. StopLoop(s, n, x, pos) = Stop(w, n, pos)
  BY DEF StopLoop, w
<1> QED BY <1>1, <1>2, Stopped

(* What a loop does that becomes the target for the choice of its flow.    *)
LEMMA StoppedAtChoice ==
    ASSUME shader \in Shaders, NEW s \in States, NEW n \in DOMAIN T
    PROVE  LET r == StopChoose(s, n)
           IN  /\ r \in States /\ r.mark = [s.mark EXCEPT ![n] = "Target"]
               /\ r.inner = [s.inner EXCEPT ![n] = "SELECT_FLOW"]
               /\ r.iter = s.iter /\ r.stack = s.stack /\ r.bh = s.bh
               /\ r.op = "Done" /\ r.res.pos = "LOOP_CHOOSE" /\ r.res.at = n
<1> DEFINE w == StopLoop(s, n, "SELECT_FLOW", "LOOP_CHOOSE")
           ans == [w.res EXCEPT !.iter = Iteration(s, n)]
<1>1. /\ w \in States /\ w.mark = [s.mark EXCEPT ![n] = "Target"]
      /\ w.inner = [s.inner EXCEPT ![n] = "SELECT_FLOW"]
      /\ w.iter = s.iter /\ w.stack = s.stack /\ w.bh = s.bh
      /\ w.op = "Done" /\ w.res.pos = "LOOP_CHOOSE" /\ w.res.at = n
  <2> "SELECT_FLOW" \in LoopStates /\ "LOOP_CHOOSE" \in Positions
    BY DEF LoopStates, Positions
  <2> QED BY StoppedLoop
<1>2. StopChoose(s, n) = [w EXCEPT !.res = ans]
  BY DEF StopChoose
<1> HIDE DEF w
<1>3. Iteration(s, n) \in Int
  BY Fields DEF Iteration, LoopCounters
<1>4. ans \in Results /\ ans.pos = w.res.pos /\ ans.at = w.res.at
  <2> w.res \in Results
    BY <1>1, Fields
  <2> QED BY <1>3 DEF Results
<1> HIDE DEF ans
<1>5. LET r == [w EXCEPT !.res = ans]
      IN  /\ r \in States /\ r.mark = w.mark /\ r.inner = w.inner /\ r.iter = w.iter
          /\ r.stack = w.stack /\ r.bh = w.bh /\ r.op = w.op /\ r.res = ans
  BY <1>1, <1>4 DEF States
<1> QED BY <1>1, <1>2, <1>4, <1>5

-----------------------------------------------------------------------------
(* The parse stack, and where a traversal is.                              *)

(* The parse stack holds every function once, as what is called has a      *)
(* lower rank: it is no longer than the tree.                              *)
LEMMA Ranked ==
    ASSUME shader \in Shaders, NEW s \in States, Stacked(s)
    PROVE  /\ Len(s.stack) \in Nat /\ 1 <= Len(s.stack) /\ Len(s.stack) <= Len(T)
           /\ \A i \in 1 .. Len(s.stack) : s.stack[i] \in Functions(T)
           /\ \A i, j \in 1 .. Len(s.stack) : i < j => s.stack[i] # s.stack[j]
<1> DEFINE L == Len(s.stack)
<1>1. s.stack \in Seq(Functions(T)) /\ s.stack # <<>>
  BY Fields DEF Stacks, Stacked
<1>2. L \in Nat /\ 1 <= L /\ \A i \in 1 .. L : s.stack[i] \in Functions(T)
  BY <1>1
<1>3. PICK rank \in [Functions(T) -> 1 .. Len(T)] :
        \A f \in Functions(T), n \in DOMAIN T :
           n \in f .. Known.end[f] /\ T[n].k = "call" =>
               rank[FunctionNamed(T, T[n].f)] < rank[f]
  BY Formed DEF Callable
<1>r. \A f \in Functions(T) : rank[f] \in Nat /\ 1 <= rank[f] /\ rank[f] <= Len(T)
  BY <1>3, Nodes
<1>4. ASSUME NEW i \in 2 .. L PROVE rank[s.stack[i - 1]] < rank[s.stack[i]]
  <2>1. PICK t \in Region(s.stack[i]) : CallsTo(t, s.stack[i - 1])
    BY DEF Stacked
  <2>2. s.stack[i] \in Functions(T)
    BY <1>2
  <2>3. t \in DOMAIN T
    BY <2>1, <2>2, NoneInside
  <2> QED BY <1>3, <2>1, <2>2, <2>3 DEF CallsTo, Region, End
<1> DEFINE D == {d \in Nat : \A i \in 1 .. L : i + d <= L =>
                                rank[s.stack[i]] + d <= rank[s.stack[i + d]]}
<1>5. 0 \in D
  BY <1>2, <1>r
<1>6. ASSUME NEW d \in D PROVE d + 1 \in D
  <2>1. ASSUME NEW i \in 1 .. L, i + (d + 1) <= L
        PROVE  rank[s.stack[i]] + (d + 1) <= rank[s.stack[i + (d + 1)]]
    <3>0. d \in Nat
      OBVIOUS
    <3>1. i + d \in 1 .. L /\ i + (d + 1) \in 2 .. L /\ i + (d + 1) - 1 = i + d /\ d \in Nat
      <4> HIDE DEF D, L
      <4> QED BY <1>2, <2>1, <3>0
    <3>2. rank[s.stack[i]] + d <= rank[s.stack[i + d]]
      BY <1>6, <3>1
    <3>3. rank[s.stack[i + d]] < rank[s.stack[i + (d + 1)]]
      BY <1>4, <3>1
    <3> HIDE DEF D, L
    <3>a. i \in 1 .. L /\ i + d \in 1 .. L /\ i + (d + 1) \in 1 .. L
      BY <1>2, <3>1
    <3>b. /\ s.stack[i] \in Functions(T) /\ s.stack[i + d] \in Functions(T)
          /\ s.stack[i + (d + 1)] \in Functions(T)
      BY <1>2, <3>a
    <3>4. rank[s.stack[i]] \in Nat /\ rank[s.stack[i + d]] \in Nat
          /\ rank[s.stack[i + (d + 1)]] \in Nat
      BY <1>r, <3>b
    <3> DEFINE x == rank[s.stack[i]]
               y == rank[s.stack[i + d]]
               z == rank[s.stack[i + (d + 1)]]
    <3>5. x + d <= y /\ y < z /\ x \in Nat /\ y \in Nat /\ z \in Nat
      BY <3>2, <3>3, <3>4
    <3> HIDE DEF x, y, z
    <3>6. x + (d + 1) <= z
      BY <3>0, <3>5
    <3> QED BY <3>6 DEF x, z
  <2> QED BY <2>1
<1>7. D = Nat
  <2> HIDE DEF D
  <2> D \in SUBSET Nat
    BY DEF D
  <2> QED BY <1>5, <1>6, SetInduction
<1>8. ASSUME NEW i \in 1 .. L, NEW j \in 1 .. L, i <= j
      PROVE  rank[s.stack[i]] + (j - i) <= rank[s.stack[j]]
  <2>1. j - i \in Nat /\ i + (j - i) = j
    <3> HIDE DEF D, L
    <3> QED BY <1>8, <1>2
  <2>2. j - i \in D
    BY <2>1, <1>7
  <2>3. i + (j - i) <= L => rank[s.stack[i]] + (j - i) <= rank[s.stack[i + (j - i)]]
    BY <2>2
  <2> QED BY <2>1, <2>3
<1>9. L <= Len(T)
  <2>0. L \in Nat /\ 1 \in 1 .. L /\ L \in 1 .. L /\ 1 <= L
    <3> HIDE DEF L
    <3> QED BY <1>2
  <2>1. rank[s.stack[1]] + (L - 1) <= rank[s.stack[L]]
    <3> HIDE DEF L, D
    <3> QED BY <2>0, <1>8
  <2>2. rank[s.stack[1]] \in 1 .. Len(T) /\ rank[s.stack[L]] \in 1 .. Len(T)
    BY <2>0, <1>2, <1>r
  <2>3. Len(T) \in Nat
    BY Nodes
  <2> HIDE DEF L, D
  <2> QED BY <2>0, <2>1, <2>2, <2>3
<1>10. \A i, j \in 1 .. L : i < j => s.stack[i] # s.stack[j]
  <2> SUFFICES ASSUME NEW i \in 1 .. L, NEW j \in 1 .. L, i < j, s.stack[i] = s.stack[j]
               PROVE  FALSE
    OBVIOUS
  <2>1. rank[s.stack[i]] + (j - i) <= rank[s.stack[j]]
    BY <1>8
  <2> QED BY <2>1, <1>2, <1>r
<1> QED BY <1>2, <1>9, <1>10

(* s is at the node n: all that is marked leads to n or waits on the       *)
(* stack.                                                                  *)
On(s, n) == s \in States /\ Stacked(s) /\ At(s, Top(s), n)

(* A statement is looked for in n, of which nothing is known yet.          *)
Free(s, n) == On(s, n) /\ s.op = "TargetSet" /\ Quiet(s, n)

(* Nodes that know which of their parts is in progress.                    *)
HasParts(n) == T[n].k \in {"selection", "loop"}

(* n is at work on its part i, if it has parts.                            *)
Busy(s, n, i) ==
    /\ On(s, n) /\ s.mark[n] = "None" /\ T[n].k # "switch"
    /\ T[n].k # "loop" => s.iter[n] = 0
    /\ IF HasParts(n) THEN i \in DOMAIN Works(n) /\ s.inner[n] = Works(n)[i]
       ELSE s.inner[n] = "UNSET"

(* The target t is looked for, and lies in n.                              *)
Starts(s, n, t) ==
    /\ s \in States /\ s.op = "TargetUnset" /\ StopsAt(s, t) /\ T[t].k # "dummy"
    /\ n \in Region(Top(s)) /\ Under(t, n)

(* The step is done: the target is the node of the answer.                 *)
Stops(s) ==
    /\ s \in States /\ s.op = "Done" /\ StopsAt(s, s.res.at) /\ s.res.pos # "UNSET"
    /\ s.res.pos = "DUMMY" <=> T[s.res.at].k = "dummy"

(* The function on top of the parse stack.                                 *)
LEMMA Frame ==
    ASSUME shader \in Shaders, NEW s \in States, Stacked(s)
    PROVE  /\ Top(s) \in Functions(T) /\ Top(s) \in DOMAIN T
           /\ \A m \in Region(Top(s)) : m \in DOMAIN T /\ m >= Top(s)
                                        /\ (m # Top(s) => T[m].k # "function")
<1>1. Top(s) \in Functions(T)
  BY Ranked DEF Top
<1>2. Top(s) \in DOMAIN T
  BY <1>1 DEF Functions
<1> QED BY <1>1, <1>2, NoneInside, Nodes DEF Region

(* What changes at n only leaves s at n.                                   *)
LEMMA StillOn ==
    ASSUME shader \in Shaders, NEW s, NEW n, On(s, n), NEW r \in States,
           r.stack = s.stack,
           \A m \in DOMAIN T : m # n => /\ r.mark[m] = s.mark[m]
                                        /\ r.inner[m] = s.inner[m] /\ r.iter[m] = s.iter[m]
    PROVE  On(r, n)
<1> DEFINE f == Top(s)
<1> s \in States /\ Stacked(s) /\ At(s, f, n) /\ Top(r) = f
  BY DEF On, Top
<1>1. f \in Functions(T) /\ \A m \in Region(f) : m \in DOMAIN T
  BY Frame
<1>2. n \in Region(f)
  BY DEF At
<1>3. At(r, f, n)
  <2> HIDE DEF f
  <2> QED BY <1>1, <1>2 DEF At, Leads, Quiet
<1>4. ASSUME NEW i \in 2 .. Len(r.stack)
      PROVE  \E t \in Region(r.stack[i]) :
                StopsIn(r, r.stack[i], t) /\ CallsTo(t, r.stack[i - 1])
  <2>1. PICK t \in Region(s.stack[i]) : StopsIn(s, s.stack[i], t) /\ CallsTo(t, s.stack[i - 1])
    BY DEF Stacked
  <2>2. s.stack[i] \in Functions(T) /\ s.stack[i] # f
    BY Ranked DEF Top
  <2>3. \A m \in Region(s.stack[i]) : m \in DOMAIN T /\ m # n
    BY <1>1, <1>2, <2>2, Separate, NoneInside
  <2>4. At(s, s.stack[i], t)
    BY <2>1 DEF StopsIn
  <2>5. At(r, s.stack[i], t)
    BY <2>3, <2>4 DEF At, Leads, Quiet
  <2>6. StopsIn(r, s.stack[i], t)
    BY <2>1, <2>3, <2>5 DEF StopsIn
  <2> QED BY <2>1, <2>6
<1>5. ASSUME NEW m \in DOMAIN T, \A i \in 1 .. Len(r.stack) : m \notin Region(r.stack[i])
      PROVE  Quiet(r, m)
  <2>1. m # n
    BY <1>2, <1>5, Ranked DEF Top
  <2>2. Quiet(s, m)
    BY <1>5 DEF Stacked
  <2> QED BY <2>1, <2>2 DEF Quiet
<1>6. Stacked(r)
  BY <1>4, <1>5 DEF Stacked
<1> QED BY <1>3, <1>6 DEF On

-----------------------------------------------------------------------------
(* The parts of the nodes.                                                 *)

(* The children that the kinds of nodes have.                              *)
LEMMA Shapes ==
    ASSUME shader \in Shaders, NEW n \in DOMAIN T
    PROVE  /\ T[n].k = "assign" => Len(T[n].c) = 2 /\ T[n].c[1] # 0 /\ T[n].c[2] # 0
           /\ T[n].k \in {"incr", "branch"} => Len(T[n].c) = 1
           /\ T[n].k = "selection" => Len(T[n].c) = 3 /\ (T[n].c[2] # 0 \/ T[n].c[3] = 0)
           /\ T[n].k = "loop" => Len(T[n].c) = 4 /\ T[n].f \in {"for", "while", "do"}
           /\ T[n].k \in {"struct", "symbol", "constant"} =>
                \A m \in Region(n) : m # n => T[m].k \notin StopKinds
<1>1. LET c == T[n].c
      IN  CASE T[n].k = "assign" -> Len(c) = 2 /\ c[1] # 0 /\ c[2] # 0
            [] T[n].k \in {"incr", "branch"} -> Len(c) = 1
            [] T[n].k = "selection" -> Len(c) = 3 /\ (c[2] # 0 \/ c[3] = 0)
            [] T[n].k = "loop" -> Len(c) = 4 /\ T[n].f \in {"for", "while", "do"}
            [] T[n].k \in {"struct", "symbol", "constant"} ->
                 \A m \in n + 1 .. End(n) : T[m].k \notin StopKinds
            [] OTHER -> TRUE
  BY Formed DEF Shaped, End
<1>2. T[n].k = "assign" => Len(T[n].c) = 2 /\ T[n].c[1] # 0 /\ T[n].c[2] # 0
  BY <1>1
<1>3. T[n].k \in {"incr", "branch"} => Len(T[n].c) = 1
  BY <1>1
<1>4. T[n].k = "selection" => Len(T[n].c) = 3 /\ (T[n].c[2] # 0 \/ T[n].c[3] = 0)
  BY <1>1
<1>5. T[n].k = "loop" => Len(T[n].c) = 4 /\ T[n].f \in {"for", "while", "do"}
  BY <1>1
<1>6. T[n].k \in {"struct", "symbol", "constant"} =>
        \A m \in n + 1 .. End(n) : T[m].k \notin StopKinds
  BY <1>1
<1>7. n \in Nat /\ End(n) \in Nat
  BY Nodes
<1> QED BY <1>2, <1>3, <1>4, <1>5, <1>6, <1>7 DEF Region

(* The states of the parts of a selection or loop.                         *)
LEMMA Parts ==
    ASSUME shader \in Shaders, NEW n \in DOMAIN T
    PROVE  /\ T[n].k = "selection" => /\ DOMAIN Works(n) = {1, 2, 3}
                                      /\ DOMAIN T[n].c = {1, 2, 3}
                                      /\ Works(n)[1] = "CONDITION" /\ Works(n)[2] = "IF"
                                      /\ Works(n)[3] = "ELSE"
           /\ T[n].k = "loop" => /\ DOMAIN Works(n) = {1, 2, 3, 4}
                                 /\ DOMAIN T[n].c = {1, 2, 3, 4}
                                 /\ Works(n)[1] = "WRK_INIT" /\ Works(n)[2] = "WRK_TEST"
                                 /\ Works(n)[3] = "WRK_TERMINAL" /\ Works(n)[4] = "WRK_BODY"
           /\ DOMAIN Works(n) \subseteq DOMAIN T[n].c
<1>1. T[n].c \in Seq(Nat)
  BY Nodes
<1>2. CASE T[n].k = "selection"
  <2>1. Len(T[n].c) = 3
    BY <1>2, Shapes
  <2>2. Works(n) = <<"CONDITION", "IF", "ELSE">>
    BY <1>2 DEF Works
  <2>3. DOMAIN T[n].c = {1, 2, 3}
    BY <1>1, <2>1
  <2> QED BY <1>2, <2>2, <2>3
<1>3. CASE T[n].k = "loop"
  <2>1. Len(T[n].c) = 4
    BY <1>3, Shapes
  <2>2. Works(n) = <<"WRK_INIT", "WRK_TEST", "WRK_TERMINAL", "WRK_BODY">>
    BY <1>3 DEF Works
  <2>3. DOMAIN T[n].c = {1, 2, 3, 4}
    BY <1>1, <2>1
  <2> QED BY <1>3, <2>2, <2>3
<1>4. CASE T[n].k \notin {"selection", "loop"}
  <2>1. Works(n) = << >>
    BY <1>4 DEF Works
  <2> QED BY <1>4, <2>1
<1> QED BY <1>2, <1>3, <1>4

(* A node that is at work on a part is at that part, which is quiet.       *)
LEMMA ToChild ==
    ASSUME shader \in Shaders, NEW s, NEW n, NEW i \in DOMAIN T[n].c, T[n].c[i] # 0,
           Busy(s, n, i)
    PROVE  /\ On(s, T[n].c[i]) /\ Quiet(s, T[n].c[i])
           /\ T[n].c[i] # Top(s) /\ T[n].c[i] \in Region(Top(s))
<1> DEFINE x == T[n].c[i]
           f == Top(s)
<1>0. s \in States /\ Stacked(s) /\ At(s, f, n) /\ n \in Region(f)
  BY DEF Busy, On, At
<1>1. f \in DOMAIN T /\ n \in DOMAIN T /\ f <= n
  BY <1>0, Frame
<1>2. x \in DOMAIN T /\ n < x /\ x <= End(n) /\ x <= End(x)
  BY <1>1, Children, Nested
<1> f \in Nat /\ n \in Nat /\ x \in Nat /\ End(f) \in Nat /\ End(n) \in Nat /\ End(x) \in Nat
  BY <1>1, <1>2, Nodes
<1>3. n <= End(f) /\ End(n) <= End(f)
  BY <1>0, <1>1, Nested DEF Region
<1>4. x \in Region(f) /\ x # f
  BY <1>1, <1>2, <1>3 DEF Region
<1>5. ~Under(n, x) /\ Under(x, n) /\ Under(x, x)
  BY <1>1, <1>2, Nodes DEF Under
<1>6. Quiet(s, x)
  BY <1>0, <1>2, <1>4, <1>5 DEF At
<1>7. Leads(s, n, x)
  <2>1. CASE HasParts(n)
    BY <2>1, <1>1, <1>5, OneChild, Parts DEF Busy, Leads, HasParts
  <2>2. CASE ~HasParts(n)
    BY <2>2 DEF Busy, Leads, HasParts
  <2> QED BY <2>1, <2>2
<1>8. ASSUME NEW m \in Region(f) \ {x}
      PROVE  IF Under(x, m) THEN Leads(s, m, x) ELSE Quiet(s, m)
  <2>1. m \in DOMAIN T
    BY <1>0, Frame
  <2>2. CASE m = n
    BY <2>2, <1>5, <1>7
  <2>3. CASE m # n
    <3>1. IF Under(n, m) THEN Leads(s, m, n) ELSE Quiet(s, m)
      BY <1>0, <2>3 DEF At
    <3>2. Under(x, m) <=> Under(n, m)
      BY <1>1, <2>1, <2>3, AboveChild
    <3>3. ASSUME Under(n, m) PROVE Leads(s, m, x)
      <4>1. \A j \in DOMAIN T[m].c : Under(x, T[m].c[j]) <=> Under(n, T[m].c[j])
        BY <1>1, <2>1, <2>3, <3>3, SamePart
      <4>2. DOMAIN Works(m) \subseteq DOMAIN T[m].c
        BY <2>1, Parts
      <4> HIDE DEF x
      <4> QED BY <3>1, <3>3, <4>1, <4>2 DEF Leads
    <3> QED BY <3>1, <3>2, <3>3
  <2> QED BY <2>2, <2>3
<1>9. At(s, f, x)
  BY <1>4, <1>8 DEF At
<1> QED BY <1>0, <1>4, <1>6, <1>9 DEF On

(* And when that part is done the node is at work on it as before.         *)
LEMMA FromChild ==
    ASSUME shader \in Shaders, NEW s, NEW n \in DOMAIN T, NEW i \in DOMAIN T[n].c,
           T[n].c[i] # 0, On(s, T[n].c[i]), Quiet(s, T[n].c[i]), n \in Region(Top(s))
    PROVE  Busy(s, n, i)
<1> DEFINE x == T[n].c[i]
           f == Top(s)
<1>0. s \in States /\ Stacked(s) /\ At(s, f, x) /\ x \in Region(f)
  BY DEF On, At
<1>2. x \in DOMAIN T /\ n < x /\ x <= End(n) /\ x <= End(x)
  BY Children, Nested
<1> n \in Nat /\ x \in Nat /\ End(n) \in Nat /\ End(x) \in Nat
  BY <1>2, Nodes
<1>5. ~Under(n, x) /\ Under(x, n) /\ Under(x, x)
  BY <1>2, Nodes DEF Under
<1>7. Leads(s, n, x)
  BY <1>0, <1>2, <1>5 DEF At
<1>8. ASSUME NEW m \in Region(f) \ {n}
      PROVE  IF Under(n, m) THEN Leads(s, m, n) ELSE Quiet(s, m)
  <2>1. m \in DOMAIN T
    BY <1>0, Frame
  <2>2. CASE m = x
    BY <2>2, <1>5
  <2>3. CASE m # x
    <3>1. IF Under(x, m) THEN Leads(s, m, x) ELSE Quiet(s, m)
      BY <1>0, <2>3 DEF At
    <3>2. Under(x, m) <=> Under(n, m)
      BY <2>1, <2>3, AboveChild
    <3>3. ASSUME Under(n, m) PROVE Leads(s, m, n)
      <4>1. \A j \in DOMAIN T[m].c : Under(x, T[m].c[j]) <=> Under(n, T[m].c[j])
        BY <2>1, <3>3, SamePart
      <4>2. DOMAIN Works(m) \subseteq DOMAIN T[m].c
        BY <2>1, Parts
      <4>3. Leads(s, m, x)
        BY <3>1, <3>2, <3>3
      <4> HIDE DEF x
      <4> QED BY <4>1, <4>2, <4>3 DEF Leads
    <3> QED BY <3>1, <3>2, <3>3
  <2> QED BY <2>2, <2>3
<1>9. On(s, n)
  BY <1>0, <1>8 DEF At, On
<1>10. ASSUME HasParts(n) PROVE i \in DOMAIN Works(n) /\ s.inner[n] = Works(n)[i]
  <2>1. PICK j \in DOMAIN Works(n) : s.inner[n] = Works(n)[j] /\ Under(x, T[n].c[j])
    BY <1>7, <1>10 DEF Leads, HasParts
  <2>2. j \in DOMAIN T[n].c
    BY Parts
  <2>3. i = j
    BY <1>2, <1>5, <2>1, <2>2, OneChild
  <2> QED BY <2>1, <2>3
<1> QED BY <1>7, <1>9, <1>10 DEF Busy, Leads, HasParts

-----------------------------------------------------------------------------
(* The target.                                                             *)

(* No target lies in n.                                                    *)
NoTarget(s, n) == \A m \in Region(n) : s.mark[m] # "Target"

(* The target for which a step starts is a stop of the function on top.    *)
LEMMA Target ==
    ASSUME shader \in Shaders, NEW s, NEW n, NEW t, Starts(s, n, t)
    PROVE  /\ On(s, t) /\ t \in DOMAIN T /\ n \in DOMAIN T /\ t \in Region(Top(s)) /\ t # Top(s)
           /\ n \in Region(Top(s))
           /\ s.mark[t] = "Target" /\ s.inner[t] \in StopStates(t) /\ T[t].k \in StopKinds
           /\ T[t].k # "loop" => s.iter[t] = 0
           /\ T[t].k = "branch" => T[t].c[1] # 0
<1> s \in States /\ Stacked(s) /\ StopsIn(s, Top(s), t) /\ n \in Region(Top(s))
  BY DEF Starts, StopsAt
<1>1. At(s, Top(s), t) /\ t \in Region(Top(s))
  BY DEF StopsIn, At
<1>2. t \in DOMAIN T /\ n \in DOMAIN T
  BY <1>1, Frame
<1> QED BY <1>1, <1>2 DEF On, StopsIn

(* A target in n that is not n lies in the part that n is at work on, and  *)
(* in no other.                                                            *)
LEMMA Inside ==
    ASSUME shader \in Shaders, NEW s, NEW n, NEW t, Starts(s, n, t), t # n
    PROVE  /\ s.mark[n] = "None" /\ T[n].k # "switch"
           /\ \E i \in DOMAIN T[n].c :
                /\ Under(t, T[n].c[i]) /\ T[n].c[i] # 0 /\ Starts(s, T[n].c[i], t)
                /\ T[n].c[i] # Top(s)
                /\ HasParts(n) => i \in DOMAIN Works(n) /\ s.inner[n] = Works(n)[i]
                /\ \A j \in DOMAIN T[n].c : j # i /\ T[n].c[j] # 0 => NoTarget(s, T[n].c[j])
<1> DEFINE f == Top(s)
<1>0. s \in States /\ At(s, f, t) /\ Stacked(s) /\ n \in Region(f) /\ Under(t, n)
  BY Target DEF On, Starts
<1>1. n \in DOMAIN T /\ t \in DOMAIN T /\ f \in DOMAIN T /\ f <= n
  BY <1>0, Target, Frame
<1>2. Leads(s, n, t)
  BY <1>0 DEF At
<1>3. PICK i \in DOMAIN T[n].c : Under(t, T[n].c[i])
  BY <1>0, <1>1, SomeChild
<1> DEFINE x == T[n].c[i]
<1>4. x # 0 /\ x \in DOMAIN T /\ n < x /\ x <= End(n) /\ End(x) <= End(n)
  BY <1>1, <1>3, Children DEF Under
<1>5. x \in Region(f) /\ x # f
  <2> f \in Nat /\ n \in Nat /\ x \in Nat /\ End(f) \in Nat /\ End(n) \in Nat
    BY <1>1, <1>4, Nodes
  <2> n <= End(f) /\ End(n) <= End(f)
    BY <1>0, <1>1, Nested DEF Region
  <2> HIDE DEF f, x
  <2> QED BY <1>1, <1>4 DEF Region
<1>6. Starts(s, x, t)
  BY <1>3, <1>5 DEF Starts
<1>7. ASSUME HasParts(n) PROVE i \in DOMAIN Works(n) /\ s.inner[n] = Works(n)[i]
  <2>1. PICK j \in DOMAIN Works(n) : s.inner[n] = Works(n)[j] /\ Under(t, T[n].c[j])
    BY <1>2, <1>7 DEF Leads, HasParts
  <2>2. j \in DOMAIN T[n].c
    BY <1>1, Parts
  <2>3. i = j
    BY <1>1, <1>3, <2>1, <2>2, OneChild
  <2> QED BY <2>1, <2>3
<1>8. ASSUME NEW j \in DOMAIN T[n].c, j # i, T[n].c[j] # 0, NEW m \in Region(T[n].c[j])
      PROVE  s.mark[m] # "Target"
  <2> DEFINE y == T[n].c[j]
  <2>1. y \in DOMAIN T /\ n < y /\ y <= End(n) /\ End(y) <= End(n)
    BY <1>1, <1>8, Children
  <2>2. m \in DOMAIN T
    BY <2>1, <1>8, Nested DEF Region
  <2>3. m # t
    <3> SUFFICES ASSUME m = t PROVE FALSE
      OBVIOUS
    <3>1. Under(t, T[n].c[j])
      BY <1>8 DEF Under, Region
    <3> QED BY <1>1, <1>3, <1>8, <3>1, OneChild
  <2>4. m \in Region(f)
    <3> f \in Nat /\ n \in Nat /\ y \in Nat /\ m \in Nat
        /\ End(f) \in Nat /\ End(n) \in Nat /\ End(y) \in Nat
      BY <1>1, <2>1, <2>2, Nodes
    <3> n <= End(f) /\ End(n) <= End(f) /\ y <= m /\ m <= End(y)
      BY <1>0, <1>1, <1>8, Nested DEF Region
    <3> HIDE DEF f, y
    <3> QED BY <1>1, <2>1 DEF Region
  <2>5. IF Under(t, m) THEN Leads(s, m, t) ELSE Quiet(s, m)
    BY <1>0, <2>3, <2>4 DEF At
  <2> QED BY <2>5 DEF Leads, Quiet
<1> QED BY <1>2, <1>3, <1>4, <1>5, <1>6, <1>7, <1>8 DEF Leads, NoTarget

-----------------------------------------------------------------------------
(* What a traversal of a given depth does, if it is deep enough.           *)

(* The frames that a step may still come to: those on the stack, and that  *)
(* of a call which it may enter, and the way back.                         *)
Weight(s) == Len(s.stack) + (IF s.op = "TargetUnset" /\ s.bh = "INTO" THEN 2 ELSE 0)

(* The traversal of n from s nests less than d calls.                      *)
Fits(s, n, d) == Room(Weight(s), End(n) - n) < d

(* The body of main.                                                       *)
Body == T[Main].c[1]

(* Its last node, the dummy statement.                                     *)
Dummy == T[Body].c[Len(T[Body].c)]

(* The traversal of n stops, or has passed n in the same function; the     *)
(* end of main is not passed.                                              *)
Outcome(r, s, n) == Stops(r) \/ (Free(r, n) /\ r.stack = s.stack /\ n \notin {Body, Dummy})

(* What a traversal g promises that is deep enough: it passes nodes in     *)
(* which the target that is looked for does not lie; it stops or passes    *)
(* the others; and it does not come out of a function without a stop.      *)
Contract(g, d) ==
    \A s \in States, n \in DOMAIN T : Fits(s, n, d) =>
        /\ s.op = "TargetUnset" /\ NoTarget(s, n) => g[<<s, n>>] = s
        /\ n # Top(s) /\ (Free(s, n) \/ \E t \in DOMAIN T : Starts(s, n, t))
             => Outcome(g[<<s, n>>], s, n)
        /\ n = Top(s) /\ (Free(s, n) \/ \E t \in DOMAIN T : Starts(s, n, t))
             => Stops(g[<<s, n>>])

(* The weight of a state.                                                  *)
LEMMA Weights ==
    ASSUME NEW s \in States
    PROVE  Weight(s) \in Nat /\ Len(s.stack) <= Weight(s)
           /\ Weight(s) <= Len(s.stack) + 2 /\ Len(s.stack) \in Nat
           /\ (s.op # "TargetUnset" \/ s.bh # "INTO" => Weight(s) = Len(s.stack))
           /\ (s.op = "TargetUnset" /\ s.bh = "INTO" => Weight(s) = Len(s.stack) + 2)
<1> s.stack \in Seq(Functions(T))
  BY Fields DEF Stacks
<1> DEFINE L == Len(s.stack)
<1>1. L \in Nat
  OBVIOUS
<1>2. Weight(s) = L + (IF s.op = "TargetUnset" /\ s.bh = "INTO" THEN 2 ELSE 0)
  BY DEF Weight
<1> HIDE DEF L
<1>3. CASE s.op = "TargetUnset" /\ s.bh = "INTO"
  <2>1. Weight(s) = L + 2
    BY <1>2, <1>3
  <2> QED BY <1>1, <1>3, <2>1 DEF L
<1>4. CASE ~(s.op = "TargetUnset" /\ s.bh = "INTO")
  <2>1. Weight(s) = L
    BY <1>1, <1>2, <1>4
  <2> QED BY <1>1, <1>4, <2>1 DEF L
<1> QED BY <1>3, <1>4

(* The traversal of a child nests one call less.                           *)
LEMMA FitsChild ==
    ASSUME shader \in Shaders, NEW s \in States, NEW n \in DOMAIN T, NEW i \in DOMAIN T[n].c,
           T[n].c[i] # 0, NEW d \in Nat, Fits(s, n, d + 1)
    PROVE  Fits(s, T[n].c[i], d)
<1> DEFINE x == T[n].c[i]
<1>1. x \in DOMAIN T /\ n < x /\ End(x) <= End(n)
  BY Children
<1>2. n \in Nat /\ x \in Nat /\ End(n) \in Nat /\ End(x) \in Nat /\ Weight(s) * (Len(T) + 1) \in Nat
  BY <1>1, Nodes, Weights
<1>3. Weight(s) * (Len(T) + 1) + (End(n) - n) < d + 1
  BY DEF Fits, Room
<1> HIDE DEF x
<1>4. Weight(s) * (Len(T) + 1) + (End(x) - x) < d
  BY <1>1, <1>2, <1>3
<1> QED BY <1>4 DEF Fits, Room, x

(* Products of natural numbers.                                            *)
LEMMA TimesGrows ==
    ASSUME NEW a \in Nat, NEW b \in Nat, NEW c \in Nat, a <= b
    PROVE  a * c \in Nat /\ b * c \in Nat /\ a * c <= b * c
<1> DEFINE k == b - a
<1>1. k \in Nat /\ b = a + k
  OBVIOUS
<1>2. k * c \in Nat /\ a * c \in Nat
  BY <1>1
<1>3. b * c = a * c + k * c
  BY <1>1
<1> QED BY <1>2, <1>3

LEMMA TimesNext ==
    ASSUME NEW a \in Nat, NEW c \in Nat
    PROVE  (a + 1) * c = a * c + c
OBVIOUS

(* A state of less weight needs no more calls.                             *)
LEMMA FitsLess ==
    ASSUME shader \in Shaders, NEW s \in States, NEW r \in States, NEW n \in DOMAIN T,
           NEW d \in Nat, Fits(s, n, d), Weight(r) <= Weight(s)
    PROVE  Fits(r, n, d)
<1>1. Weight(s) \in Nat /\ Weight(r) \in Nat /\ Len(T) \in Nat /\ n \in Nat /\ End(n) \in Nat
  BY Weights, Nodes
<1>2. Len(T) + 1 \in Nat
  BY <1>1
<1>3. /\ Weight(s) * (Len(T) + 1) \in Nat /\ Weight(r) * (Len(T) + 1) \in Nat
      /\ Weight(r) * (Len(T) + 1) <= Weight(s) * (Len(T) + 1)
  BY <1>1, <1>2, TimesGrows
<1> DEFINE a == Weight(r) * (Len(T) + 1)
           b == Weight(s) * (Len(T) + 1)
           e == End(n) - n
<1>4. a <= b /\ a \in Nat /\ b \in Nat /\ e \in Int /\ b + e < d
  BY <1>1, <1>3 DEF Fits, Room
<1> HIDE DEF a, b, e
<1>5. a + e < d
  BY <1>4
<1> QED BY <1>5 DEF Fits, Room, a, e

(* The nodes of a function fit in the room of a frame.                     *)
LEMMA FitsFunction ==
    ASSUME shader \in Shaders, NEW s \in States, NEW r \in States, NEW n \in DOMAIN T,
           NEW f \in DOMAIN T,
           NEW d \in Nat, Fits(s, n, d + 1), Weight(r) < Weight(s)
    PROVE  Fits(r, f, d)
<1>1. Weight(s) \in Nat /\ Weight(r) \in Nat /\ Len(T) \in Nat /\ n \in Nat /\ End(n) \in Nat
      /\ f \in 1 .. Len(T) /\ End(f) \in 1 .. Len(T) /\ n <= End(n)
  BY Weights, Nodes, Nested
<1> DEFINE L == Len(T) + 1
<1>a. L \in Nat /\ Weight(r) + 1 \in Nat /\ Weight(r) + 1 <= Weight(s)
  BY <1>1
<1> HIDE DEF L
<1>2. (Weight(r) + 1) * L <= Weight(s) * L
  BY <1>1, <1>a, TimesGrows
<1>3. (Weight(r) + 1) * L = Weight(r) * L + L
  BY <1>1, <1>a, TimesNext
<1>4. Weight(s) * L \in Nat /\ Weight(r) * L \in Nat
  BY <1>1, <1>a, TimesGrows
<1> USE DEF L
<1>5. Weight(s) * (Len(T) + 1) + (End(n) - n) < d + 1
  BY DEF Fits, Room
<1>6. Weight(r) * (Len(T) + 1) + (Len(T) + 1) <= Weight(s) * (Len(T) + 1)
  BY <1>2, <1>3
<1>7. Weight(r) * (Len(T) + 1) + (End(f) - f) < d
  <2> DEFINE a == Weight(r) * (Len(T) + 1)
             b == Weight(s) * (Len(T) + 1)
             e == End(n) - n
  <2>0. e \in Nat
    <3> n \in Nat
      BY <1>1
    <3> QED BY <1>1
  <2>1. a \in Nat /\ b \in Nat /\ b + e < d + 1 /\ a + (Len(T) + 1) <= b
    BY <1>4, <1>5, <1>6
  <2> HIDE DEF a, b, e
  <2>2. a + (End(f) - f) < d
    <3> f \in Nat /\ End(f) \in Nat /\ f >= 1 /\ End(f) <= Len(T) /\ Len(T) \in Nat
      BY <1>1
    <3> QED BY <2>0, <2>1
  <2> QED BY <2>2 DEF a
<1> QED BY <1>7 DEF Fits, Room

-----------------------------------------------------------------------------
(* A part of a node is traversed.                                          *)

(* main has one child, its body, which ends with the dummy, the only one.  *)
LEMMA EndOfMain ==
    ASSUME shader \in Shaders
    PROVE  /\ Main \in Functions(T) /\ Len(T[Main].c) = 1
           /\ Body # 0 /\ Body \in DOMAIN T /\ T[Body].k = "sequence" /\ Len(T[Body].c) # 0
           /\ Dummy # 0 /\ Dummy \in DOMAIN T /\ T[Dummy].c = <<>>
           /\ \A n \in DOMAIN T : T[n].k = "dummy" <=> n = Dummy
<1>1. /\ Main # 0 /\ Len(T[Main].c) = 1 /\ T[Main].c[1] # 0
      /\ T[Body].k = "sequence" /\ Len(T[Body].c) # 0 /\ T[Body].c[Len(T[Body].c)] # 0
      /\ T[Dummy].c = <<>> /\ \A n \in DOMAIN T : T[n].k = "dummy" <=> n = Dummy
  BY Formed DEF EndsWithDummy, Main, Body, Dummy
<1>2. Main \in Functions(T)
  BY <1>1, Named DEF Main
<1>3. Main \in DOMAIN T
  BY <1>2 DEF Functions
<1>4. T[Main].c \in Seq(Nat)
  BY <1>3, Nodes
<1>5. 1 \in DOMAIN T[Main].c
  BY <1>1, <1>4
<1>6. Body \in DOMAIN T /\ Body # 0
  BY <1>1, <1>3, <1>5, Children DEF Body
<1>7. T[Body].c \in Seq(Nat)
  BY <1>6, Nodes
<1>8. Len(T[Body].c) \in DOMAIN T[Body].c
  BY <1>1, <1>7
<1>9. Dummy \in DOMAIN T /\ Dummy # 0
  BY <1>1, <1>6, <1>8, Children DEF Dummy
<1> QED BY <1>1, <1>2, <1>6, <1>9

(* A part of a node that is at work on it is searched for a statement.     *)
LEMMA ChildSet ==
    ASSUME shader \in Shaders, NEW s \in States, NEW n \in DOMAIN T, NEW i \in DOMAIN T[n].c,
           Busy(s, n, i), s.op = "TargetSet",
           NEW d \in Nat, NEW g, Contract(g, d), Fits(s, n, d + 1)
    PROVE  LET r == Traverse(g, s, T[n].c[i])
           IN  \/ Stops(r)
               \/ /\ Busy(r, n, i) /\ r.op = "TargetSet" /\ r.stack = s.stack
                  /\ T[n].c[i] \notin {Body, Dummy}
<1> DEFINE x == T[n].c[i]
           r == Traverse(g, s, x)
<1>1. CASE x = 0
  BY <1>1, EndOfMain DEF Traverse
<1>2. CASE x # 0
  <2>1. x \in DOMAIN T
    BY <1>2, Children
  <2>2. On(s, x) /\ Quiet(s, x) /\ x # Top(s)
    BY <1>2, ToChild
  <2>3. Free(s, x) /\ Fits(s, x, d)
    BY <2>2, <1>2, FitsChild DEF Free
  <2>4. r = g[<<s, x>>]
    BY <1>2 DEF Traverse, Looking
  <2>5. Outcome(r, s, x)
    BY <2>1, <2>2, <2>3, <2>4 DEF Contract
  <2>6. ASSUME Free(r, x), r.stack = s.stack PROVE Busy(r, n, i)
    <3> Top(r) = Top(s)
      BY <2>6 DEF Top
    <3> n \in Region(Top(r))
      BY DEF Busy, On, At
    <3> HIDE DEF r
    <3> QED BY <1>2, <2>6, FromChild DEF Free
  <2> QED BY <2>5, <2>6 DEF Outcome, Free
<1> QED BY <1>1, <1>2

(* A part of a node that holds the target is searched for it, and behind   *)
(* it for a statement.                                                     *)
LEMMA ChildUnset ==
    ASSUME shader \in Shaders, NEW s \in States, NEW n \in DOMAIN T, NEW i \in DOMAIN T[n].c,
           NEW t \in DOMAIN T, T[n].c[i] # 0, T[n].c[i] # Top(s), Starts(s, T[n].c[i], t),
           n \in Region(Top(s)),
           NEW d \in Nat, NEW g, Contract(g, d), Fits(s, n, d + 1)
    PROVE  LET r == Traverse(g, s, T[n].c[i])
           IN  \/ Stops(r)
               \/ /\ Busy(r, n, i) /\ r.op = "TargetSet" /\ r.stack = s.stack
                  /\ T[n].c[i] \notin {Body, Dummy}
<1> DEFINE x == T[n].c[i]
           r == Traverse(g, s, x)
<1>1. x \in DOMAIN T
  BY Children
<1>3. Fits(s, x, d)
  BY FitsChild
<1>4. r = g[<<s, x>>]
  BY DEF Traverse, Looking, Starts
<1>5. Outcome(r, s, x)
  BY <1>1, <1>3, <1>4 DEF Contract
<1>6. ASSUME Free(r, x), r.stack = s.stack PROVE Busy(r, n, i)
  <2> Top(r) = Top(s)
    BY <1>6 DEF Top
  <2> HIDE DEF r
  <2> QED BY <1>6, FromChild DEF Free
<1> QED BY <1>5, <1>6 DEF Outcome, Free

(* A part without the target is passed while the target is looked for.     *)
LEMMA ChildPast ==
    ASSUME shader \in Shaders, NEW s \in States, NEW n \in DOMAIN T, NEW i \in DOMAIN T[n].c,
           s.op = "TargetUnset", T[n].c[i] # 0 => NoTarget(s, T[n].c[i]),
           NEW d \in Nat, NEW g, Contract(g, d), Fits(s, n, d + 1)
    PROVE  Traverse(g, s, T[n].c[i]) = s
<1> DEFINE x == T[n].c[i]
<1>1. CASE x = 0
  BY <1>1 DEF Traverse
<1>2. CASE x # 0
  <2>1. x \in DOMAIN T
    BY <1>2, Children
  <2>2. Fits(s, x, d)
    BY <1>2, FitsChild
  <2> QED BY <1>2, <2>1, <2>2 DEF Traverse, Looking, Contract
<1> QED BY <1>1, <1>2

(* Where no target lies in a node none lies in its parts.                  *)
LEMMA AllPast ==
    ASSUME shader \in Shaders, NEW s \in States, NEW n \in DOMAIN T, NoTarget(s, n),
           NEW i \in DOMAIN T[n].c, T[n].c[i] # 0
    PROVE  NoTarget(s, T[n].c[i])
<1> DEFINE x == T[n].c[i]
<1>1. x \in DOMAIN T /\ n < x /\ End(x) <= End(n)
  BY Children
<1>2. ASSUME NEW m \in Region(x) PROVE m \in Region(n)
  <2>1. m \in DOMAIN T
    BY <1>1, <1>2, Nested DEF Region
  <2> x \in Nat /\ n \in Nat /\ m \in Nat /\ End(x) \in Nat /\ End(n) \in Nat
    BY <1>1, <2>1, Nodes
  <2> HIDE DEF x
  <2> QED BY <1>1, <1>2 DEF Region
<1> QED BY <1>2 DEF NoTarget

(* A node without parts is at work on any of its children when it is       *)
(* free.                                                                   *)
LEMMA Whole ==
    ASSUME NEW s, NEW n, NEW i, ~HasParts(n), T[n].k # "switch"
    PROVE  Busy(s, n, i) /\ s.op = "TargetSet" <=> Free(s, n)
BY DEF Busy, Free, Quiet, HasParts

(* The states between the visits of the nodes c.                           *)
Between(after, g, s, c) ==
    /\ after[0] = s
    /\ \A i \in 1 .. Len(c) : after[i] = Traverse(g, after[i - 1], c[i])
    /\ TraverseAll(g, s, c) = after[Len(c)]

(* The states between the children of a node that are traversed one after  *)
(* the other.                                                              *)
LEMMA AfterAll ==
    ASSUME NEW g, NEW s, NEW c, Len(c) \in Nat
    PROVE  \E after : Between(after, g, s, c)
<1> DEFINE Is(h, k) == h = [i \in 0 .. k |-> IF i = 0 THEN s ELSE Traverse(g, h[i - 1], c[i])]
           Ks == {k \in Nat : \E h : Is(h, k)}
<1>1. 0 \in Ks
  <2>1. Is([i \in 0 .. 0 |-> s], 0)
    OBVIOUS
  <2> QED BY <2>1
<1>2. ASSUME NEW k \in Ks PROVE k + 1 \in Ks
  <2>1. PICK h : Is(h, k)
    BY <1>2
  <2> DEFINE m == [i \in 0 .. k + 1 |-> IF i = 0 THEN s ELSE Traverse(g, h[i - 1], c[i])]
  <2>2. \A i \in 0 .. k : m[i] = h[i]
    BY <2>1
  <2>3. \A i \in 0 .. k + 1 : m[i] = IF i = 0 THEN s ELSE Traverse(g, m[i - 1], c[i])
    <3> TAKE i \in 0 .. k + 1
    <3>1. CASE i = 0
      BY <3>1
    <3>2. CASE i # 0
      <4>1. i - 1 \in 0 .. k /\ k \in Nat
        BY <3>2
      <4>2. m[i - 1] = h[i - 1]
        BY <2>2, <4>1
      <4> QED BY <3>2, <4>2
    <3> QED BY <3>1, <3>2
  <2>4. Is(m, k + 1)
    BY <2>3
  <2>5. \E e : Is(e, k + 1)
    <3> HIDE DEF Is, m
    <3> QED BY <2>4
  <2>6. k + 1 \in Nat
    OBVIOUS
  <2> HIDE DEF Is
  <2> QED BY <2>5, <2>6
<1>3. Ks = Nat
  <2> HIDE DEF Ks
  <2> Ks \in SUBSET Nat BY DEF Ks
  <2> QED BY <1>1, <1>2, SetInduction
<1> DEFINE after == CHOOSE h : Is(h, Len(c))
<1>4. Is(after, Len(c))
  <2> Len(c) \in Ks
    BY <1>3
  <2> QED OBVIOUS
<1>5. TraverseAll(g, s, c) = after[Len(c)]
  BY DEF TraverseAll
<1>6. after[0] = s /\ \A i \in 1 .. Len(c) : after[i] = Traverse(g, after[i - 1], c[i])
  <2> HIDE DEF after
  <2> QED BY <1>4
<1> HIDE DEF after
<1> QED BY <1>5, <1>6 DEF Between

-----------------------------------------------------------------------------
(* The children of a node, one after the other.                            *)

(* Children without the target are passed while it is looked for.          *)
LEMMA ListPast ==
    ASSUME shader \in Shaders, NEW s \in States, NEW n \in DOMAIN T,
           s.op = "TargetUnset",
           \A i \in DOMAIN T[n].c : T[n].c[i] # 0 => NoTarget(s, T[n].c[i]),
           NEW d \in Nat, NEW g, Contract(g, d), Fits(s, n, d + 1)
    PROVE  TraverseAll(g, s, T[n].c) = s
<1> DEFINE c == T[n].c
<1>0. c \in Seq(Nat) /\ Len(c) \in Nat
  BY Nodes
<1>a. PICK after : Between(after, g, s, c)
  <2> HIDE DEF c
  <2> QED BY <1>0, AfterAll
<1>1. /\ after[0] = s
      /\ \A i \in 1 .. Len(c) : after[i] = Traverse(g, after[i - 1], c[i])
      /\ TraverseAll(g, s, c) = after[Len(c)]
  BY <1>a DEF Between
<1> DEFINE D == {k \in Nat : k <= Len(c) => after[k] = s}
<1>2. 0 \in D
  BY <1>1
<1>3. ASSUME NEW k \in D PROVE k + 1 \in D
  <2>1. ASSUME k + 1 <= Len(c) PROVE after[k + 1] = s
    <3>0. k \in Nat
      OBVIOUS
    <3>1. k + 1 \in 1 .. Len(c) /\ k + 1 \in DOMAIN c /\ (k + 1) - 1 = k /\ k <= Len(c)
      <4> HIDE DEF c, D
      <4> QED BY <1>0, <2>1, <3>0
    <3>2. after[k + 1] = Traverse(g, after[k], c[k + 1]) /\ after[k] = s
      BY <1>1, <1>3, <3>1
    <3>3. Traverse(g, s, c[k + 1]) = s
      BY <3>1, ChildPast
    <3> QED BY <3>2, <3>3
  <2> QED BY <2>1
<1>4. D = Nat
  <2> HIDE DEF D
  <2> D \in SUBSET Nat
    BY DEF D
  <2> QED BY <1>2, <1>3, SetInduction
<1> QED BY <1>0, <1>1, <1>4

(* The children of a node are traversed: one of them stops, or all of      *)
(* them are passed, and none is the end of main.                           *)
LEMMA ListOutcome ==
    ASSUME shader \in Shaders, NEW s \in States, NEW n \in Region(Top(s)), n \in DOMAIN T,
           ~HasParts(n), T[n].k # "switch",
           Free(s, n) \/ \E t \in DOMAIN T : t # n /\ Starts(s, n, t),
           NEW d \in Nat, NEW g, Contract(g, d), Fits(s, n, d + 1)
    PROVE  LET r == TraverseAll(g, s, T[n].c)
           IN  \/ Stops(r)
               \/ /\ Free(r, n) /\ r.stack = s.stack
                  /\ Len(T[n].c) # 0 => T[n].c[Len(T[n].c)] \notin {Body, Dummy}
<1> DEFINE c == T[n].c
<1>0. c \in Seq(Nat) /\ Len(c) \in Nat /\ DOMAIN c = 1 .. Len(c)
  BY Nodes
<1>a. PICK after : Between(after, g, s, c)
  <2> HIDE DEF c
  <2> QED BY <1>0, AfterAll
<1>1. /\ after[0] = s
      /\ \A i \in 1 .. Len(c) : after[i] = Traverse(g, after[i - 1], c[i])
      /\ TraverseAll(g, s, c) = after[Len(c)]
  BY <1>a DEF Between
<1> DEFINE Good(k) == \/ Stops(after[k])
                      \/ /\ Free(after[k], n) /\ after[k].stack = s.stack
                         /\ k # 0 => c[k] \notin {Body, Dummy}
<1>2. ASSUME NEW k \in Nat, k + 1 \in DOMAIN c, Good(k) PROVE Good(k + 1)
  <2>1. after[k + 1] = Traverse(g, after[k], c[k + 1])
    BY <1>0, <1>1, <1>2
  <2>2. CASE Stops(after[k])
    <3>1. after[k].op = "Done"
      BY <2>2 DEF Stops
    <3>2. after[k + 1] = after[k]
      BY <2>1, <3>1 DEF Traverse, Looking
    <3> QED BY <2>2, <3>2
  <2>3. CASE Free(after[k], n) /\ after[k].stack = s.stack
    <3> DEFINE u == after[k]
    <3>1. u \in States /\ u.op = "TargetSet"
      BY <2>3 DEF Free, On
    <3>2. Busy(u, n, k + 1)
      BY <2>3, Whole
    <3>3. Weight(u) <= Weight(s)
      BY <2>3, <3>1, Weights
    <3>4. Fits(u, n, d + 1)
      BY <3>1, <3>3, FitsLess
    <3> HIDE DEF u
    <3>5. LET r == Traverse(g, u, T[n].c[k + 1])
          IN  \/ Stops(r)
              \/ /\ Busy(r, n, k + 1) /\ r.op = "TargetSet" /\ r.stack = u.stack
                 /\ T[n].c[k + 1] \notin {Body, Dummy}
      BY <1>2, <3>1, <3>2, <3>4, ChildSet
    <3> QED BY <2>1, <2>3, <3>5, Whole DEF u
  <2> QED BY <1>2, <2>2, <2>3
<1>3. ASSUME NEW i \in 0 .. Len(c), Good(i) PROVE Good(Len(c))
  <2> DEFINE D == {k \in Nat : i <= k /\ k <= Len(c) => Good(k)}
  <2> HIDE DEF Good
  <2>1. 0 \in D
    BY <1>3, <1>0
  <2>2. ASSUME NEW k \in D PROVE k + 1 \in D
    <3>1. ASSUME i <= k + 1, k + 1 <= Len(c) PROVE Good(k + 1)
      <4> k \in Nat
        OBVIOUS
      <4>1. CASE i = k + 1
        BY <1>3, <4>1
      <4>2. CASE i # k + 1
        <5>1. i <= k /\ k <= Len(c) /\ k + 1 \in DOMAIN c
          BY <1>0, <3>1, <4>2
        <5> QED BY <1>2, <5>1, <2>2
      <4> QED BY <4>1, <4>2
    <3> QED BY <3>1
  <2>3. D = Nat
    <3> HIDE DEF D
    <3> D \in SUBSET Nat
      BY DEF D
    <3> QED BY <2>1, <2>2, SetInduction
  <2>4. Len(c) \in D
    BY <1>0, <2>3
  <2> QED BY <1>0, <2>4
<1>4. CASE Free(s, n)
  <2>1. Good(0)
    BY <1>1, <1>4
  <2>2. Good(Len(c))
    BY <1>0, <1>3, <2>1
  <2> QED BY <1>1, <2>2
<1>5. ASSUME NEW t \in DOMAIN T, t # n, Starts(s, n, t) PROVE Good(Len(c))
  <2>1. PICK i \in DOMAIN c :
           /\ Under(t, c[i]) /\ c[i] # 0 /\ Starts(s, c[i], t) /\ c[i] # Top(s)
           /\ \A j \in DOMAIN c : j # i /\ c[j] # 0 => NoTarget(s, c[j])
    BY <1>5, Inside
  <2> DEFINE D == {k \in Nat : k < i => after[k] = s}
  <2>2. 0 \in D
    BY <1>1
  <2>3. ASSUME NEW k \in D PROVE k + 1 \in D
    <3>1. ASSUME k + 1 < i PROVE after[k + 1] = s
      <4>1. k \in Nat /\ k + 1 \in DOMAIN c /\ (k + 1) - 1 = k /\ k + 1 # i /\ k < i
        BY <1>0, <3>1
      <4>2. after[k + 1] = Traverse(g, after[k], c[k + 1]) /\ after[k] = s
        BY <1>0, <1>1, <2>3, <4>1
      <4>3. s.op = "TargetUnset" /\ (c[k + 1] # 0 => NoTarget(s, c[k + 1]))
        BY <1>5, <2>1, <4>1 DEF Starts
      <4>4. Traverse(g, s, c[k + 1]) = s
        BY <4>1, <4>3, ChildPast
      <4> QED BY <4>2, <4>4
    <3> QED BY <3>1
  <2>4. D = Nat
    <3> HIDE DEF D
    <3> D \in SUBSET Nat
      BY DEF D
    <3> QED BY <2>2, <2>3, SetInduction
  <2>5. i - 1 \in D /\ i \in 1 .. Len(c) /\ i - 1 < i
    BY <1>0, <2>4
  <2>6. after[i] = Traverse(g, s, c[i])
    BY <1>1, <2>5
  <2>7. \/ Stops(after[i])
        \/ /\ Busy(after[i], n, i) /\ after[i].op = "TargetSet" /\ after[i].stack = s.stack
           /\ c[i] \notin {Body, Dummy}
    BY <2>1, <2>6, ChildUnset
  <2>8. Good(i)
    BY <2>7, Whole
  <2> QED BY <1>0, <1>3, <2>5, <2>8
<1> QED BY <1>1, <1>4, <1>5

-----------------------------------------------------------------------------
(* Stopping at a node and leaving it.                                      *)

(* Copying changeables leaves a search as it is.                           *)
LEMMA SameFree ==
    ASSUME shader \in Shaders, NEW s, NEW n, NEW r, Free(s, n), Same(r, s)
    PROVE  Free(r, n) /\ r.stack = s.stack
<1>1. On(r, n)
  BY StillOn DEF Free, Same
<1> QED BY <1>1 DEF Free, Same, Quiet

(* A state is a stop that differs from one at n in what makes n the        *)
(* target.                                                                 *)
LEMMA StopsHere ==
    ASSUME shader \in Shaders, NEW s, NEW n, On(s, n), n # Top(s), NEW r \in States,
           r.stack = s.stack, r.op = "Done", r.res.at = n,
           \A m \in DOMAIN T : m # n => /\ r.mark[m] = s.mark[m]
                                        /\ r.inner[m] = s.inner[m] /\ r.iter[m] = s.iter[m],
           r.mark[n] = "Target", r.inner[n] \in StopStates(n),
           T[n].k # "loop" => r.iter[n] = 0, T[n].k \in StopKinds,
           T[n].k = "branch" => T[n].c[1] # 0,
           r.res.pos # "UNSET", r.res.pos = "DUMMY" <=> T[n].k = "dummy"
    PROVE  Stops(r)
<1>1. On(r, n) /\ Top(r) = Top(s)
  BY StillOn DEF Top
<1> QED BY <1>1 DEF Stops, StopsAt, StopsIn, On

(* A statement without parts takes the mark.                               *)
LEMMA NewStop ==
    ASSUME shader \in Shaders, NEW s, NEW n, Free(s, n), n # Top(s), NEW pos \in Positions,
           T[n].k \in StopKinds \ {"selection", "loop"},
           T[n].k = "branch" => T[n].c[1] # 0,
           pos # "UNSET", pos = "DUMMY" <=> T[n].k = "dummy"
    PROVE  Stops(Stop(s, n, pos))
<1> DEFINE r == Stop(s, n, pos)
<1>0. s \in States /\ On(s, n) /\ Quiet(s, n) /\ n \in Region(Top(s)) /\ Stacked(s)
  BY DEF Free, On, At
<1>1. n \in DOMAIN T
  BY <1>0, Frame
<1>2. /\ r \in States /\ r.mark = [s.mark EXCEPT ![n] = "Target"]
      /\ r.inner = s.inner /\ r.iter = s.iter /\ r.stack = s.stack /\ r.bh = s.bh
      /\ r.op = "Done" /\ r.res.pos = pos /\ r.res.at = n
  BY <1>0, <1>1, Stopped
<1>3. s.mark \in Markings
  BY <1>0, Fields
<1>4. r.mark[n] = "Target" /\ \A m \in DOMAIN T : m # n => r.mark[m] = s.mark[m]
  BY <1>1, <1>2, <1>3 DEF Markings
<1>5. r.inner[n] \in StopStates(n) /\ r.iter[n] = 0
  BY <1>0, <1>2 DEF Quiet, StopStates
<1>6. Stops(r)
  <2> HIDE DEF r
  <2>1. r \in States /\ r.stack = s.stack /\ r.op = "Done" /\ r.res.at = n
        /\ r.mark[n] = "Target" /\ r.res.pos = pos
    BY <1>2, <1>4
  <2>2. \A m \in DOMAIN T : m # n => /\ r.mark[m] = s.mark[m]
                                     /\ r.inner[m] = s.inner[m] /\ r.iter[m] = s.iter[m]
    BY <1>2, <1>4
  <2>3. T[n].k \in StopKinds
    OBVIOUS
  <2>4. r.res.pos # "UNSET" /\ (r.res.pos = "DUMMY" <=> T[n].k = "dummy")
    BY <2>1
  <2> QED BY <1>0, <1>5, <2>1, <2>2, <2>3, <2>4, StopsHere
<1> QED BY <1>6

(* The target n is left: s is still at n, and less calls are ahead.        *)
LEMMA Leaving ==
    ASSUME shader \in Shaders, NEW s, NEW n, Starts(s, n, n)
    PROVE  LET r == Unset(s, n)
           IN  /\ r \in States /\ On(r, n) /\ r.stack = s.stack /\ r.bh = s.bh
               /\ r.op = "TargetSet" /\ r.mark[n] = "None" /\ r.inner[n] = s.inner[n]
               /\ r.iter[n] = s.iter[n]
               /\ Weight(r) = Len(s.stack) /\ Weight(r) <= Weight(s)
<1> DEFINE r == Unset(s, n)
<1>0. s \in States /\ On(s, n) /\ n \in DOMAIN T
  BY Target DEF Starts
<1>2. /\ r \in States /\ r.mark = [s.mark EXCEPT ![n] = "None"]
      /\ r.inner = s.inner /\ r.iter = s.iter /\ r.stack = s.stack /\ r.bh = s.bh
      /\ r.op = "TargetSet"
  BY <1>0, Left_off
<1>3. s.mark \in Markings
  BY <1>0, Fields
<1>4. r.mark[n] = "None" /\ \A m \in DOMAIN T : m # n => r.mark[m] = s.mark[m]
  BY <1>0, <1>2, <1>3 DEF Markings
<1> HIDE DEF r
<1>a. \A m \in DOMAIN T : m # n => /\ r.mark[m] = s.mark[m]
                                   /\ r.inner[m] = s.inner[m] /\ r.iter[m] = s.iter[m]
  BY <1>2, <1>4
<1>5. On(r, n)
  <2>1. On(s, n) /\ r \in States /\ r.stack = s.stack
    BY <1>0, <1>2
  <2> QED BY <2>1, <1>a, StillOn
<1>6. Weight(r) = Len(s.stack) /\ Weight(r) <= Weight(s)
  BY <1>0, <1>2, Weights
<1> QED BY <1>2, <1>4, <1>5, <1>6 DEF r

(* A statement without parts is left: it is free.                          *)
LEMMA LeavingWhole ==
    ASSUME shader \in Shaders, NEW s, NEW n, Starts(s, n, n), ~HasParts(n)
    PROVE  Free(Unset(s, n), n) /\ Unset(s, n).stack = s.stack /\ Unset(s, n).bh = s.bh
<1>1. s.inner[n] = "UNSET" /\ s.iter[n] = 0
  BY Target DEF StopStates, HasParts
<1> QED BY <1>1, Leaving DEF Free, Quiet

(* No other target lies below a target.                                    *)
LEMMA TargetPast ==
    ASSUME shader \in Shaders, NEW s, NEW n, Starts(s, n, n),
           NEW i \in DOMAIN T[n].c, T[n].c[i] # 0
    PROVE  NoTarget(s, T[n].c[i])
<1> DEFINE x == T[n].c[i]
           f == Top(s)
<1>0. s \in States /\ At(s, f, n) /\ n \in DOMAIN T /\ f \in DOMAIN T /\ n \in Region(f)
  BY Target, Frame DEF On, At
<1>1. x \in DOMAIN T /\ n < x /\ x <= End(n) /\ End(x) <= End(n)
  BY <1>0, Children
<1>2. ASSUME NEW m \in Region(x) PROVE s.mark[m] # "Target"
  <2>1. m \in DOMAIN T /\ x <= m /\ m <= End(x)
    BY <1>1, <1>2, Nested DEF Region
  <2> f \in Nat /\ x \in Nat /\ n \in Nat /\ m \in Nat
      /\ End(f) \in Nat /\ End(x) \in Nat /\ End(n) \in Nat
    BY <1>0, <1>1, <2>1, Nodes
  <2> f <= n /\ n <= End(f) /\ End(n) <= End(f)
    BY <1>0, Nested DEF Region
  <2>2. m \in Region(f) /\ m # n
    <3> HIDE DEF f, x
    <3> QED BY <1>1, <2>1 DEF Region
  <2>3. IF Under(n, m) THEN Leads(s, m, n) ELSE Quiet(s, m)
    BY <1>0, <2>2 DEF At
  <2> QED BY <2>3 DEF Leads, Quiet
<1> QED BY <1>2 DEF NoTarget

-----------------------------------------------------------------------------
(* The kinds of nodes.                                                     *)

(* A traversal g that is deep enough for the parts of n.                   *)
Task(g, d, s, n) ==
    s \in States /\ n \in DOMAIN T /\ d \in Nat /\ Fits(s, n, d + 1) /\ Contract(g, d)

(* The node n, which is not the function itself, is to be searched.        *)
Given(s, n) ==
    /\ n \in Region(Top(s)) /\ n # Top(s)
    /\ Free(s, n) \/ \E t \in DOMAIN T : Starts(s, n, t)

(* The children of a node without parts are traversed before it is         *)
(* visited itself.                                                         *)
LEMMA ChildrenFirst ==
    ASSUME shader \in Shaders, NEW g, NEW d, NEW s, NEW n, Task(g, d, s, n), Given(s, n),
           ~HasParts(n), T[n].k # "switch"
    PROVE  LET r == TraverseAll(g, s, T[n].c)
           IN  \/ Stops(r)
               \/ /\ Free(r, n) /\ r.stack = s.stack
                  /\ Len(T[n].c) # 0 => T[n].c[Len(T[n].c)] \notin {Body, Dummy}
               \/ r = s /\ Starts(s, n, n)
<1> s \in States /\ n \in DOMAIN T /\ d \in Nat /\ Fits(s, n, d + 1) /\ Contract(g, d)
  BY DEF Task
<1>1. CASE Starts(s, n, n)
  <2>1. s.op = "TargetUnset"
    BY <1>1 DEF Starts
  <2>2. \A i \in DOMAIN T[n].c : T[n].c[i] # 0 => NoTarget(s, T[n].c[i])
    BY <1>1, TargetPast
  <2>3. TraverseAll(g, s, T[n].c) = s
    BY <2>1, <2>2, ListPast
  <2> QED BY <1>1, <2>3
<1>2. CASE ~Starts(s, n, n)
  <2>1. Free(s, n) \/ \E t \in DOMAIN T : t # n /\ Starts(s, n, t)
    BY <1>2 DEF Given
  <2>2. n \in Region(Top(s))
    BY DEF Given
  <2> QED BY <2>1, <2>2, ListOutcome
<1> QED BY <1>1, <1>2

(* Nodes at which no step stops.                                           *)
LEMMA OtherKinds ==
    ASSUME shader \in Shaders, NEW g, NEW d, NEW s, NEW n, Task(g, d, s, n), Given(s, n),
           T[n].k \notin {"assign", "selection", "loop", "switch", "function", "call", "incr",
                          "dummy"},
           ~(T[n].k = "branch" /\ T[n].c[1] # 0)
    PROVE  Outcome(Visit(g, s, n), s, n)
<1> DEFINE r == TraverseAll(g, s, T[n].c)
<1>0. n \in DOMAIN T
  BY DEF Task
<1>1. ~Starts(s, n, n)
  BY Target DEF StopKinds
<1>2. \/ Stops(r)
      \/ /\ Free(r, n) /\ r.stack = s.stack
         /\ Len(T[n].c) # 0 => T[n].c[Len(T[n].c)] \notin {Body, Dummy}
  BY <1>1, ChildrenFirst DEF HasParts
<1>3. Visit(g, s, n) = IF T[n].k = "builtin" /\ r.op = "TargetSet" THEN Copy(r, Known.flags[n]) ELSE r
  BY DEF Visit
<1> HIDE DEF r
<1>4. CASE Stops(r)
  <2> r.op = "Done"
    BY <1>4 DEF Stops
  <2> QED BY <1>3, <1>4 DEF Outcome
<1>5. CASE ~Stops(r)
  <2>1. n # Body
    BY <1>2, <1>5, EndOfMain DEF Dummy
  <2>2. n # Dummy
    BY <1>0, EndOfMain
  <2>3. r \in States /\ Known.flags[n] \in SUBSET STRING
    BY <1>0, <1>2, <1>5, Noted DEF Free, On
  <2>4. Same(Copy(r, Known.flags[n]), r)
    BY <2>3, Copied
  <2>5. Free(Copy(r, Known.flags[n]), n) /\ Copy(r, Known.flags[n]).stack = s.stack
    BY <1>2, <1>5, <2>4, SameFree
  <2> QED BY <1>2, <1>3, <1>5, <2>1, <2>2, <2>5 DEF Outcome
<1> QED BY <1>4, <1>5

(* Switches are not entered.                                               *)
LEMMA Switches ==
    ASSUME shader \in Shaders, NEW g, NEW d, NEW s, NEW n, Task(g, d, s, n), Given(s, n),
           T[n].k = "switch"
    PROVE  Outcome(Visit(g, s, n), s, n)
<1>0. n \in DOMAIN T
  BY DEF Task
<1>1. \A t \in DOMAIN T : ~Starts(s, n, t)
  <2> SUFFICES ASSUME NEW t \in DOMAIN T, Starts(s, n, t) PROVE FALSE
    OBVIOUS
  <2>1. t # n
    BY Target DEF StopKinds
  <2> QED BY <2>1, Inside
<1>2. Free(s, n)
  BY <1>1 DEF Given
<1>3. Visit(g, s, n) = s
  BY DEF Visit
<1> QED BY <1>0, <1>2, <1>3, EndOfMain DEF Outcome

(* The end of main is a sequence and the dummy.                            *)
LEMMA NotLast ==
    ASSUME shader \in Shaders, NEW n \in DOMAIN T, T[n].k \notin {"sequence", "dummy"}
    PROVE  n \notin {Body, Dummy}
BY EndOfMain

(* Branches, and the dummy.                                                *)
LEMMA Debugable ==
    ASSUME shader \in Shaders, NEW g, NEW d, NEW s, NEW n, Task(g, d, s, n), Given(s, n),
           T[n].k = "dummy" \/ (T[n].k = "branch" /\ T[n].c[1] # 0)
    PROVE  Outcome(Visit(g, s, n), s, n)
<1> DEFINE r == TraverseAll(g, s, T[n].c)
<1>0. n \in DOMAIN T /\ s \in States
  BY DEF Task
<1>1. \/ Stops(r)
      \/ (Free(r, n) /\ r.stack = s.stack)
      \/ (r = s /\ Starts(s, n, n))
  BY ChildrenFirst DEF HasParts
<1>2. Visit(g, s, n) = ProcessDebugable(r, n)
  BY DEF Visit
<1> HIDE DEF r
<1>3. CASE Stops(r)
  <2>1. r.op = "Done"
    BY <1>3 DEF Stops
  <2> QED BY <1>2, <1>3, <2>1 DEF ProcessDebugable, Outcome
<1>4. CASE Free(r, n) /\ r.stack = s.stack
  <2>1. r.op = "TargetSet" /\ r.mark[n] = "None"
    BY <1>4 DEF Free, Quiet
  <2>2. ProcessDebugable(r, n) = Stop(r, n, Position(n))
    BY <2>1 DEF ProcessDebugable
  <2>3. Position(n) \in Positions /\ Position(n) # "UNSET"
        /\ (Position(n) = "DUMMY" <=> T[n].k = "dummy")
    BY DEF Position, Positions
  <2>4. n # Top(r)
    BY <1>4 DEF Given, Top
  <2>5. Stops(Stop(r, n, Position(n)))
    BY <1>4, <2>3, <2>4, NewStop DEF StopKinds
  <2> QED BY <1>2, <2>2, <2>5 DEF Outcome
<1>5. CASE r = s /\ Starts(s, n, n)
  <2>1. s.op = "TargetUnset" /\ s.mark[n] = "Target" /\ T[n].k # "dummy"
    BY <1>5, Target DEF Starts
  <2>2. ProcessDebugable(r, n) = Unset(s, n)
    BY <1>5, <2>1 DEF ProcessDebugable
  <2>3. Free(Unset(s, n), n) /\ Unset(s, n).stack = s.stack
    BY <1>5, LeavingWhole DEF HasParts
  <2>4. n \notin {Body, Dummy}
    BY <1>0, <2>1, NotLast
  <2> QED BY <1>2, <2>2, <2>3, <2>4 DEF Outcome
<1> QED BY <1>1, <1>3, <1>4, <1>5

-----------------------------------------------------------------------------
(* Calls.                                                                    *)

(* A stop depends on the marks only.                                       *)
LEMMA SameStop ==
    ASSUME NEW s, NEW r, r.mark = s.mark, r.inner = s.inner, r.iter = s.iter, NEW f, NEW t,
           StopsIn(s, f, t)
    PROVE  StopsIn(r, f, t)
BY DEF StopsIn, At, Leads, Quiet

(* What is called in a function is defined.                                *)
LEMMA Called ==
    ASSUME shader \in Shaders, NEW n \in DOMAIN T, T[n].k = "call", NEW f \in Functions(T),
           n \in Region(f)
    PROVE  FunctionNamed(T, T[n].f) # 0 /\ FunctionNamed(T, T[n].f) \in Functions(T)
<1>1. PICK rank \in [Functions(T) -> 1 .. Len(T)] :
        \A x \in Functions(T), m \in DOMAIN T :
           m \in x .. Known.end[x] /\ T[m].k = "call" => FunctionNamed(T, T[m].f) # 0
  BY Formed DEF Callable
<1>2. FunctionNamed(T, T[n].f) # 0
  BY <1>1 DEF Region, End
<1> QED BY <1>2, Named

(* What entering a function does.                                          *)
LEMMA Pushed ==
    ASSUME shader \in Shaders, NEW s \in States, NEW f \in Functions(T)
    PROVE  LET r == Entered(s, f)
           IN  /\ r \in States /\ r.mark = s.mark /\ r.inner = s.inner /\ r.iter = s.iter
               /\ r.stack = <<f>> \o s.stack /\ r.op = "TargetSet"
<1> DEFINE stack == <<f>> \o s.stack
           u == [s EXCEPT !.stack = stack, !.op = "TargetSet"]
<1>1. stack \in Stacks
  BY Fields DEF Stacks
<1>2. "TargetSet" \in Operations
  BY DEF Operations
<1> HIDE DEF stack
<1>3. /\ u \in States /\ u.mark = s.mark /\ u.inner = s.inner /\ u.iter = s.iter
      /\ u.stack = stack /\ u.op = "TargetSet"
  BY <1>1, <1>2 DEF States
<1>4. f \in DOMAIN T
  BY DEF Functions
<1>5. Known.param[f] \in SUBSET STRING
  BY <1>4, Noted
<1>6. Entered(s, f) = Copy(u, Known.param[f])
  BY DEF Entered, stack
<1> HIDE DEF u
<1>7. Same(Entered(s, f), u)
  BY <1>3, <1>5, <1>6, Copied
<1> QED BY <1>3, <1>7 DEF Same, stack

(* A call enters its function, which is not on the parse stack: the        *)
(* function is free, and the call waits.                                   *)
LEMMA Entering ==
    ASSUME shader \in Shaders, NEW s, NEW n, NEW f, Starts(s, n, n), CallsTo(n, f), f # 0,
           f \in Functions(T)
    PROVE  /\ Entered(s, f) \in States /\ Free(Entered(s, f), f) /\ Top(Entered(s, f)) = f
           /\ Entered(s, f).stack = <<f>> \o s.stack
<1> DEFINE e == Entered(s, f)
           L == Len(s.stack)
<1>0. s \in States /\ Stacked(s) /\ StopsIn(s, Top(s), n) /\ n \in Region(Top(s))
  BY DEF Starts, StopsAt
<1>1. /\ e \in States /\ e.mark = s.mark /\ e.inner = s.inner /\ e.iter = s.iter
      /\ e.stack = <<f>> \o s.stack /\ e.op = "TargetSet"
  BY <1>0, Pushed
<1>2. s.stack \in Seq(Functions(T)) /\ L \in Nat /\ 1 <= L
  BY <1>0, Ranked, Fields DEF Stacks
<1>3. /\ Len(e.stack) = L + 1 /\ e.stack[1] = f /\ e.stack # <<>>
      /\ \A i \in 1 .. L : e.stack[i + 1] = s.stack[i]
  BY <1>1, <1>2
<1> HIDE DEF e
<1>4. e.stack[Len(e.stack)] = Main
  BY <1>0, <1>2, <1>3 DEF Stacked
<1>5. ASSUME NEW i \in 2 .. Len(e.stack)
      PROVE  \E t \in Region(e.stack[i]) : StopsIn(e, e.stack[i], t) /\ CallsTo(t, e.stack[i - 1])
  <2>0. i \in Nat /\ i - 1 \in 1 .. L /\ (i - 1) + 1 = i
    <3> i \in 2 .. L + 1
      BY <1>3
    <3> HIDE DEF L
    <3> QED BY <1>2
  <2>1. e.stack[i] = s.stack[i - 1]
    BY <1>3, <2>0
  <2>2. CASE i = 2
    <3>1. e.stack[i] = Top(s) /\ e.stack[i - 1] = f
      BY <1>3, <2>1, <2>2 DEF Top
    <3>2. StopsIn(e, Top(s), n)
      BY <1>0, <1>1, SameStop
    <3> QED BY <1>0, <3>1, <3>2
  <2>3. CASE i # 2
    <3>0. i - 1 \in 2 .. L /\ i - 2 \in 1 .. L /\ (i - 2) + 1 = i - 1 /\ (i - 1) - 1 = i - 2
      <4> HIDE DEF L
      <4> QED BY <1>2, <2>0, <2>3
    <3>1. PICK t \in Region(s.stack[i - 1]) :
             StopsIn(s, s.stack[i - 1], t) /\ CallsTo(t, s.stack[i - 2])
      BY <1>0, <3>0 DEF Stacked
    <3>2. e.stack[i - 1] = s.stack[i - 2]
      BY <1>3, <3>0
    <3>3. StopsIn(e, s.stack[i - 1], t)
      BY <1>1, <3>1, SameStop
    <3> QED BY <2>1, <3>1, <3>2, <3>3
  <2> QED BY <2>2, <2>3
<1>6. ASSUME NEW m \in DOMAIN T, \A i \in 1 .. Len(e.stack) : m \notin Region(e.stack[i])
      PROVE  Quiet(s, m)
  <2>1. ASSUME NEW i \in 1 .. L PROVE m \notin Region(s.stack[i])
    <3>1. i + 1 \in 1 .. Len(e.stack)
      <4> HIDE DEF L
      <4> QED BY <1>2, <1>3
    <3> QED BY <1>3, <1>6, <3>1
  <2> QED BY <1>0, <2>1 DEF Stacked
<1>7. Stacked(e)
  <2>1. \A m \in DOMAIN T : (\A i \in 1 .. Len(e.stack) : m \notin Region(e.stack[i])) => Quiet(e, m)
    BY <1>1, <1>6 DEF Quiet
  <2> QED BY <1>3, <1>4, <1>5, <2>1 DEF Stacked
<1>8. ASSUME NEW m \in Region(f) PROVE m \in DOMAIN T /\ Quiet(e, m)
  <2>0. f \in DOMAIN T /\ m \in DOMAIN T
    BY <1>8, NoneInside DEF Functions
  <2>1. ASSUME NEW i \in 1 .. L PROVE m \notin Region(s.stack[i])
    <3>1. s.stack[i] \in Functions(T)
      BY <1>2
    <3>2. i + 1 \in 1 .. Len(e.stack) /\ 1 \in 1 .. Len(e.stack) /\ 1 < i + 1
      <4> HIDE DEF L
      <4> QED BY <1>2, <1>3
    <3>3. s.stack[i] # f
      BY <1>1, <1>3, <1>7, <3>2, Ranked
    <3> QED BY <2>0, <3>1, <3>3, Separate
  <2>2. Quiet(s, m)
    BY <1>0, <2>0, <2>1 DEF Stacked
  <2> QED BY <1>1, <2>0, <2>2 DEF Quiet
<1>9. f \in DOMAIN T /\ f \in Region(f)
  BY Nested, Nodes DEF Region, Functions
<1>10. At(e, f, f)
  <2>1. ASSUME NEW m \in Region(f) \ {f} PROVE ~Under(f, m)
    <3> m \in DOMAIN T /\ m \in Nat /\ f \in Nat
      BY <1>8, <1>9, Nodes
    <3> QED BY <2>1 DEF Under, Region
  <2> QED BY <1>8, <1>9, <2>1 DEF At
<1>11. Top(e) = f
  BY <1>3 DEF Top
<1> QED BY <1>1, <1>7, <1>8, <1>9, <1>10, <1>11 DEF Free, On, e

(* The step into, behind or over a call (DBG_BH_JUMPINTO,                  *)
(* finishedDbgFunction).                                                   *)
LEMMA CallLeft ==
    ASSUME shader \in Shaders, NEW g, NEW d, NEW s, NEW n, Task(g, d, s, n), Given(s, n),
           T[n].k = "call", Starts(s, n, n)
    PROVE  Outcome(LeaveCall(g, s, n), s, n)
<1> DEFINE f    == FunctionNamed(T, T[n].f)
           over == Unset(s, n)
<1>0. n \in DOMAIN T /\ s \in States /\ Stacked(s) /\ n \in Region(Top(s)) /\ d \in Nat
      /\ Fits(s, n, d + 1) /\ Contract(g, d) /\ s.op = "TargetUnset"
  BY DEF Task, Given, Starts, StopsAt
<1>1. CASE s.bh = "INTO"
  <2> DEFINE e == Entered(s, f)
  <2>1. f # 0 /\ f \in Functions(T) /\ f \in DOMAIN T
    BY <1>0, Frame, Called DEF Functions
  <2>2. e \in States /\ Free(e, f) /\ Top(e) = f /\ e.stack = <<f>> \o s.stack
    BY <2>1, Entering DEF CallsTo
  <2>3. e.op = "TargetSet"
    BY <2>2 DEF Free
  <2>4. LeaveCall(g, s, n) = PassedCall(g[<<e, f>>], n)
    BY <1>1, <2>1, <2>3 DEF LeaveCall, Traverse, Looking
  <2>5. Weight(e) < Weight(s)
    <3> s.stack \in Seq(Functions(T))
      BY <1>0, Fields DEF Stacks
    <3>1. Len(e.stack) = Len(s.stack) + 1 /\ Len(s.stack) \in Nat
      BY <2>1, <2>2
    <3>2. Weight(e) = Len(e.stack)
      BY <2>2, <2>3, Weights
    <3>3. Weight(s) = Len(s.stack) + 2
      BY <1>0, <1>1, Weights
    <3> HIDE DEF e
    <3> QED BY <3>1, <3>2, <3>3
  <2> HIDE DEF e, f
  <2>6. Fits(e, f, d)
    BY <1>0, <2>1, <2>2, <2>5, FitsFunction
  <2>7. Stops(g[<<e, f>>])
    BY <1>0, <2>1, <2>2, <2>6 DEF Contract
  <2>8. PassedCall(g[<<e, f>>], n) = g[<<e, f>>]
    BY <2>7 DEF PassedCall, Stops
  <2> QED BY <2>4, <2>7, <2>8 DEF Outcome
<1>2. CASE s.bh # "INTO"
  <2>1. Free(over, n) /\ over.stack = s.stack
    BY LeavingWhole DEF HasParts
  <2>2. over \in States
    BY <2>1 DEF Free, On
  <2>3. n \notin {Body, Dummy}
    BY <1>0, NotLast
  <2> HIDE DEF over
  <2>4. CASE s.fin
    <3> DEFINE u == [over EXCEPT !.fin = FALSE]
    <3>1. Same(u, over)
      BY <2>2 DEF Same, States
    <3>2. LeaveCall(g, s, n) = Copy(u, Known.param[n])
      BY <1>2, <2>4 DEF LeaveCall, over
    <3> HIDE DEF u
    <3>3. Free(u, n) /\ u.stack = s.stack
      BY <2>1, <3>1, SameFree
    <3>4. u \in States /\ Known.param[n] \in SUBSET STRING
      BY <1>0, <3>3, Noted DEF Free, On
    <3>5. Same(Copy(u, Known.param[n]), u)
      BY <3>4, Copied
    <3>6. Free(Copy(u, Known.param[n]), n) /\ Copy(u, Known.param[n]).stack = s.stack
      BY <3>3, <3>5, SameFree
    <3> QED BY <2>3, <3>2, <3>6 DEF Outcome
  <2>5. CASE ~s.fin
    <3>1. LeaveCall(g, s, n) = Pass(over, n)
      BY <1>2, <2>5 DEF LeaveCall, over
    <3>2. Same(Pass(over, n), over)
      BY <1>0, <2>2, Passed
    <3>3. Free(Pass(over, n), n) /\ Pass(over, n).stack = s.stack
      BY <2>1, <3>2, SameFree
    <3> QED BY <2>3, <3>1, <3>3 DEF Outcome
  <2> QED BY <2>4, <2>5
<1> QED BY <1>1, <1>2

(* The visit of a call keeps the contract if those of its parts do.       *)
LEMMA CallVisited ==
    ASSUME shader \in Shaders, NEW g, NEW d, NEW s, NEW n, Task(g, d, s, n), Given(s, n),
           T[n].k = "call"
    PROVE  Outcome(Visit(g, s, n), s, n)
<1> DEFINE r == TraverseAll(g, s, T[n].c)
<1>1. \/ Stops(r)
      \/ (Free(r, n) /\ r.stack = s.stack)
      \/ (r = s /\ Starts(s, n, n))
  BY ChildrenFirst DEF HasParts
<1>2. Visit(g, s, n) = VisitCall(g, r, n)
  BY DEF Visit
<1> HIDE DEF r
<1>3. CASE Stops(r)
  <2>1. r.op = "Done"
    BY <1>3 DEF Stops
  <2> QED BY <1>2, <1>3, <2>1 DEF VisitCall, Outcome
<1>4. CASE Free(r, n) /\ r.stack = s.stack
  <2>1. r.op = "TargetSet" /\ r.mark[n] = "None"
    BY <1>4 DEF Free, Quiet
  <2>2. VisitCall(g, r, n) = Stop(r, n, "FUNCTION_CALL")
    BY <2>1 DEF VisitCall
  <2>3. "FUNCTION_CALL" \in Positions
    BY DEF Positions
  <2>4. n # Top(r)
    BY <1>4 DEF Given, Top
  <2>5. Stops(Stop(r, n, "FUNCTION_CALL"))
    BY <1>4, <2>3, <2>4, NewStop DEF StopKinds
  <2> QED BY <1>2, <2>2, <2>5 DEF Outcome
<1>5. CASE r = s /\ Starts(s, n, n)
  <2>1. s.op = "TargetUnset" /\ s.mark[n] = "Target"
    BY <1>5, Target DEF Starts
  <2>2. VisitCall(g, r, n) = LeaveCall(g, s, n)
    BY <1>5, <2>1 DEF VisitCall
  <2> QED BY <1>2, <1>5, <2>2, CallLeft
<1> QED BY <1>1, <1>3, <1>4, <1>5

-----------------------------------------------------------------------------
(* Increments and assignments.                                             *)

(* The traversal of n has stopped, or is still in n.                       *)
Goes(r, s, n) == Stops(r) \/ (Free(r, n) /\ r.stack = s.stack)

(* It goes on with a child of n.                                           *)
LEMMA GoesOn ==
    ASSUME shader \in Shaders, NEW g, NEW d, NEW s, NEW n, Task(g, d, s, n),
           ~HasParts(n), T[n].k # "switch", NEW u, Goes(u, s, n), NEW i \in DOMAIN T[n].c
    PROVE  Goes(Traverse(g, u, T[n].c[i]), s, n)
<1> s \in States /\ n \in DOMAIN T /\ d \in Nat /\ Fits(s, n, d + 1) /\ Contract(g, d)
  BY DEF Task
<1>1. CASE Stops(u)
  <2> Traverse(g, u, T[n].c[i]) = u
    BY <1>1 DEF Stops, Traverse, Looking
  <2> QED BY <1>1 DEF Goes
<1>2. CASE Free(u, n) /\ u.stack = s.stack
  <2>1. u \in States /\ u.op = "TargetSet"
    BY <1>2 DEF Free, On
  <2>2. Busy(u, n, i)
    BY <1>2, Whole
  <2>3. Weight(u) <= Weight(s)
    BY <1>2, <2>1, Weights
  <2>4. Fits(u, n, d + 1)
    BY <2>1, <2>3, FitsLess
  <2>5. LET r == Traverse(g, u, T[n].c[i])
        IN  \/ Stops(r)
            \/ /\ Busy(r, n, i) /\ r.op = "TargetSet" /\ r.stack = u.stack
               /\ T[n].c[i] \notin {Body, Dummy}
    BY <2>1, <2>2, <2>4, ChildSet
  <2> QED BY <1>2, <2>5, Whole DEF Goes
<1> QED BY <1>1, <1>2 DEF Goes

(* It is not changed by the changeables of what was passed.                *)
LEMMA GoesCopied ==
    ASSUME shader \in Shaders, NEW s, NEW n, NEW u, Goes(u, s, n), NEW S \in SUBSET STRING
    PROVE  Goes(IF u.op = "TargetSet" THEN Copy(u, S) ELSE u, s, n)
<1>1. CASE Stops(u)
  BY <1>1 DEF Stops, Goes
<1>2. CASE Free(u, n) /\ u.stack = s.stack
  <2>1. u \in States /\ u.op = "TargetSet"
    BY <1>2 DEF Free, On
  <2>2. Same(Copy(u, S), u)
    BY <2>1, Copied
  <2>3. Free(Copy(u, S), n) /\ Copy(u, S).stack = s.stack
    BY <1>2, <2>2, SameFree
  <2> QED BY <2>1, <2>3 DEF Goes
<1> QED BY <1>1, <1>2 DEF Goes

(* Neither by those of n.                                                  *)
LEMMA GoesPassed ==
    ASSUME shader \in Shaders, NEW s, NEW n \in DOMAIN T, NEW u, Goes(u, s, n)
    PROVE  Goes(PassIfNoStop(u, n), s, n)
<1>1. CASE Stops(u)
  BY <1>1 DEF Stops, Goes, PassIfNoStop
<1>2. CASE Free(u, n) /\ u.stack = s.stack
  <2>1. u \in States /\ u.op = "TargetSet"
    BY <1>2 DEF Free, On
  <2>2. Same(Pass(u, n), u)
    BY <2>1, Passed
  <2>3. Free(Pass(u, n), n) /\ Pass(u, n).stack = s.stack
    BY <1>2, <2>2, SameFree
  <2> QED BY <2>1, <2>3 DEF Goes, PassIfNoStop
<1> QED BY <1>1, <1>2 DEF Goes

(* A statement that is reached takes the mark.                             *)
LEMMA StopsOrUnset ==
    ASSUME shader \in Shaders, NEW s, NEW n, Goes(s, s, n), n # Top(s),
           T[n].k \in {"assign", "incr", "branch", "dummy"}, T[n].k = "branch" => T[n].c[1] # 0
    PROVE  Stops(ProcessDebugable(s, n))
<1>1. CASE Stops(s)
  <2>1. s.op = "Done"
    BY <1>1 DEF Stops
  <2> QED BY <1>1, <2>1 DEF ProcessDebugable
<1>2. CASE Free(s, n)
  <2>1. s.op = "TargetSet" /\ s.mark[n] = "None"
    BY <1>2 DEF Free, Quiet
  <2>2. ProcessDebugable(s, n) = Stop(s, n, Position(n))
    BY <2>1 DEF ProcessDebugable
  <2>3. Position(n) \in Positions /\ Position(n) # "UNSET"
        /\ (Position(n) = "DUMMY" <=> T[n].k = "dummy")
    BY DEF Position, Positions
  <2>5. Stops(Stop(s, n, Position(n)))
    BY <1>2, <2>3, NewStop DEF StopKinds
  <2> QED BY <2>2, <2>5
<1> QED BY <1>1, <1>2 DEF Goes

(* Increments, visited behind their operands.                              *)
LEMMA Increments ==
    ASSUME shader \in Shaders, NEW g, NEW d, NEW s, NEW n, Task(g, d, s, n), Given(s, n),
           T[n].k = "incr"
    PROVE  Outcome(Visit(g, s, n), s, n)
<1> DEFINE r == TraverseAll(g, s, T[n].c)
<1>0. n \in DOMAIN T /\ s \in States
  BY DEF Task
<1>1. \/ Goes(r, s, n)
      \/ (r = s /\ Starts(s, n, n))
  BY ChildrenFirst DEF HasParts, Goes
<1>2. Visit(g, s, n) = VisitIncr(g, r, n)
  BY DEF Visit
<1>n. n \notin {Body, Dummy}
  BY <1>0, NotLast
<1> HIDE DEF r
<1>3. CASE Goes(r, s, n)
  <2>1. r.op # "TargetUnset"
    BY <1>3 DEF Goes, Stops, Free
  <2>2. VisitIncr(g, r, n) = ProcessDebugable(r, n)
    BY <2>1 DEF VisitIncr
  <2>3. CASE Stops(r)
    <3>1. r.op = "Done"
      BY <2>3 DEF Stops
    <3> QED BY <1>2, <2>2, <2>3, <3>1 DEF ProcessDebugable, Outcome
  <2>4. CASE Free(r, n) /\ r.stack = s.stack
    <3>1. Goes(r, r, n) /\ n # Top(r)
      BY <2>4 DEF Goes, Given, Top
    <3>2. Stops(ProcessDebugable(r, n))
      BY <3>1, StopsOrUnset
    <3> QED BY <1>2, <2>2, <3>2 DEF Outcome
  <2> QED BY <1>3, <2>3, <2>4 DEF Goes
<1>4. CASE r = s /\ Starts(s, n, n)
  <2> DEFINE u == Unset(s, n)
  <2>0. s.op = "TargetUnset" /\ s.mark[n] = "Target"
    BY <1>4, Target DEF Starts
  <2>1. Goes(u, s, n) /\ u.op = "TargetSet"
    BY <1>4, LeavingWhole, Leaving DEF Goes, HasParts
  <2> HIDE DEF u
  <2>2. CASE s.bh = "INTO"
    <3>1. VisitIncr(g, r, n) = PassIfNoStop(Traverse(g, u, T[n].c[1]), n)
      BY <1>4, <2>0, <2>2 DEF VisitIncr, u, Left
    <3>2. T[n].c \in Seq(Nat) /\ Len(T[n].c) = 1
      BY <1>0, Nodes, Shapes
    <3>3. 1 \in DOMAIN T[n].c
      BY <3>2
    <3>4. Goes(Traverse(g, u, T[n].c[1]), s, n)
      BY <2>1, <3>3, GoesOn DEF HasParts
    <3>5. Goes(VisitIncr(g, r, n), s, n)
      BY <1>0, <3>1, <3>4, GoesPassed
    <3> QED BY <1>2, <1>n, <3>5 DEF Goes, Outcome
  <2>3. CASE s.bh # "INTO"
    <3>1. VisitIncr(g, r, n) = PassIfNoStop(u, n)
      BY <1>4, <2>0, <2>1, <2>3 DEF VisitIncr, u, PassIfNoStop
    <3>2. Goes(VisitIncr(g, r, n), s, n)
      BY <1>0, <2>1, <3>1, GoesPassed
    <3> QED BY <1>2, <1>n, <3>2 DEF Goes, Outcome
  <2> QED BY <2>2, <2>3
<1> QED BY <1>1, <1>3, <1>4

(* Assignments, visited before their operands.                             *)
LEMMA Assignments ==
    ASSUME shader \in Shaders, NEW g, NEW d, NEW s, NEW n, Task(g, d, s, n), Given(s, n),
           T[n].k = "assign"
    PROVE  Outcome(Visit(g, s, n), s, n)
<1> DEFINE right(a) == Traverse(g, a, T[n].c[2])
           left(a)  == Traverse(g, a, T[n].c[1])
<1>0. n \in DOMAIN T /\ s \in States /\ d \in Nat /\ Fits(s, n, d + 1) /\ Contract(g, d)
      /\ n \in Region(Top(s)) /\ n # Top(s)
  BY DEF Task, Given
<1>1. Visit(g, s, n) = TraverseAssign(g, s, n)
  BY DEF Visit
<1>2. n \notin {Body, Dummy} /\ ~HasParts(n)
  BY <1>0, NotLast DEF HasParts
<1>3. T[n].c \in Seq(Nat) /\ Len(T[n].c) = 2 /\ T[n].c[1] # 0 /\ T[n].c[2] # 0
  BY <1>0, Nodes, Shapes
<1>4. DOMAIN T[n].c = {1, 2}
  BY <1>3
<1>5. ASSUME NEW u, Goes(u, s, n) PROVE Goes(right(u), s, n) /\ Goes(left(u), s, n)
  BY <1>2, <1>4, <1>5, GoesOn
<1>6. CASE Free(s, n)
  <2>1. s.op = "TargetSet"
    BY <1>6 DEF Free
  <2>2. Visit(g, s, n) = ProcessDebugable(s, n)
    BY <1>1, <2>1 DEF TraverseAssign
  <2>3. Stops(ProcessDebugable(s, n))
    BY <1>0, <1>6, StopsOrUnset DEF Goes
  <2> QED BY <2>2, <2>3 DEF Outcome
<1>7. CASE Starts(s, n, n)
  <2> DEFINE u == Unset(s, n)
  <2>0. s.op = "TargetUnset" /\ s.mark[n] = "Target"
    BY <1>7, Target DEF Starts
  <2>1. Goes(u, s, n) /\ u.op = "TargetSet"
    BY <1>2, <1>7, LeavingWhole, Leaving DEF Goes
  <2> HIDE DEF u
  <2>2. CASE s.bh = "INTO"
    <3>1. Visit(g, s, n) = PassIfNoStop(left(right(u)), n)
      BY <1>1, <2>0, <2>2 DEF TraverseAssign, u, Left, Right
    <3>2. Goes(left(right(u)), s, n)
      <4>1. Goes(right(u), s, n)
        BY <1>5, <2>1
      <4> QED BY <1>5, <4>1
    <3>3. Goes(Visit(g, s, n), s, n)
      BY <1>0, <3>1, <3>2, GoesPassed
    <3> QED BY <1>2, <3>3 DEF Goes, Outcome
  <2>3. CASE s.bh # "INTO"
    <3>1. Visit(g, s, n) = PassIfNoStop(u, n)
      BY <1>1, <2>0, <2>1, <2>3 DEF TraverseAssign, u, PassIfNoStop
    <3>2. Goes(Visit(g, s, n), s, n)
      BY <1>0, <2>1, <3>1, GoesPassed
    <3> QED BY <1>2, <3>2 DEF Goes, Outcome
  <2> QED BY <2>2, <2>3
<1>8. ASSUME NEW t \in DOMAIN T, t # n, Starts(s, n, t) PROVE Outcome(Visit(g, s, n), s, n)
  <2>0. s.op = "TargetUnset"
    BY <1>8 DEF Starts
  <2>1. PICK i \in DOMAIN T[n].c :
           /\ T[n].c[i] # 0 /\ Starts(s, T[n].c[i], t) /\ T[n].c[i] # Top(s)
           /\ \A j \in DOMAIN T[n].c : j # i /\ T[n].c[j] # 0 => NoTarget(s, T[n].c[j])
    BY <1>8, Inside
  <2>2. s.mark[n] = "None"
    BY <1>8, Inside
  <2>3. LET r == Traverse(g, s, T[n].c[i])
        IN  \/ Stops(r)
            \/ /\ Busy(r, n, i) /\ r.op = "TargetSet" /\ r.stack = s.stack
               /\ T[n].c[i] \notin {Body, Dummy}
    BY <1>0, <2>1, ChildUnset
  <2>4. Goes(Traverse(g, s, T[n].c[i]), s, n)
    BY <1>2, <2>3, Whole DEF Goes
  <2>5. Goes(left(right(s)), s, n)
    <3>1. CASE i = 1
      <4>1. right(s) = s
        BY <1>0, <1>4, <2>0, <2>1, <3>1, ChildPast
      <4> QED BY <2>4, <3>1, <4>1
    <3>2. CASE i = 2
      BY <1>5, <2>4, <3>2
    <3> QED BY <1>4, <3>1, <3>2
  <2> DEFINE w == left(right(s))
             S == Known.left[n] \cup Known.flags[Left(T, n)]
  <2>6. Visit(g, s, n) = PassLeft(w, n)
    BY <1>1, <2>0, <2>2 DEF TraverseAssign, Left, Right
  <2>7. T[n].c[1] \in DOMAIN T
    BY <1>0, <1>3, <1>4, Children
  <2>8. S \in SUBSET STRING
    BY <1>0, <2>7, Noted DEF Left
  <2>9. PassLeft(w, n) = IF w.op = "TargetSet" THEN Copy(w, S) ELSE w
    BY DEF PassLeft
  <2> HIDE DEF w, S
  <2>10. Goes(Visit(g, s, n), s, n)
    BY <2>5, <2>6, <2>8, <2>9, GoesCopied DEF w
  <2> QED BY <1>2, <2>10 DEF Goes, Outcome
<1> QED BY <1>6, <1>7, <1>8 DEF Given

-----------------------------------------------------------------------------
(* Selections and loops: the stages.                                       *)

(* The answer of a visit holds the state.                                  *)
LEMMA StageFields ==
    ASSUME NEW a
    PROVE  Go(a).s = a /\ NoGo(a).s = a
BY DEF Go, NoGo

(* A node that is not in one of the states of a stage is not visited in    *)
(* it.                                                                     *)
LEMMA StageSkipped ==
    ASSUME NEW states, NEW g, NEW v, NEW n, v.s.inner[n] \notin states
    PROVE  VisitIn(states, g, v, n) = v
BY DEF VisitIn

(* One that is, is.                                                        *)
LEMMA StageVisited ==
    ASSUME NEW states, NEW g, NEW v, NEW n, v.s.inner[n] \in states
    PROVE  /\ T[n].k = "selection" => VisitIn(states, g, v, n) = VisitSelection(g, v.s, n)
           /\ T[n].k = "loop" => VisitIn(states, g, v, n) = VisitLoop(g, v.s, n)
BY DEF VisitIn

(* The part that the node is at work on is traversed unless the visit      *)
(* said no.                                                                *)
LEMMA StageWork ==
    ASSUME NEW g, NEW a, NEW n, NEW i
    PROVE  /\ a.inner[n] = Works(n)[i] =>
                Work(g, Go(a), n, i) = Go(Traverse(g, a, T[n].c[i]))
           /\ Work(g, NoGo(a), n, i) = NoGo(a)
BY DEF Work, Go, NoGo

(* No other part is.                                                       *)
LEMMA StageIdle ==
    ASSUME NEW g, NEW v, NEW n, NEW i, v.s.inner[n] # Works(n)[i]
    PROVE  Work(g, v, n, i) = v
BY DEF Work

(* When the step is done the stages that are left do nothing.              *)
LEMMA StageOver ==
    ASSUME NEW states, NEW g, NEW a, NEW v \in {Go(a), NoGo(a)}, NEW n, NEW i, a.op = "Done",
           T[n].k \in {"selection", "loop"}
    PROVE  /\ VisitIn(states, g, v, n) \in {Go(a), NoGo(a)}
           /\ Work(g, v, n, i) = v
           /\ Stage(states, g, v, n, i) \in {Go(a), NoGo(a)}
<1>0. v.s = a
  BY StageFields
<1>1. ASSUME NEW w \in {Go(a), NoGo(a)} PROVE Work(g, w, n, i) = w
  <2>1. Traverse(g, a, T[n].c[i]) = a
    BY DEF Traverse, Looking
  <2>2. w.s = a
    BY StageFields
  <2>3. CASE w = NoGo(a)
    BY <2>3, StageWork
  <2>4. CASE w = Go(a) /\ a.inner[n] = Works(n)[i]
    BY <2>1, <2>4, StageWork
  <2>5. CASE a.inner[n] # Works(n)[i]
    BY <2>2, <2>5, StageIdle
  <2> QED BY <2>3, <2>4, <2>5
<1>2. VisitIn(states, g, v, n) \in {Go(a), NoGo(a)}
  <2>1. VisitSelection(g, a, n) = Go(a)
    BY DEF VisitSelection
  <2>2. VisitLoop(g, a, n) = Go(a)
    BY DEF VisitLoop
  <2>3. CASE a.inner[n] \in states
    <3>1. CASE T[n].k = "selection"
      <4>0. VisitIn(states, g, v, n) = VisitSelection(g, a, n)
        BY <1>0, <2>3, <3>1, StageVisited
      <4> QED BY <2>1, <4>0
    <3>2. CASE T[n].k = "loop"
      <4>0. VisitIn(states, g, v, n) = VisitLoop(g, a, n)
        BY <1>0, <2>3, <3>2, StageVisited
      <4> QED BY <2>2, <4>0
    <3> QED BY <3>1, <3>2
  <2>4. CASE a.inner[n] \notin states
    BY <1>0, <2>4, StageSkipped
  <2> QED BY <2>3, <2>4
<1> QED BY <1>1, <1>2 DEF Stage

(* A selection or loop takes the mark.                                     *)
LEMMA PartStops ==
    ASSUME shader \in Shaders, NEW s, NEW n, On(s, n), n # Top(s), HasParts(n),
           T[n].k # "loop" => s.iter[n] = 0,
           NEW x \in StopStates(n), NEW pos \in Positions, pos \notin {"UNSET", "DUMMY"}
    PROVE  Stops(StopLoop(s, n, x, pos))
<1> DEFINE w == [s EXCEPT !.inner[n] = x]
           r == Stop(w, n, pos)
<1>0. s \in States /\ n \in DOMAIN T
  BY Frame DEF On, At
<1>1. x \in SelectionStates \cup LoopStates
  BY DEF StopStates, SelectionStates, LoopStates, HasParts
<1>2. /\ w \in States /\ w.inner = [s.inner EXCEPT ![n] = x]
      /\ w.mark = s.mark /\ w.iter = s.iter /\ w.stack = s.stack /\ w.bh = s.bh
  BY <1>0, <1>1, Working
<1> HIDE DEF w
<1>3. /\ r \in States /\ r.mark = [w.mark EXCEPT ![n] = "Target"]
      /\ r.inner = w.inner /\ r.iter = w.iter /\ r.stack = w.stack
      /\ r.op = "Done" /\ r.res.pos = pos /\ r.res.at = n
  BY <1>0, <1>2, Stopped
<1> HIDE DEF r
<1>4. s.mark \in Markings /\ s.inner \in Progress
  BY <1>0, Fields
<1>5. /\ r.mark[n] = "Target" /\ r.inner[n] = x /\ r.iter[n] = s.iter[n] /\ r.stack = s.stack
      /\ \A m \in DOMAIN T : m # n => /\ r.mark[m] = s.mark[m]
                                      /\ r.inner[m] = s.inner[m] /\ r.iter[m] = s.iter[m]
  BY <1>0, <1>2, <1>3, <1>4 DEF Markings, Progress
<1>6. T[n].k \in StopKinds /\ T[n].k # "dummy" /\ T[n].k # "branch"
  BY DEF HasParts, StopKinds
<1>7. Stops(r)
  <2>1. r.res.pos # "UNSET" /\ (r.res.pos = "DUMMY" <=> T[n].k = "dummy")
    BY <1>3, <1>6
  <2>2. r.inner[n] \in StopStates(n) /\ (T[n].k # "loop" => r.iter[n] = 0)
    BY <1>5
  <2>3. T[n].k \in StopKinds /\ (T[n].k = "branch" => T[n].c[1] # 0)
    BY <1>6
  <2>4. r \in States /\ r.stack = s.stack /\ r.op = "Done" /\ r.res.at = n /\ r.mark[n] = "Target"
    BY <1>3, <1>5
  <2>5. \A m \in DOMAIN T : m # n => /\ r.mark[m] = s.mark[m]
                                     /\ r.inner[m] = s.inner[m] /\ r.iter[m] = s.iter[m]
    BY <1>5
  <2> QED BY <2>1, <2>2, <2>3, <2>4, <2>5, StopsHere
<1> QED BY <1>7 DEF StopLoop, r, w

(* It begins its work on a part.                                           *)
LEMMA PartBegun ==
    ASSUME shader \in Shaders, NEW s, NEW n, On(s, n), s.mark[n] = "None", HasParts(n),
           T[n].k # "loop" => s.iter[n] = 0, NEW i \in DOMAIN Works(n), NEW x, x = Works(n)[i]
    PROVE  LET r == [s EXCEPT !.inner[n] = x]
           IN  /\ r \in States /\ Busy(r, n, i) /\ r.op = s.op /\ r.stack = s.stack
               /\ r.bh = s.bh
<1> DEFINE r == [s EXCEPT !.inner[n] = x]
<1>0. s \in States /\ n \in DOMAIN T
  BY Frame DEF On, At
<1>1. x \in SelectionStates \cup LoopStates
  BY <1>0, Parts DEF SelectionStates, LoopStates, HasParts
<1>2. /\ r \in States /\ r.inner = [s.inner EXCEPT ![n] = x] /\ r.op = s.op
      /\ r.mark = s.mark /\ r.iter = s.iter /\ r.stack = s.stack /\ r.bh = s.bh
  BY <1>0, <1>1, Working
<1> HIDE DEF r
<1>3. s.inner \in Progress
  BY <1>0, Fields
<1>4. r.inner[n] = x /\ \A m \in DOMAIN T : m # n => r.inner[m] = s.inner[m]
  BY <1>0, <1>2, <1>3 DEF Progress
<1>5. On(r, n)
  <2>1. \A m \in DOMAIN T : m # n => /\ r.mark[m] = s.mark[m]
                                     /\ r.inner[m] = s.inner[m] /\ r.iter[m] = s.iter[m]
    BY <1>2, <1>4
  <2>2. r \in States /\ r.stack = s.stack
    BY <1>2
  <2> QED BY <2>1, <2>2, StillOn
<1> QED BY <1>2, <1>4, <1>5 DEF Busy, HasParts, r

(* It is left: it starts afresh when it is reached again.                  *)
LEMMA PartsLeft ==
    ASSUME shader \in Shaders, NEW s, NEW n, On(s, n), s.mark[n] = "None", s.op = "TargetSet"
    PROVE  /\ s.iter[n] = 0 => /\ Free([s EXCEPT !.inner[n] = "UNSET"], n)
                               /\ [s EXCEPT !.inner[n] = "UNSET"].stack = s.stack
           /\ Free(LeaveLoop(s, n), n) /\ LeaveLoop(s, n).stack = s.stack
<1>0. s \in States /\ n \in DOMAIN T
  BY Frame DEF On, At
<1>1. s.inner \in Progress /\ s.iter \in LoopCounters
  BY <1>0, Fields
<1>2. ASSUME NEW r \in States, r.inner = [s.inner EXCEPT ![n] = "UNSET"], r.mark = s.mark,
             r.iter[n] = 0, \A m \in DOMAIN T : m # n => r.iter[m] = s.iter[m],
             r.stack = s.stack, r.op = s.op
      PROVE  Free(r, n)
  <2>1. r.inner[n] = "UNSET" /\ \A m \in DOMAIN T : m # n => r.inner[m] = s.inner[m]
    BY <1>0, <1>1, <1>2 DEF Progress
  <2>2. On(r, n)
    <3>1. \A m \in DOMAIN T : m # n => /\ r.mark[m] = s.mark[m]
                                       /\ r.inner[m] = s.inner[m] /\ r.iter[m] = s.iter[m]
      BY <1>2, <2>1
    <3>2. r \in States /\ r.stack = s.stack
      BY <1>2
    <3> QED BY <3>1, <3>2, StillOn
  <2> QED BY <1>2, <2>1, <2>2 DEF Free, Quiet
<1>3. ASSUME s.iter[n] = 0
      PROVE  /\ Free([s EXCEPT !.inner[n] = "UNSET"], n)
             /\ [s EXCEPT !.inner[n] = "UNSET"].stack = s.stack
  <2> DEFINE r == [s EXCEPT !.inner[n] = "UNSET"]
  <2> "UNSET" \in SelectionStates \cup LoopStates
    BY DEF LoopStates
  <2>1. /\ r \in States /\ r.inner = [s.inner EXCEPT ![n] = "UNSET"]
        /\ r.mark = s.mark /\ r.iter = s.iter /\ r.stack = s.stack /\ r.op = s.op
    BY <1>0, Working
  <2> HIDE DEF r
  <2> QED BY <1>2, <1>3, <2>1 DEF r
<1>4. Free(LeaveLoop(s, n), n) /\ LeaveLoop(s, n).stack = s.stack
  <2> DEFINE r == LeaveLoop(s, n)
  <2>1. /\ r \in States /\ r.inner = [s.inner EXCEPT ![n] = "UNSET"]
        /\ r.iter = [s.iter EXCEPT ![n] = 0]
        /\ r.mark = s.mark /\ r.stack = s.stack /\ r.op = s.op
    BY <1>0, LeftLoop
  <2> HIDE DEF r
  <2>2. r.iter[n] = 0 /\ \A m \in DOMAIN T : m # n => r.iter[m] = s.iter[m]
    BY <1>0, <1>1, <2>1 DEF LoopCounters
  <2> QED BY <1>2, <2>1, <2>2 DEF r
<1> QED BY <1>3, <1>4

(* Copying changeables leaves its work as it is.                           *)
LEMMA SameBusy ==
    ASSUME shader \in Shaders, NEW s, NEW n, NEW i, NEW r, Busy(s, n, i), Same(r, s)
    PROVE  Busy(r, n, i) /\ r.stack = s.stack /\ r.op = s.op
<1>1. On(r, n)
  BY StillOn DEF Busy, Same
<1> QED BY <1>1 DEF Busy, Same

(* The part i of n was worked on, and stopped or is done.                  *)
Worked(r, s, n, i) ==
    \/ Stops(r)
    \/ (Busy(r, n, i) /\ r.op = "TargetSet" /\ r.stack = s.stack)

(* The part i of n is to be worked on, with that outcome.                  *)
Pending(g, r, s, n, i) ==
    r.inner[n] = Works(n)[i] /\ Worked(Traverse(g, r, T[n].c[i]), s, n, i)

(* A part without the target is searched for a statement.                  *)
LEMMA PartPending ==
    ASSUME shader \in Shaders, NEW g, NEW d, NEW s, NEW n, Task(g, d, s, n), HasParts(n),
           NEW i \in DOMAIN Works(n), NEW r, Busy(r, n, i), r.op = "TargetSet",
           r.stack = s.stack
    PROVE  Pending(g, r, s, n, i)
<1> s \in States /\ n \in DOMAIN T /\ d \in Nat /\ Fits(s, n, d + 1) /\ Contract(g, d)
  BY DEF Task
<1>1. i \in DOMAIN T[n].c /\ T[n].k # "switch"
  BY Parts DEF HasParts
<1>2. r \in States
  BY DEF Busy, On
<1>3. Weight(r) <= Weight(s)
  BY <1>2, Weights
<1>4. Fits(r, n, d + 1)
  BY <1>2, <1>3, FitsLess
<1>5. Worked(Traverse(g, r, T[n].c[i]), r, n, i)
  BY <1>1, <1>2, <1>4, ChildSet DEF Worked
<1> QED BY <1>5 DEF Pending, Worked, Busy

(* The part that holds the target is searched for it.                      *)
LEMMA TargetPending ==
    ASSUME shader \in Shaders, NEW g, NEW d, NEW s, NEW n, Task(g, d, s, n), Given(s, n),
           HasParts(n), NEW t \in DOMAIN T, t # n, Starts(s, n, t)
    PROVE  s.mark[n] = "None" /\ \E i \in DOMAIN Works(n) : Pending(g, s, s, n, i)
<1> s \in States /\ n \in DOMAIN T /\ d \in Nat /\ Fits(s, n, d + 1) /\ Contract(g, d)
    /\ n \in Region(Top(s))
  BY DEF Task, Given
<1>1. PICK i \in DOMAIN T[n].c :
         /\ T[n].c[i] # 0 /\ Starts(s, T[n].c[i], t) /\ T[n].c[i] # Top(s)
         /\ i \in DOMAIN Works(n) /\ s.inner[n] = Works(n)[i]
  BY Inside
<1>2. Worked(Traverse(g, s, T[n].c[i]), s, n, i)
  BY <1>1, ChildUnset DEF Worked
<1> QED BY <1>1, <1>2, Inside DEF Pending

-----------------------------------------------------------------------------
(* Selections.                                                             *)

(* The node n was passed.                                                  *)
Settled(a, s, n) == Free(a, n) /\ a.stack = s.stack

(* The chosen block of a selection is done.                                *)
LEMMA BlockLeft ==
    ASSUME shader \in Shaders, NEW s, NEW n \in DOMAIN T, T[n].k = "selection", NEW a,
           NEW i \in {2, 3}, Busy(a, n, i), a.op = "TargetSet", a.stack = s.stack
    PROVE  Settled(LeaveBlock(a, n), s, n)
<1> DEFINE other == IF a.inner[n] = "IF" THEN T[n].c[3] ELSE T[n].c[2]
           u == [a EXCEPT !.inner[n] = "UNSET"]
           S == Known.cgb[other] \cup (Known.flags[other] \cap {"EMIT"})
<1>1. On(a, n) /\ a.mark[n] = "None" /\ a.iter[n] = 0
  BY DEF Busy
<1>2. Free(u, n) /\ u.stack = s.stack
  BY <1>1, PartsLeft
<1>3. LeaveBlock(a, n) = IF other = 0 THEN u ELSE Copy(u, S)
  BY DEF LeaveBlock
<1> HIDE DEF u
<1>4. CASE other = 0
  BY <1>2, <1>3, <1>4 DEF Settled
<1>5. CASE other # 0
  <2>1. other \in DOMAIN T
    <3> 2 \in DOMAIN T[n].c /\ 3 \in DOMAIN T[n].c
      BY Parts
    <3> QED BY <1>5, Children
  <2>2. S \in SUBSET STRING
    BY <2>1, Noted
  <2>3. u \in States
    BY <1>2 DEF Free, On
  <2>4. Same(Copy(u, S), u)
    BY <2>2, <2>3, Copied
  <2>5. Free(Copy(u, S), n) /\ Copy(u, S).stack = s.stack
    <3> DEFINE w == Copy(u, S)
    <3>1. Same(w, u)
      BY <2>4
    <3> HIDE DEF w, S
    <3>2. Free(w, n) /\ w.stack = u.stack
      BY <1>2, <3>1, SameFree
    <3> QED BY <1>2, <3>2 DEF w
  <2> QED BY <1>3, <1>5, <2>5 DEF Settled
<1> QED BY <1>4, <1>5

(* The last visit of a selection.                                          *)
LEMMA SelectionEnd ==
    ASSUME shader \in Shaders, NEW g, NEW s, NEW n \in DOMAIN T, T[n].k = "selection",
           NEW a, NEW v \in {Go(a), NoGo(a)},
           Stops(a) \/ Settled(a, s, n) \/ Worked(a, s, n, 2) \/ Worked(a, s, n, 3)
    PROVE  LET r == VisitIn({"IF", "ELSE"}, g, v, n).s
           IN  Stops(r) \/ Settled(r, s, n)
<1> DEFINE w == VisitIn({"IF", "ELSE"}, g, v, n)
<1>0. v.s = a
  BY StageFields
<1>1. CASE Stops(a)
  <2>1. a.op = "Done"
    BY <1>1 DEF Stops
  <2>2. w \in {Go(a), NoGo(a)}
    BY <2>1, StageOver
  <2>3. w.s = a
    BY <2>2, StageFields
  <2> QED BY <1>1, <2>3
<1>2. CASE Settled(a, s, n)
  <2>1. a.inner[n] \notin {"IF", "ELSE"}
    BY <1>2 DEF Settled, Free, Quiet
  <2>2. w = v
    BY <1>0, <2>1, StageSkipped
  <2> QED BY <1>0, <1>2, <2>2
<1>3. ASSUME NEW i \in {2, 3}, Busy(a, n, i), a.op = "TargetSet", a.stack = s.stack
      PROVE  Settled(w.s, s, n)
  <2>1. a.inner[n] \in {"IF", "ELSE"} /\ a.mark[n] = "None"
    BY <1>3, Parts DEF Busy, HasParts
  <2>2. w = VisitSelection(g, a, n)
    BY <1>0, <2>1, StageVisited
  <2>3. VisitSelection(g, a, n) = NoGo(LeaveBlock(a, n))
    BY <1>3, <2>1 DEF VisitSelection
  <2>4. w.s = LeaveBlock(a, n)
    BY <2>2, <2>3, StageFields
  <2>5. Settled(LeaveBlock(a, n), s, n)
    BY <1>3, BlockLeft
  <2> QED BY <2>4, <2>5
<1> QED BY <1>1, <1>2, <1>3 DEF Worked

(* From the false block on.                                                *)
LEMMA SelectionNo ==
    ASSUME shader \in Shaders, NEW g, NEW s, NEW n \in DOMAIN T, T[n].k = "selection",
           NEW a, NEW v \in {Go(a), NoGo(a)},
           \/ Stops(a)
           \/ Settled(a, s, n)
           \/ Worked(a, s, n, 2)
           \/ (v = Go(a) /\ Pending(g, a, s, n, 3))
    PROVE  LET r == VisitIn({"IF", "ELSE"}, g, Work(g, v, n, 3), n).s
           IN  Stops(r) \/ Settled(r, s, n)
<1>0. Works(n)[1] = "CONDITION" /\ Works(n)[2] = "IF" /\ Works(n)[3] = "ELSE"
  BY Parts
<1>a. v.s = a
  BY StageFields
<1>1. CASE Stops(a)
  <2>0. a.op = "Done"
    BY <1>1 DEF Stops
  <2>1. Work(g, v, n, 3) = v
    BY <2>0, StageOver
  <2> QED BY <1>1, <2>1, SelectionEnd
<1>2. CASE Settled(a, s, n) \/ Worked(a, s, n, 2)
  <2>1. CASE a.inner[n] # "ELSE"
    <3>1. Work(g, v, n, 3) = v
      BY <1>0, <1>a, <2>1, StageIdle
    <3> QED BY <1>2, <3>1, SelectionEnd
  <2>2. CASE a.inner[n] = "ELSE"
    <3>1. Stops(a)
      BY <1>0, <1>2, <2>2 DEF Settled, Free, Quiet, Worked, Busy, HasParts
    <3> QED BY <1>1, <3>1
  <2> QED BY <2>1, <2>2
<1>3. CASE v = Go(a) /\ Pending(g, a, s, n, 3)
  <2> DEFINE b == Traverse(g, a, T[n].c[3])
  <2>1. Work(g, v, n, 3) = Go(b)
    BY <1>3, StageWork DEF Pending
  <2>2. Worked(b, s, n, 3)
    BY <1>3 DEF Pending
  <2> HIDE DEF b
  <2> QED BY <2>1, <2>2, SelectionEnd
<1> QED BY <1>1, <1>2, <1>3

(* From the true block on.                                                 *)
LEMMA SelectionYes ==
    ASSUME shader \in Shaders, NEW g, NEW s, NEW n \in DOMAIN T, T[n].k = "selection",
           n # Top(s), NEW a, NEW v \in {Go(a), NoGo(a)},
           \/ Stops(a)
           \/ Settled(a, s, n)
           \/ Worked(a, s, n, 1)
           \/ (v = Go(a) /\ Pending(g, a, s, n, 2))
           \/ (v = Go(a) /\ Pending(g, a, s, n, 3))
    PROVE  LET w == Stage({"CONDITION"}, g, v, n, 2)
               r == VisitIn({"IF", "ELSE"}, g, Work(g, w, n, 3), n).s
           IN  Stops(r) \/ Settled(r, s, n)
<1> DEFINE w == Stage({"CONDITION"}, g, v, n, 2)
           in == VisitIn({"CONDITION"}, g, v, n)
<1>0. Works(n)[1] = "CONDITION" /\ Works(n)[2] = "IF" /\ Works(n)[3] = "ELSE"
  BY Parts
<1>a. v.s = a
  BY StageFields
<1>w. w = Work(g, in, n, 2)
  BY DEF Stage
<1>1. SUFFICES \E b : /\ w \in {Go(b), NoGo(b)}
                      /\ \/ Stops(b)
                         \/ Settled(b, s, n)
                         \/ Worked(b, s, n, 2)
                         \/ (w = Go(b) /\ Pending(g, b, s, n, 3))
  <2> HIDE DEF w, in
  <2> QED BY SelectionNo DEF w
<1>s. CASE Stops(a)
  <2>1. a.op = "Done"
    BY <1>s DEF Stops
  <2>2. w \in {Go(a), NoGo(a)}
    BY <2>1, StageOver
  <2> HIDE DEF w, in
  <2> QED BY <1>s, <2>2
<1>2. CASE Settled(a, s, n)
  <2>1. a.inner[n] = "UNSET"
    BY <1>2 DEF Settled, Free, Quiet
  <2>2. in = v
    BY <1>a, <2>1, StageSkipped
  <2>3. Work(g, v, n, 2) = v
    BY <1>0, <1>a, <2>1, StageIdle
  <2> HIDE DEF w, in
  <2> QED BY <1>2, <1>w, <2>2, <2>3
<1>3. CASE Busy(a, n, 1) /\ a.op = "TargetSet" /\ a.stack = s.stack
  <2> DEFINE z == [a EXCEPT !.inner[n] = "PASSED"]
             x == Stop(z, n, AtChoice(n))
  <2>1. a.inner[n] = "CONDITION" /\ a.mark[n] = "None" /\ On(a, n) /\ a.iter[n] = 0
    BY <1>0, <1>3 DEF Busy, HasParts
  <2>2. in = VisitSelection(g, a, n)
    BY <1>a, <2>1, StageVisited
  <2>3. VisitSelection(g, a, n) = NoGo(x)
    BY <1>3, <2>1 DEF VisitSelection
  <2>4. AtChoice(n) \in Positions /\ AtChoice(n) \notin {"UNSET", "DUMMY"}
        /\ "PASSED" \in StopStates(n) /\ n # Top(a) /\ HasParts(n)
    BY <1>3 DEF AtChoice, Positions, StopStates, Top, HasParts
  <2>5. Stops(x)
    BY <2>1, <2>4, PartStops DEF StopLoop
  <2> HIDE DEF x, w, in
  <2>6. Work(g, NoGo(x), n, 2) = NoGo(x)
    BY StageWork
  <2> QED BY <1>w, <2>2, <2>3, <2>5, <2>6
<1>4. CASE v = Go(a) /\ (Pending(g, a, s, n, 2) \/ Pending(g, a, s, n, 3))
  <2>1. a.inner[n] \in {"IF", "ELSE"}
    BY <1>0, <1>4 DEF Pending
  <2>2. in = v
    BY <1>a, <2>1, StageSkipped
  <2>3. CASE Pending(g, a, s, n, 2)
    <3> DEFINE b == Traverse(g, a, T[n].c[2])
    <3>1. Work(g, Go(a), n, 2) = Go(b)
      BY <2>3, StageWork DEF Pending
    <3>2. Worked(b, s, n, 2)
      BY <2>3 DEF Pending
    <3> HIDE DEF b, w, in
    <3> QED BY <1>4, <1>w, <2>2, <3>1, <3>2
  <2>4. CASE Pending(g, a, s, n, 3)
    <3>1. a.inner[n] # Works(n)[2]
      BY <1>0, <2>4 DEF Pending
    <3>2. Work(g, v, n, 2) = v
      BY <1>a, <3>1, StageIdle
    <3> HIDE DEF w, in
    <3> QED BY <1>4, <1>w, <2>2, <2>4, <3>2
  <2> HIDE DEF w, in
  <2> QED BY <1>4, <2>3, <2>4
<1> HIDE DEF w, in
<1> QED BY <1>s, <1>2, <1>3, <1>4 DEF Worked

(* The blocks of a selection.                                              *)
LEMMA TailOfThree ==
    ASSUME NEW c \in Seq(Nat), Len(c) = 3
    PROVE  ToSet(Tail(c)) \subseteq {c[2], c[3]}
<1>1. c # <<>>
  <2> Len(<<>>) = 0
    OBVIOUS
  <2> SUFFICES ASSUME c = <<>> PROVE FALSE
    OBVIOUS
  <2> QED OBVIOUS
<1>2. Tail(c) \in Seq(Nat) /\ Len(Tail(c)) = 2 /\ \A i \in 1 .. 2 : Tail(c)[i] = c[i + 1]
  <2>1. Tail(c) \in Seq(Nat) /\ Len(Tail(c)) = Len(c) - 1
    BY <1>1, HeadTailProperties
  <2>2. \A i \in 1 .. Len(Tail(c)) : Tail(c)[i] = c[i + 1]
    BY <1>1, HeadTailProperties
  <2>3. Len(Tail(c)) = 2
    BY <2>1
  <2> QED BY <2>1, <2>2, <2>3
<1>3. DOMAIN Tail(c) = 1 .. 2
  BY <1>2, LenProperties
<1>4. 1 .. 2 = {1, 2}
  OBVIOUS
<1> QED BY <1>2, <1>3, <1>4 DEF ToSet

(* Passing a part does not change how its search came out.                 *)
LEMMA WorkedPassed ==
    ASSUME shader \in Shaders, NEW s, NEW n, NEW i, NEW r, Worked(r, s, n, i),
           NEW m \in {0} \cup DOMAIN T
    PROVE  Worked(PassIfNoStop(r, m), s, n, i)
<1>1. CASE Stops(r)
  BY <1>1 DEF Stops, Worked, PassIfNoStop
<1>2. CASE Busy(r, n, i) /\ r.op = "TargetSet" /\ r.stack = s.stack
  <2>1. r \in States
    BY <1>2 DEF Busy, On
  <2>2. Same(Pass(r, m), r)
    BY <2>1, Passed
  <2>3. Busy(Pass(r, m), n, i) /\ Pass(r, m).op = r.op /\ Pass(r, m).stack = r.stack
    BY <1>2, <2>2, SameBusy
  <2> QED BY <1>2, <2>3 DEF Worked, PassIfNoStop
<1> QED BY <1>1, <1>2 DEF Worked

(* Passing nodes does not change that n was passed.                        *)
LEMMA SettledPassed ==
    ASSUME shader \in Shaders, NEW s, NEW n, NEW r, Settled(r, s, n), NEW nodes,
           ToSet(nodes) \subseteq {0} \cup DOMAIN T
    PROVE  Settled(PassAll(r, nodes), s, n)
<1>1. r \in States
  BY DEF Settled, Free, On
<1>2. Same(PassAll(r, nodes), r)
  BY <1>1, PassedAll
<1>3. Free(PassAll(r, nodes), n) /\ PassAll(r, nodes).stack = r.stack
  BY <1>2, SameFree DEF Settled
<1> QED BY <1>3 DEF Settled

(* The children are nodes, or 0.                                           *)
LEMMA ChildNodes ==
    ASSUME shader \in Shaders, NEW n \in DOMAIN T
    PROVE  \A i \in DOMAIN T[n].c : T[n].c[i] \in {0} \cup DOMAIN T
BY Children

(* A target that is a selection or loop is left for one of its parts.      *)
LEMMA LeavingPart ==
    ASSUME shader \in Shaders, NEW s, NEW n, Starts(s, n, n), HasParts(n),
           NEW i \in DOMAIN Works(n), NEW x, x = Works(n)[i]
    PROVE  LET u == [Unset(s, n) EXCEPT !.inner[n] = x]
           IN  /\ u \in States /\ Busy(u, n, i) /\ u.op = "TargetSet"
               /\ u.stack = s.stack /\ u.bh = s.bh
               /\ On(u, n) /\ u.mark[n] = "None" /\ (T[n].k # "loop" => u.iter[n] = 0)
<1> DEFINE o == Unset(s, n)
           u == [o EXCEPT !.inner[n] = x]
<1>1. /\ o \in States /\ On(o, n) /\ o.stack = s.stack /\ o.bh = s.bh
      /\ o.op = "TargetSet" /\ o.mark[n] = "None"
      /\ o.iter[n] = s.iter[n]
  BY Leaving
<1>2. T[n].k # "loop" => s.iter[n] = 0
  BY Target
<1> HIDE DEF o
<1>3. T[n].k # "loop" => o.iter[n] = 0
  BY <1>1, <1>2
<1>4. /\ u \in States /\ Busy(u, n, i) /\ u.op = o.op /\ u.stack = o.stack /\ u.bh = o.bh
  BY <1>1, <1>3, PartBegun
<1> HIDE DEF u
<1>5. On(u, n) /\ u.mark[n] = "None" /\ (T[n].k # "loop" => u.iter[n] = 0)
  BY <1>4 DEF Busy
<1> QED BY <1>1, <1>4, <1>5 DEF u, o

(* The step from a selection into or over its condition.                   *)
LEMMA ConditionEntered ==
    ASSUME shader \in Shaders, NEW g, NEW d, NEW s, NEW n, Task(g, d, s, n), Starts(s, n, n),
           T[n].k = "selection"
    PROVE  LET r == EnterCondition(g, s, n) IN Worked(r, s, n, 1) \/ Settled(r, s, n)
<1> DEFINE c == T[n].c
           u == [Unset(s, n) EXCEPT !.inner[n] = "CONDITION"]
           w == [u EXCEPT !.inner[n] = "UNSET"]
<1>0. n \in DOMAIN T /\ HasParts(n)
  BY DEF Task, HasParts
<1>1. 1 \in DOMAIN Works(n) /\ "CONDITION" = Works(n)[1] /\ DOMAIN c = {1, 2, 3}
  BY <1>0, Parts
<1>2. /\ u \in States /\ Busy(u, n, 1) /\ u.op = "TargetSet" /\ u.stack = s.stack /\ u.bh = s.bh
      /\ On(u, n) /\ u.mark[n] = "None" /\ u.iter[n] = 0
  BY <1>0, <1>1, LeavingPart
<1>3. EnterCondition(g, s, n) =
        IF s.bh = "INTO" THEN PassIfNoStop(Traverse(g, u, c[1]), c[1]) ELSE PassAll(w, c)
  BY DEF EnterCondition, Into
<1> HIDE DEF u
<1>4. CASE s.bh = "INTO"
  <2>1. Pending(g, u, s, n, 1)
    BY <1>0, <1>1, <1>2, PartPending
  <2>2. Worked(Traverse(g, u, c[1]), s, n, 1)
    BY <2>1 DEF Pending
  <2>3. c[1] \in {0} \cup DOMAIN T
    BY <1>0, <1>1, ChildNodes
  <2> HIDE DEF c
  <2>4. Worked(PassIfNoStop(Traverse(g, u, c[1]), c[1]), s, n, 1)
    BY <2>2, <2>3, WorkedPassed
  <2> QED BY <1>3, <1>4, <2>4
<1>5. CASE s.bh # "INTO"
  <2>1. Free(w, n) /\ w.stack = u.stack
    BY <1>2, PartsLeft
  <2>2. ToSet(c) \subseteq {0} \cup DOMAIN T
    BY <1>0, ChildNodes DEF ToSet
  <2> HIDE DEF w, c
  <2>3. Settled(w, s, n)
    BY <1>2, <2>1 DEF Settled
  <2>4. Settled(PassAll(w, c), s, n)
    BY <2>2, <2>3, SettledPassed
  <2> QED BY <1>3, <1>5, <2>4
<1> QED BY <1>4, <1>5

(* The step from the condition of a selection into one of its blocks, or   *)
(* over both.                                                              *)
LEMMA BlockChosen ==
    ASSUME shader \in Shaders, NEW g, NEW d, NEW s, NEW n, Task(g, d, s, n), Starts(s, n, n),
           T[n].k = "selection"
    PROVE  \E a : \/ (ChooseBlock(s, n) = NoGo(a) /\ Settled(a, s, n))
                  \/ (ChooseBlock(s, n) = Go(a) /\ Pending(g, a, s, n, 2))
                  \/ (ChooseBlock(s, n) = Go(a) /\ Pending(g, a, s, n, 3))
<1> DEFINE c == T[n].c
           out == Unset(s, n)
           w == [out EXCEPT !.inner[n] = "UNSET"]
           In(state) == [out EXCEPT !.inner[n] = state]
           Seen(other) == IF other = 0 THEN {} ELSE Known.flags[other] \cap {"DISCARD"}
<1>0. n \in DOMAIN T /\ HasParts(n) /\ c \in Seq(Nat)
  BY Nodes DEF Task, HasParts
<1>1. /\ 2 \in DOMAIN Works(n) /\ "IF" = Works(n)[2] /\ DOMAIN c = {1, 2, 3}
      /\ 3 \in DOMAIN Works(n) /\ "ELSE" = Works(n)[3]
  BY <1>0, Parts
<1>2. c[2] # 0 \/ c[3] = 0
  BY <1>0, Shapes
<1>3. ASSUME NEW i \in {2, 3}, NEW x, x = Works(n)[i], NEW other \in {c[2], c[3]}
      PROVE  Pending(g, Copy(In(x), Seen(other)), s, n, i)
  <2>0. i \in DOMAIN Works(n)
    BY <1>1
  <2>1. In(x) \in States /\ Busy(In(x), n, i) /\ In(x).op = "TargetSet" /\ In(x).stack = s.stack
    BY <1>0, <1>3, <2>0, LeavingPart
  <2>2. Seen(other) \in SUBSET STRING
    <3>1. other \in {0} \cup DOMAIN T
      BY <1>0, <1>1, ChildNodes
    <3> QED BY <3>1, Noted
  <2> HIDE DEF In, Seen
  <2>3. Same(Copy(In(x), Seen(other)), In(x))
    BY <2>1, <2>2, Copied
  <2>4. /\ Busy(Copy(In(x), Seen(other)), n, i)
        /\ Copy(In(x), Seen(other)).op = "TargetSet" /\ Copy(In(x), Seen(other)).stack = s.stack
    BY <2>1, <2>3, SameBusy
  <2> QED BY <1>0, <2>0, <2>4, PartPending
<1>4. ChooseBlock(s, n) =
        IF s.bh = "OVER"
        THEN IF c[2] = 0 /\ c[3] # 0 THEN NoGo(Abort(s)) ELSE NoGo(PassAll(w, Tail(c)))
        ELSE IF s.bh = "ELSE" /\ c[3] # 0 THEN Go(Copy(In("ELSE"), Seen(c[2])))
        ELSE Go(Copy(In("IF"), Seen(c[3])))
  BY DEF ChooseBlock
<1>5. CASE s.bh = "OVER"
  <2>1. /\ On(out, n) /\ out.stack = s.stack /\ out.op = "TargetSet" /\ out.mark[n] = "None"
        /\ out.iter[n] = s.iter[n]
    BY Leaving
  <2>2. s.iter[n] = 0
    BY Target
  <2>3. Free(w, n) /\ w.stack = out.stack
    BY <2>1, <2>2, PartsLeft
  <2>4. ToSet(Tail(c)) \subseteq {0} \cup DOMAIN T
    <3>1. Len(c) = 3
      BY <1>0, Shapes
    <3>2. ToSet(Tail(c)) \subseteq {c[2], c[3]}
      <4> HIDE DEF c
      <4> QED BY <1>0, <3>1, TailOfThree
    <3> QED BY <1>0, <1>1, <3>2, ChildNodes
  <2> HIDE DEF w, c, out
  <2>5. Settled(w, s, n)
    BY <2>1, <2>3 DEF Settled
  <2>6. Settled(PassAll(w, Tail(c)), s, n)
    BY <2>4, <2>5, SettledPassed
  <2>7. ChooseBlock(s, n) = NoGo(PassAll(w, Tail(c)))
    BY <1>2, <1>4, <1>5
  <2> QED BY <2>6, <2>7
<1>6. CASE s.bh # "OVER"
  <2>1. Pending(g, Copy(In("ELSE"), Seen(c[2])), s, n, 3)
    BY <1>1, <1>3
  <2>2. Pending(g, Copy(In("IF"), Seen(c[3])), s, n, 2)
    BY <1>1, <1>3
  <2> HIDE DEF In, Seen, c, out
  <2> QED BY <1>4, <1>6, <2>1, <2>2
<1> QED BY <1>5, <1>6

(* What has happened to a selection before its blocks are reached.         *)
LEMMA SelectionBegins ==
    ASSUME shader \in Shaders, NEW g, NEW d, NEW s, NEW n, Task(g, d, s, n), Given(s, n),
           T[n].k = "selection"
    PROVE  LET w == Stage({"UNSET", "INIT", "PASSED"}, g, Go(s), n, 1)
           IN  \E a : /\ w \in {Go(a), NoGo(a)}
                      /\ \/ Stops(a)
                         \/ Settled(a, s, n)
                         \/ Worked(a, s, n, 1)
                         \/ (w = Go(a) /\ Pending(g, a, s, n, 2))
                         \/ (w = Go(a) /\ Pending(g, a, s, n, 3))
<1> DEFINE w == Stage({"UNSET", "INIT", "PASSED"}, g, Go(s), n, 1)
           in == VisitIn({"UNSET", "INIT", "PASSED"}, g, Go(s), n)
           Fine(a) == \/ Stops(a)
                      \/ Settled(a, s, n)
                      \/ Worked(a, s, n, 1)
                      \/ (w = Go(a) /\ Pending(g, a, s, n, 2))
                      \/ (w = Go(a) /\ Pending(g, a, s, n, 3))
<1> SUFFICES \E a : w \in {Go(a), NoGo(a)} /\ Fine(a)
  OBVIOUS
<1>0. n \in DOMAIN T /\ s \in States /\ HasParts(n) /\ n # Top(s)
  BY DEF Task, HasParts, Given
<1>1. /\ DOMAIN Works(n) = {1, 2, 3} /\ Works(n)[1] = "CONDITION"
      /\ Works(n)[2] = "IF" /\ Works(n)[3] = "ELSE"
  BY <1>0, Parts
<1>2. w = Work(g, in, n, 1) /\ Go(s).s = s
  BY StageFields DEF Stage
<1>3. CASE Free(s, n)
  <2> DEFINE z == [s EXCEPT !.inner[n] = "INIT"]
             x == Stop(z, n, AtSelection(n))
  <2>1. s.inner[n] = "UNSET" /\ s.mark[n] = "None" /\ On(s, n) /\ s.iter[n] = 0 /\ s.op = "TargetSet"
    BY <1>3 DEF Free, Quiet
  <2>2. in = VisitSelection(g, s, n)
    BY <1>2, <2>1, StageVisited
  <2>3. VisitSelection(g, s, n) = NoGo(x)
    BY <2>1 DEF VisitSelection
  <2>4. AtSelection(n) \in Positions /\ AtSelection(n) \notin {"UNSET", "DUMMY"}
        /\ "INIT" \in StopStates(n)
    BY DEF AtSelection, Positions, StopStates
  <2>5. Stops(x)
    BY <1>0, <2>1, <2>4, PartStops DEF StopLoop
  <2> HIDE DEF x
  <2>6. w = NoGo(x)
    BY <1>2, <2>2, <2>3, StageWork
  <2> QED BY <2>5, <2>6
<1>4. CASE Starts(s, n, n)
  <2>1. s.op = "TargetUnset" /\ s.mark[n] = "Target" /\ s.inner[n] \in {"INIT", "PASSED"}
    BY <1>4, Target DEF StopStates, Starts
  <2>2. in = VisitSelection(g, s, n)
    BY <1>2, <2>1, StageVisited
  <2>3. CASE s.inner[n] = "INIT"
    <3> DEFINE x == EnterCondition(g, s, n)
    <3>1. VisitSelection(g, s, n) = NoGo(x)
      BY <2>1, <2>3 DEF VisitSelection
    <3>2. Worked(x, s, n, 1) \/ Settled(x, s, n)
      BY <1>4, ConditionEntered
    <3> HIDE DEF x
    <3>3. w = NoGo(x)
      BY <1>2, <2>2, <3>1, StageWork
    <3> QED BY <3>2, <3>3
  <2>4. CASE s.inner[n] = "PASSED"
    <3>1. VisitSelection(g, s, n) = ChooseBlock(s, n)
      BY <2>1, <2>4 DEF VisitSelection
    <3>2. PICK a : \/ (in = NoGo(a) /\ Settled(a, s, n))
                   \/ (in = Go(a) /\ Pending(g, a, s, n, 2))
                   \/ (in = Go(a) /\ Pending(g, a, s, n, 3))
      <4> HIDE DEF in
      <4> QED BY <1>4, <2>2, <3>1, BlockChosen
    <3>3. w = in
      <4>1. CASE in = NoGo(a)
        BY <1>2, <4>1, StageWork
      <4>2. CASE in = Go(a) /\ (Pending(g, a, s, n, 2) \/ Pending(g, a, s, n, 3))
        <5>1. a.inner[n] # Works(n)[1] /\ Go(a).s = a
          BY <1>1, <4>2, StageFields DEF Pending
        <5> QED BY <1>2, <4>2, <5>1, StageIdle
      <4> QED BY <3>2, <4>1, <4>2
    <3> HIDE DEF w, in
    <3> QED BY <3>2, <3>3
  <2> QED BY <2>1, <2>3, <2>4
<1>5. ASSUME NEW t \in DOMAIN T, t # n, Starts(s, n, t)
      PROVE  \E a : w \in {Go(a), NoGo(a)} /\ Fine(a)
  <2>1. PICK i \in DOMAIN Works(n) : Pending(g, s, s, n, i)
    <3> HIDE DEF Fine, w
    <3> QED BY <1>0, <1>5, TargetPending
  <2>2. s.inner[n] \notin {"UNSET", "INIT", "PASSED"} /\ i \in {1, 2, 3}
    BY <1>1, <2>1 DEF Pending
  <2>3. in = Go(s)
    BY <1>2, <2>2, StageSkipped
  <2>4. CASE i = 1
    <3> DEFINE x == Traverse(g, s, T[n].c[1])
    <3>1. w = Go(x) /\ Worked(x, s, n, 1)
      BY <1>2, <2>1, <2>3, <2>4, StageWork DEF Pending
    <3> HIDE DEF x, w
    <3> QED BY <3>1
  <2>5. CASE i # 1
    <3>1. s.inner[n] # Works(n)[1]
      BY <1>1, <2>1, <2>2, <2>5 DEF Pending
    <3>2. w = Go(s)
      BY <1>2, <2>3, <3>1, StageIdle
    <3> HIDE DEF w
    <3> QED BY <2>1, <2>2, <2>5, <3>2
  <2> QED BY <2>4, <2>5
<1> QED BY <1>3, <1>4, <1>5 DEF Given

(* Selections.                                                             *)
LEMMA Selections ==
    ASSUME shader \in Shaders, NEW g, NEW d, NEW s, NEW n, Task(g, d, s, n), Given(s, n),
           T[n].k = "selection"
    PROVE  Outcome(Visit(g, s, n), s, n)
<1> DEFINE v == Stage({"UNSET", "INIT", "PASSED"}, g, Go(s), n, 1)
           w == Stage({"CONDITION"}, g, v, n, 2)
           r == VisitIn({"IF", "ELSE"}, g, Work(g, w, n, 3), n).s
<1>0. n \in DOMAIN T /\ n # Top(s)
  BY DEF Task, Given
<1>1. PICK a : /\ v \in {Go(a), NoGo(a)}
               /\ \/ Stops(a)
                  \/ Settled(a, s, n)
                  \/ Worked(a, s, n, 1)
                  \/ (v = Go(a) /\ Pending(g, a, s, n, 2))
                  \/ (v = Go(a) /\ Pending(g, a, s, n, 3))
  BY SelectionBegins
<1>2. Visit(g, s, n) = r
  BY DEF Visit, TraverseSelection
<1>3. Stops(r) \/ Settled(r, s, n)
  <2> HIDE DEF v
  <2> QED BY <1>0, <1>1, SelectionYes
<1>4. n \notin {Body, Dummy}
  BY <1>0, NotLast
<1> HIDE DEF r
<1> QED BY <1>2, <1>3, <1>4 DEF Outcome, Settled

-----------------------------------------------------------------------------
(* Loops.                                                                  *)

(* The elements of two sequences in a row.                                 *)
LEMMA ConcatSet ==
    ASSUME NEW a \in Seq(Nat), NEW b \in Seq(Nat)
    PROVE  ToSet(a \o b) \subseteq ToSet(a) \cup ToSet(b)
<1>1. /\ Len(a) \in Nat /\ Len(b) \in Nat
      /\ DOMAIN a = 1 .. Len(a) /\ DOMAIN b = 1 .. Len(b)
  BY LenProperties
<1>2. /\ DOMAIN (a \o b) = 1 .. Len(a) + Len(b)
      /\ \A i \in 1 .. Len(a) + Len(b) :
           (a \o b)[i] = IF i <= Len(a) THEN a[i] ELSE b[i - Len(a)]
  BY ConcatProperties, LenProperties
<1>3. ASSUME NEW i \in DOMAIN (a \o b) PROVE (a \o b)[i] \in ToSet(a) \cup ToSet(b)
  <2>1. CASE i <= Len(a)
    <3> i \in DOMAIN a
      BY <1>1, <1>2, <2>1
    <3> QED BY <1>2, <2>1 DEF ToSet
  <2>2. CASE ~(i <= Len(a))
    <3> i - Len(a) \in DOMAIN b
      BY <1>1, <1>2, <2>2
    <3> QED BY <1>2, <2>2 DEF ToSet
  <2> QED BY <2>1, <2>2
<1> QED BY <1>3 DEF ToSet

(* The parts of a loop, and the position it is shown at.                   *)
LEMMA LoopNodes ==
    ASSUME shader \in Shaders, NEW n \in DOMAIN T, T[n].k = "loop"
    PROVE  /\ ToSet(LoopParts(n)) \subseteq {0} \cup DOMAIN T
           /\ ToSet(<<T[n].c[1]>> \o LoopParts(n)) \subseteq {0} \cup DOMAIN T
           /\ AtTest(n) \in Positions /\ AtTest(n) \notin {"UNSET", "DUMMY"}
<1> DEFINE c == T[n].c
<1>1. DOMAIN c = {1, 2, 3, 4}
  BY Parts
<1>2. c[1] \in {0} \cup DOMAIN T /\ c[2] \in {0} \cup DOMAIN T /\ c[3] \in {0} \cup DOMAIN T
      /\ c[4] \in {0} \cup DOMAIN T
  BY <1>1, ChildNodes
<1>3. c[1] \in Nat /\ c[2] \in Nat /\ c[3] \in Nat /\ c[4] \in Nat
  <2> HIDE DEF c
  <2>1. \A m \in {0} \cup DOMAIN T : m \in Nat
    BY Nodes
  <2> QED BY <1>2, <2>1
<1> HIDE DEF c
<1>4. ToSet(<<c[2], c[4], c[3]>>) \subseteq {0} \cup DOMAIN T
  BY <1>2 DEF ToSet
<1>5. ToSet(<<c[1]>>) \subseteq {0} \cup DOMAIN T
  BY <1>2 DEF ToSet
<1>6. <<c[1]>> \in Seq(Nat) /\ <<c[2], c[4], c[3]>> \in Seq(Nat)
  BY <1>3
<1>7. ToSet(<<c[1]>> \o <<c[2], c[4], c[3]>>) \subseteq {0} \cup DOMAIN T
  <2> DEFINE a == <<c[1]>>
             b == <<c[2], c[4], c[3]>>
  <2>1. /\ a \in Seq(Nat) /\ b \in Seq(Nat)
        /\ ToSet(a) \cup ToSet(b) \subseteq {0} \cup DOMAIN T
    BY <1>4, <1>5, <1>6
  <2> HIDE DEF a, b
  <2>2. ToSet(a \o b) \subseteq ToSet(a) \cup ToSet(b)
    BY <2>1, ConcatSet
  <2>3. ToSet(a \o b) \subseteq {0} \cup DOMAIN T
    BY <2>1, <2>2
  <2> QED BY <2>3 DEF a, b
<1>8. T[n].f \in {"for", "while", "do"}
  BY Shapes
<1>9. AtTest(n) \in Positions /\ AtTest(n) \notin {"UNSET", "DUMMY"}
  BY <1>8 DEF AtTest, Positions
<1>10. LoopParts(n) = <<c[2], c[4], c[3]>>
  BY DEF LoopParts, c
<1> QED BY <1>4, <1>7, <1>9, <1>10 DEF c

(* A loop asks for its flow.                                               *)
LEMMA ChoiceStops ==
    ASSUME shader \in Shaders, NEW a, NEW n, On(a, n), n # Top(a), T[n].k = "loop"
    PROVE  Stops(StopChoose(a, n)) /\ StopChoose(a, n).res.at = n
<1> DEFINE r == StopChoose(a, n)
<1>0. a \in States /\ n \in DOMAIN T
  BY Frame DEF On, At
<1>1. /\ r \in States /\ r.mark = [a.mark EXCEPT ![n] = "Target"]
      /\ r.inner = [a.inner EXCEPT ![n] = "SELECT_FLOW"]
      /\ r.iter = a.iter /\ r.stack = a.stack
      /\ r.op = "Done" /\ r.res.pos = "LOOP_CHOOSE" /\ r.res.at = n
  <2>1. LET q == StopChoose(a, n)
        IN  /\ q \in States /\ q.mark = [a.mark EXCEPT ![n] = "Target"]
            /\ q.inner = [a.inner EXCEPT ![n] = "SELECT_FLOW"]
            /\ q.iter = a.iter /\ q.stack = a.stack /\ q.bh = a.bh
            /\ q.op = "Done" /\ q.res.pos = "LOOP_CHOOSE" /\ q.res.at = n
    BY <1>0, StoppedAtChoice, Zenon
  <2> QED BY <2>1
<1> HIDE DEF r
<1>2. a.mark \in Markings /\ a.inner \in Progress
  BY <1>0, Fields
<1>3. /\ r.mark[n] = "Target" /\ r.inner[n] = "SELECT_FLOW"
      /\ \A m \in DOMAIN T : m # n => /\ r.mark[m] = a.mark[m]
                                      /\ r.inner[m] = a.inner[m] /\ r.iter[m] = a.iter[m]
  BY <1>0, <1>1, <1>2 DEF Markings, Progress
<1>4. r.inner[n] \in StopStates(n)
  BY <1>3 DEF StopStates
<1>5. T[n].k \in StopKinds /\ (T[n].k = "branch" => T[n].c[1] # 0)
  BY DEF StopKinds
<1>6. r \in States /\ r.stack = a.stack /\ r.op = "Done" /\ r.res.at = n
      /\ r.res.pos # "UNSET" /\ (r.res.pos = "DUMMY" <=> T[n].k = "dummy")
  BY <1>1
<1>7. Stops(r)
  BY <1>3, <1>4, <1>5, <1>6, StopsHere
<1> QED BY <1>1, <1>7 DEF r

(* A loop takes the mark at one of its parts.                              *)
LEMMA LoopStops ==
    ASSUME shader \in Shaders, NEW a, NEW n, On(a, n), n # Top(a), T[n].k = "loop",
           NEW x \in {"QYR_INIT", "QYR_TEST", "SELECT_FLOW", "QYR_TERMINAL"},
           NEW pos \in Positions, pos \notin {"UNSET", "DUMMY"}
    PROVE  Stops(StopLoop(a, n, x, pos)) /\ StopLoop(a, n, x, pos).res.at = n
<1>1. x \in StopStates(n) /\ x \in LoopStates
  BY DEF StopStates, LoopStates
<1>2. HasParts(n)
  BY DEF HasParts
<1>3. Stops(StopLoop(a, n, x, pos))
  BY <1>1, <1>2, PartStops
<1>4. a \in States /\ n \in DOMAIN T
  BY Frame DEF On, At
<1> DEFINE r == StopLoop(a, n, x, pos)
<1>5. r.res.at = n
  <2> x \in LoopStates /\ a \in States /\ n \in DOMAIN T
    BY <1>1, <1>4
  <2>1. /\ r \in States /\ r.mark = [a.mark EXCEPT ![n] = "Target"]
        /\ r.inner = [a.inner EXCEPT ![n] = x]
        /\ r.iter = a.iter /\ r.stack = a.stack /\ r.bh = a.bh
        /\ r.op = "Done" /\ r.res.pos = pos /\ r.res.at = n
    BY StoppedLoop
  <2> QED BY <2>1
<1> QED BY <1>3, <1>5

(* Counting the iteration leaves the stop as it is.                        *)
LEMMA CountedStops ==
    ASSUME shader \in Shaders, NEW a, NEW n, Stops(a), a.res.at = n, T[n].k = "loop"
    PROVE  Stops(CountUp(a, n))
<1> DEFINE r == CountUp(a, n)
<1>0. a \in States /\ On(a, n) /\ n # Top(a) /\ a.op = "Done" /\ a.res.pos # "UNSET"
      /\ a.mark[n] = "Target" /\ a.inner[n] \in StopStates(n)
      /\ (a.res.pos = "DUMMY" <=> T[n].k = "dummy")
  BY DEF Stops, StopsAt, StopsIn, On
<1>1. n \in DOMAIN T
  BY <1>0, Frame DEF On, At
<1>2. /\ r \in States /\ r.iter = [a.iter EXCEPT ![n] = a.iter[n] + 1]
      /\ r.inner = a.inner /\ r.mark = a.mark /\ r.stack = a.stack
      /\ r.op = a.op /\ r.res = a.res
  BY <1>0, <1>1, CountedUp
<1> HIDE DEF r
<1>3. a.iter \in LoopCounters
  BY <1>0, Fields
<1>4. \A m \in DOMAIN T : m # n => /\ r.mark[m] = a.mark[m]
                                   /\ r.inner[m] = a.inner[m] /\ r.iter[m] = a.iter[m]
  BY <1>2, <1>3 DEF LoopCounters
<1>5. T[n].k \in StopKinds /\ (T[n].k = "branch" => T[n].c[1] # 0)
  BY DEF StopKinds
<1>6. r \in States /\ r.stack = a.stack /\ r.op = "Done" /\ r.res.at = n
      /\ r.res.pos # "UNSET" /\ (r.res.pos = "DUMMY" <=> T[n].k = "dummy")
      /\ r.mark[n] = "Target" /\ r.inner[n] \in StopStates(n)
  BY <1>0, <1>2
<1>7. Stops(r)
  BY <1>0, <1>4, <1>5, <1>6, StopsHere
<1> QED BY <1>7 DEF r

(* A part of a loop is done: the loop stops.                               *)
LEMMA PartDone ==
    ASSUME shader \in Shaders, NEW g, NEW a, NEW n, NEW i \in 1 .. 4, T[n].k = "loop",
           n # Top(a), Busy(a, n, i), a.op = "TargetSet"
    PROVE  \E x : VisitLoop(g, a, n) = NoGo(x) /\ Stops(x)
<1>0. n \in DOMAIN T /\ On(a, n) /\ a.mark[n] = "None"
  BY Frame DEF Busy, On, At
<1>1. a.inner[n] = Works(n)[i]
  BY DEF Busy, HasParts
<1>2. /\ Works(n)[1] = "WRK_INIT" /\ Works(n)[2] = "WRK_TEST"
      /\ Works(n)[3] = "WRK_TERMINAL" /\ Works(n)[4] = "WRK_BODY"
  BY <1>0, Parts
<1>3. VisitLoop(g, a, n) = ReachStop(a, n)
  BY <1>0 DEF VisitLoop
<1>4. AtTest(n) \in Positions /\ AtTest(n) \notin {"UNSET", "DUMMY"}
      /\ "LOOP_for" \in Positions
  BY <1>0, LoopNodes DEF Positions
<1>5. CASE i = 1
  <2> DEFINE q == IF T[n].c[2] # 0 THEN "QYR_TEST" ELSE "SELECT_FLOW"
             x == StopLoop(a, n, q, "LOOP_for")
  <2>1. ReachStop(a, n) = NoGo(x)
    BY <1>1, <1>2, <1>5 DEF ReachStop
  <2>2. Stops(x)
    BY <1>0, <1>4, LoopStops
  <2> HIDE DEF x
  <2> QED BY <1>3, <2>1, <2>2
<1>6. CASE i = 2
  <2> DEFINE x == StopChoose(a, n)
  <2>1. ReachStop(a, n) = NoGo(x)
    BY <1>1, <1>2, <1>6 DEF ReachStop
  <2>2. Stops(x)
    BY <1>0, ChoiceStops
  <2> HIDE DEF x
  <2> QED BY <1>3, <2>1, <2>2
<1>7. Stops(CountUp(StopLoop(a, n, "QYR_TEST", AtTest(n)), n))
  <2> DEFINE x == StopLoop(a, n, "QYR_TEST", AtTest(n))
  <2>1. Stops(x) /\ x.res.at = n
    BY <1>0, <1>4, LoopStops
  <2> HIDE DEF x
  <2>2. Stops(CountUp(x, n))
    BY <2>1, CountedStops
  <2> QED BY <2>2 DEF x
<1>8. Stops(CountUp(StopChoose(a, n), n))
  <2>1. Stops(StopChoose(a, n)) /\ StopChoose(a, n).res.at = n
    BY <1>0, ChoiceStops
  <2> QED BY <2>1, CountedStops
<1>9. CASE i = 3
  <2> DEFINE x == LeaveTerminal(a, n)
  <2>1. ReachStop(a, n) = NoGo(x)
    BY <1>1, <1>2, <1>9 DEF ReachStop
  <2>2. Stops(x)
    BY <1>7, <1>8 DEF LeaveTerminal
  <2> HIDE DEF x
  <2> QED BY <1>3, <2>1, <2>2
<1>10. CASE i = 4
  <2> DEFINE x == LeaveBody(a, n)
  <2>1. ReachStop(a, n) = NoGo(x)
    BY <1>1, <1>2, <1>10 DEF ReachStop
  <2>2. Stops(StopLoop(a, n, "QYR_TERMINAL", AtTest(n)))
    BY <1>0, <1>4, LoopStops
  <2>3. Stops(x)
    BY <1>7, <1>8, <2>2 DEF LeaveBody
  <2> HIDE DEF x
  <2> QED BY <1>3, <2>1, <2>3
<1> QED BY <1>5, <1>6, <1>9, <1>10

(* The step from a stop of a loop into the part, or over the loop.         *)
LEMMA PartEntered ==
    ASSUME shader \in Shaders, NEW g, NEW d, NEW s, NEW n, Task(g, d, s, n), Starts(s, n, n),
           T[n].k = "loop", NEW i \in 1 .. 4, NEW x, x = Works(n)[i], NEW rest,
           ToSet(rest) \subseteq {0} \cup DOMAIN T
    PROVE  LET r == EnterPart(g, s, n, x, T[n].c[i], rest)
           IN  Worked(r, s, n, i) \/ Settled(r, s, n)
<1> DEFINE p == T[n].c[i]
           u == [Unset(s, n) EXCEPT !.inner[n] = x]
           w == LeaveLoop(u, n)
<1>0. n \in DOMAIN T /\ HasParts(n)
  BY DEF Task, HasParts
<1>1. i \in DOMAIN Works(n) /\ i \in DOMAIN T[n].c
  BY <1>0, Parts
<1>2. /\ u \in States /\ Busy(u, n, i) /\ u.op = "TargetSet" /\ u.stack = s.stack /\ u.bh = s.bh
      /\ On(u, n) /\ u.mark[n] = "None"
  BY <1>0, <1>1, LeavingPart
<1>3. EnterPart(g, s, n, x, p, rest) =
        IF s.bh = "INTO" THEN PassIfNoStop(Traverse(g, u, p), p) ELSE PassAll(w, rest)
  BY DEF EnterPart, Into
<1> HIDE DEF u
<1>4. CASE s.bh = "INTO"
  <2>1. Pending(g, u, s, n, i)
    BY <1>0, <1>1, <1>2, PartPending
  <2>2. Worked(Traverse(g, u, p), s, n, i)
    BY <2>1 DEF Pending
  <2>3. p \in {0} \cup DOMAIN T
    BY <1>0, <1>1, ChildNodes
  <2> HIDE DEF p
  <2>4. Worked(PassIfNoStop(Traverse(g, u, p), p), s, n, i)
    BY <2>2, <2>3, WorkedPassed
  <2> QED BY <1>3, <1>4, <2>4 DEF p
<1>5. CASE s.bh # "INTO"
  <2>1. Free(w, n) /\ w.stack = u.stack
    BY <1>2, PartsLeft
  <2> HIDE DEF w
  <2>3. Settled(w, s, n)
    BY <1>2, <2>1 DEF Settled
  <2>4. Settled(PassAll(w, rest), s, n)
    BY <2>3, SettledPassed
  <2> QED BY <1>3, <1>5, <2>4
<1> QED BY <1>4, <1>5

(* The step from a stop of a loop into its terminal, or over it.           *)
LEMMA TerminalEntered ==
    ASSUME shader \in Shaders, NEW g, NEW d, NEW s, NEW n, Task(g, d, s, n), Starts(s, n, n),
           T[n].k = "loop"
    PROVE  Worked(EnterTerminal(g, s, n), s, n, 3)
<1> DEFINE p == T[n].c[3]
           u == [Unset(s, n) EXCEPT !.inner[n] = "WRK_TERMINAL"]
<1>0. n \in DOMAIN T /\ HasParts(n)
  BY DEF Task, HasParts
<1>1. 3 \in DOMAIN Works(n) /\ 3 \in DOMAIN T[n].c /\ "WRK_TERMINAL" = Works(n)[3]
  BY <1>0, Parts
<1>2. /\ u \in States /\ Busy(u, n, 3) /\ u.op = "TargetSet" /\ u.stack = s.stack /\ u.bh = s.bh
  BY <1>0, <1>1, LeavingPart
<1>3. EnterTerminal(g, s, n) =
        IF s.bh = "INTO" THEN PassIfNoStop(Traverse(g, u, p), p) ELSE Pass(u, p)
  BY DEF EnterTerminal, Into
<1>p. p \in {0} \cup DOMAIN T
  BY <1>0, <1>1, ChildNodes
<1> HIDE DEF u
<1>4. CASE s.bh = "INTO"
  <2>1. Pending(g, u, s, n, 3)
    BY <1>0, <1>1, <1>2, PartPending
  <2>2. Worked(Traverse(g, u, p), s, n, 3)
    BY <2>1 DEF Pending
  <2> HIDE DEF p
  <2>4. Worked(PassIfNoStop(Traverse(g, u, p), p), s, n, 3)
    BY <1>p, <2>2, WorkedPassed
  <2> QED BY <1>3, <1>4, <2>4
<1>5. CASE s.bh # "INTO"
  <2> HIDE DEF p
  <2>1. Same(Pass(u, p), u)
    BY <1>2, <1>p, Passed
  <2>2. Busy(Pass(u, p), n, 3) /\ Pass(u, p).stack = u.stack /\ Pass(u, p).op = u.op
    BY <1>2, <2>1, SameBusy
  <2> QED BY <1>2, <1>3, <1>5, <2>2 DEF Worked
<1> QED BY <1>4, <1>5

(* The step from the choice of a loop: out of it, one iteration on, or     *)
(* into the body.                                                          *)
LEMMA FlowChosen ==
    ASSUME shader \in Shaders, NEW g, NEW d, NEW s, NEW n, Task(g, d, s, n), Starts(s, n, n),
           T[n].k = "loop", n # Top(s)
    PROVE  \E x : \/ (ChooseFlow(s, n) = NoGo(x) /\ Settled(x, s, n))
                  \/ (ChooseFlow(s, n) = Go(x) /\ Stops(x))
                  \/ (ChooseFlow(s, n) = Go(x) /\ Pending(g, x, s, n, 4))
<1> DEFINE out == Unset(s, n)
           w == LeaveLoop(out, n)
           p == PassAll(s, LoopParts(n))
           q == CountUp(p, n)
           u == [out EXCEPT !.inner[n] = "WRK_BODY"]
<1>0. n \in DOMAIN T /\ HasParts(n) /\ s \in States /\ On(s, n)
      /\ ToSet(LoopParts(n)) \subseteq {0} \cup DOMAIN T
  BY Target, LoopNodes DEF Task, HasParts
<1>1. /\ s.bh = "OVER" => ChooseFlow(s, n) = NoGo(PassAll(w, LoopParts(n)))
      /\ s.bh = "NEXT" => ChooseFlow(s, n) = Go(StopChoose(q, n))
      /\ s.bh \notin {"OVER", "NEXT"} => ChooseFlow(s, n) = Go(u)
  BY DEF ChooseFlow
<1>2. CASE s.bh = "OVER"
  <2>1. /\ On(out, n) /\ out.stack = s.stack /\ out.op = "TargetSet" /\ out.mark[n] = "None"
    BY Leaving
  <2>2. Free(w, n) /\ w.stack = out.stack
    BY <2>1, PartsLeft
  <2> HIDE DEF w, out
  <2>3. Settled(w, s, n)
    BY <2>1, <2>2 DEF Settled
  <2>4. Settled(PassAll(w, LoopParts(n)), s, n)
    BY <1>0, <2>3, SettledPassed
  <2> QED BY <1>1, <1>2, <2>4
<1>3. CASE s.bh = "NEXT"
  <2>1. Same(p, s)
    BY <1>0, PassedAll
  <2> HIDE DEF p
  <2>2. p \in States
    BY <2>1 DEF Same
  <2>3. /\ q \in States /\ q.iter = [p.iter EXCEPT ![n] = p.iter[n] + 1]
        /\ q.inner = p.inner /\ q.mark = p.mark /\ q.stack = p.stack
    BY <1>0, <2>2, CountedUp
  <2> HIDE DEF q
  <2>4. s.iter \in LoopCounters
    BY <1>0, Fields
  <2>5. \A m \in DOMAIN T : m # n => /\ q.mark[m] = s.mark[m]
                                     /\ q.inner[m] = s.inner[m] /\ q.iter[m] = s.iter[m]
    BY <2>1, <2>3, <2>4 DEF Same, LoopCounters
  <2>6. q \in States /\ q.stack = s.stack
    BY <2>1, <2>3 DEF Same
  <2>7. On(q, n)
    BY <1>0, <2>5, <2>6, StillOn
  <2>8. n # Top(q)
    BY <2>6 DEF Top
  <2>9. Stops(StopChoose(q, n))
    BY <2>7, <2>8, ChoiceStops
  <2> QED BY <1>1, <1>3, <2>9
<1>4. CASE s.bh \notin {"OVER", "NEXT"}
  <2>1. 4 \in DOMAIN Works(n) /\ "WRK_BODY" = Works(n)[4]
    BY <1>0, Parts
  <2>2. /\ u \in States /\ Busy(u, n, 4) /\ u.op = "TargetSet" /\ u.stack = s.stack
    BY <1>0, <2>1, LeavingPart
  <2> HIDE DEF u
  <2>3. Pending(g, u, s, n, 4)
    BY <1>0, <2>1, <2>2, PartPending
  <2> QED BY <1>1, <1>4, <2>3
<1> QED BY <1>2, <1>3, <1>4

(* What leaving a stop of a loop makes of it; i is the part behind it.     *)
Leaves(g, v, s, n, i) ==
    \E x : \/ (v = NoGo(x) /\ (Worked(x, s, n, i) \/ Settled(x, s, n)))
           \/ (v = Go(x) /\ (Stops(x) \/ Pending(g, x, s, n, i)))

(* The stops of a loop, and the parts behind them.                         *)
LEMMA LoopLeft ==
    ASSUME shader \in Shaders, NEW g, NEW d, NEW s, NEW n, Task(g, d, s, n), Starts(s, n, n),
           T[n].k = "loop", n # Top(s)
    PROVE  /\ s.inner[n] \in {"QYR_INIT", "QYR_TEST", "SELECT_FLOW", "QYR_TERMINAL"}
           /\ s.inner[n] = "QYR_INIT"     => Leaves(g, VisitLoop(g, s, n), s, n, 1)
           /\ s.inner[n] = "QYR_TEST"     => Leaves(g, VisitLoop(g, s, n), s, n, 2)
           /\ s.inner[n] = "SELECT_FLOW"  => Leaves(g, VisitLoop(g, s, n), s, n, 4)
           /\ s.inner[n] = "QYR_TERMINAL" => Leaves(g, VisitLoop(g, s, n), s, n, 3)
<1> DEFINE c == T[n].c
<1>0. n \in DOMAIN T
  BY DEF Task
<1>1. s.op = "TargetUnset" /\ s.mark[n] = "Target"
      /\ s.inner[n] \in {"QYR_INIT", "QYR_TEST", "SELECT_FLOW", "QYR_TERMINAL"}
  BY Target DEF Starts, StopStates
<1>2. VisitLoop(g, s, n) = LeaveStop(g, s, n)
  BY <1>1 DEF VisitLoop
<1>3. "WRK_INIT" = Works(n)[1] /\ "WRK_TEST" = Works(n)[2]
  BY <1>0, Parts
<1>4. ASSUME s.inner[n] = "QYR_INIT" PROVE Leaves(g, VisitLoop(g, s, n), s, n, 1)
  <2> DEFINE x == EnterPart(g, s, n, "WRK_INIT", c[1], <<c[1]>> \o LoopParts(n))
  <2>1. Worked(x, s, n, 1) \/ Settled(x, s, n)
    BY <1>0, <1>3, PartEntered, LoopNodes
  <2>2. LeaveStop(g, s, n) = NoGo(x)
    BY <1>4 DEF LeaveStop
  <2> HIDE DEF x
  <2> QED BY <1>2, <2>1, <2>2 DEF Leaves
<1>5. ASSUME s.inner[n] = "QYR_TEST" PROVE Leaves(g, VisitLoop(g, s, n), s, n, 2)
  <2> DEFINE x == EnterPart(g, s, n, "WRK_TEST", c[2], LoopParts(n))
  <2>0. ToSet(LoopParts(n)) \subseteq {0} \cup DOMAIN T
    BY <1>0, LoopNodes, Zenon
  <2>1. Worked(x, s, n, 2) \/ Settled(x, s, n)
    BY <1>3, <2>0, PartEntered
  <2>2. LeaveStop(g, s, n) = NoGo(x)
    BY <1>5 DEF LeaveStop
  <2> HIDE DEF x
  <2> QED BY <1>2, <2>1, <2>2 DEF Leaves
<1>6. ASSUME s.inner[n] = "SELECT_FLOW" PROVE Leaves(g, VisitLoop(g, s, n), s, n, 4)
  <2>1. LeaveStop(g, s, n) = ChooseFlow(s, n)
    BY <1>6 DEF LeaveStop
  <2>2. PICK x : \/ (ChooseFlow(s, n) = NoGo(x) /\ Settled(x, s, n))
                 \/ (ChooseFlow(s, n) = Go(x) /\ Stops(x))
                 \/ (ChooseFlow(s, n) = Go(x) /\ Pending(g, x, s, n, 4))
    BY FlowChosen
  <2> QED BY <1>2, <2>1, <2>2 DEF Leaves
<1>7. ASSUME s.inner[n] = "QYR_TERMINAL" PROVE Leaves(g, VisitLoop(g, s, n), s, n, 3)
  <2>1. LeaveStop(g, s, n) = NoGo(EnterTerminal(g, s, n))
    BY <1>7 DEF LeaveStop
  <2>2. Worked(EnterTerminal(g, s, n), s, n, 3)
    BY TerminalEntered
  <2> QED BY <1>2, <2>1, <2>2 DEF Leaves
<1> QED BY <1>1, <1>4, <1>5, <1>6, <1>7

(* A stage of the traversal of a loop: the part i was worked on, or part   *)
(* of what is ahead is to be: the rest of the parts, and the stops from    *)
(* which the loop was started.                                             *)
InStage(g, v, s, n, i, parts, stops) ==
    \E a : /\ v \in {Go(a), NoGo(a)}
           /\ \/ Stops(a)
              \/ Settled(a, s, n)
              \/ Worked(a, s, n, i)
              \/ (v = Go(a) /\ \E j \in parts : Pending(g, a, s, n, j))
              \/ (v = Go(a) /\ a = s /\ Starts(s, n, n) /\ s.inner[n] \in stops)

(* The next stage works on the part k if the loop is in it or stopped at   *)
(* q before it.                                                            *)
LEMMA NextStage ==
    ASSUME shader \in Shaders, NEW g, NEW d, NEW s, NEW n, Task(g, d, s, n), n # Top(s),
           T[n].k = "loop", NEW v, NEW i \in 1 .. 4, NEW k \in 1 .. 4,
           NEW parts, parts \subseteq 1 .. 4,
           NEW stops, stops \subseteq {"QYR_INIT", "QYR_TEST", "SELECT_FLOW", "QYR_TERMINAL"},
           NEW q \in stops, i \notin parts, k \in parts,
           InStage(g, v, s, n, i, parts, stops),
           Starts(s, n, n) /\ s.inner[n] = q => Leaves(g, VisitLoop(g, s, n), s, n, k)
    PROVE  InStage(g, Stage({Works(n)[i], q}, g, v, n, k), s, n, k, parts \ {k}, stops \ {q})
<1> DEFINE states == {Works(n)[i], q}
           w == Stage(states, g, v, n, k)
           in == VisitIn(states, g, v, n)
<1>0. n \in DOMAIN T /\ HasParts(n)
  BY DEF Task, HasParts
<1>1. /\ Works(n)[1] = "WRK_INIT" /\ Works(n)[2] = "WRK_TEST"
      /\ Works(n)[3] = "WRK_TERMINAL" /\ Works(n)[4] = "WRK_BODY"
  BY <1>0, Parts
<1>2. \A j, m \in 1 .. 4 : /\ Works(n)[j] = Works(n)[m] => j = m
                           /\ Works(n)[j] # "UNSET" /\ Works(n)[j] \notin stops
  BY <1>1
<1>w. w = Work(g, in, n, k)
  BY DEF Stage
<1>3. PICK a : /\ v \in {Go(a), NoGo(a)}
               /\ \/ Stops(a)
                  \/ Settled(a, s, n)
                  \/ Worked(a, s, n, i)
                  \/ (v = Go(a) /\ \E j \in parts : Pending(g, a, s, n, j))
                  \/ (v = Go(a) /\ a = s /\ Starts(s, n, n) /\ s.inner[n] \in stops)
  BY DEF InStage
<1>a. v.s = a
  BY <1>3, StageFields
<1>4. CASE Stops(a)
  <2>1. a.op = "Done"
    BY <1>4 DEF Stops
  <2>2. w \in {Go(a), NoGo(a)}
    BY <1>3, <2>1, StageOver
  <2> HIDE DEF w, in
  <2> QED BY <1>4, <2>2 DEF InStage, w
<1>5. CASE Settled(a, s, n)
  <2>1. a.inner[n] = "UNSET"
    BY <1>5 DEF Settled, Free, Quiet
  <2>2. a.inner[n] \notin states /\ a.inner[n] # Works(n)[k]
    BY <1>2, <2>1
  <2>3. in = v
    BY <1>a, <2>2, StageSkipped
  <2>4. Work(g, v, n, k) = v
    BY <1>a, <2>2, StageIdle
  <2> HIDE DEF w, in
  <2> QED BY <1>3, <1>5, <1>w, <2>3, <2>4 DEF InStage, w
<1>6. CASE Busy(a, n, i) /\ a.op = "TargetSet" /\ a.stack = s.stack
  <2>1. a.inner[n] = Works(n)[i]
    BY <1>0, <1>6 DEF Busy
  <2>2. in = VisitLoop(g, a, n)
    BY <1>a, <2>1, StageVisited
  <2>3. n # Top(a)
    BY <1>6 DEF Top
  <2>4. PICK x : VisitLoop(g, a, n) = NoGo(x) /\ Stops(x)
    BY <1>6, <2>3, PartDone
  <2>5. Work(g, NoGo(x), n, k) = NoGo(x)
    BY StageWork
  <2> HIDE DEF w, in
  <2> QED BY <1>w, <2>2, <2>4, <2>5 DEF InStage, w
<1>7. ASSUME v = Go(a), NEW j \in parts, Pending(g, a, s, n, j)
      PROVE  InStage(g, w, s, n, k, parts \ {k}, stops \ {q})
  <2>1. a.inner[n] = Works(n)[j] /\ j \in 1 .. 4
    BY <1>7 DEF Pending
  <2>2. a.inner[n] \notin states
    BY <1>2, <2>1
  <2>3. in = v
    BY <1>a, <2>2, StageSkipped
  <2>4. CASE j = k
    <3> DEFINE x == Traverse(g, a, T[n].c[k])
    <3>1. Work(g, Go(a), n, k) = Go(x)
      BY <2>1, <2>4, StageWork
    <3>2. Worked(x, s, n, k)
      BY <1>7, <2>4 DEF Pending
    <3> HIDE DEF w, in, x
    <3> QED BY <1>7, <1>w, <2>3, <3>1, <3>2 DEF InStage
  <2>5. CASE j # k
    <3>1. a.inner[n] # Works(n)[k]
      BY <1>2, <2>1, <2>5
    <3>2. Work(g, v, n, k) = v
      BY <1>a, <3>1, StageIdle
    <3> HIDE DEF w, in
    <3> QED BY <1>3, <1>7, <1>w, <2>3, <2>5, <3>2 DEF InStage
  <2> QED BY <2>4, <2>5
<1>8. CASE v = Go(a) /\ a = s /\ Starts(s, n, n) /\ s.inner[n] \in stops
  <2>1. CASE s.inner[n] = q
    <3>1. in = VisitLoop(g, s, n)
      BY <1>a, <1>8, <2>1, StageVisited
    <3>2. PICK x : \/ (in = NoGo(x) /\ (Worked(x, s, n, k) \/ Settled(x, s, n)))
                   \/ (in = Go(x) /\ (Stops(x) \/ Pending(g, x, s, n, k)))
      <4> HIDE DEF in
      <4> QED BY <1>8, <2>1, <3>1 DEF Leaves
    <3>3. CASE in = NoGo(x) /\ (Worked(x, s, n, k) \/ Settled(x, s, n))
      <4>1. Work(g, NoGo(x), n, k) = NoGo(x)
        BY StageWork
      <4> HIDE DEF w, in
      <4> QED BY <1>w, <3>3, <4>1 DEF InStage, w
    <3>4. CASE in = Go(x) /\ Stops(x)
      <4>1. x.op = "Done"
        BY <3>4 DEF Stops
      <4>2. Work(g, Go(x), n, k) = Go(x)
        BY <4>1, StageOver
      <4> HIDE DEF w, in
      <4> QED BY <1>w, <3>4, <4>2 DEF InStage, w
    <3>5. CASE in = Go(x) /\ Pending(g, x, s, n, k)
      <4> DEFINE y == Traverse(g, x, T[n].c[k])
      <4>1. Work(g, Go(x), n, k) = Go(y)
        BY <3>5, StageWork DEF Pending
      <4>2. Worked(y, s, n, k)
        BY <3>5 DEF Pending
      <4> HIDE DEF w, in, y
      <4> QED BY <1>w, <3>5, <4>1, <4>2 DEF InStage, w
    <3> HIDE DEF w, in
    <3> QED BY <3>2, <3>3, <3>4, <3>5
  <2>2. CASE s.inner[n] # q
    <3>1. s.inner[n] \notin states /\ s.inner[n] # Works(n)[k]
      BY <1>2, <1>8, <2>2
    <3>2. in = v
      BY <1>a, <1>8, <3>1, StageSkipped
    <3>3. Work(g, v, n, k) = v
      BY <1>a, <1>8, <3>1, StageIdle
    <3> HIDE DEF w, in
    <3> QED BY <1>3, <1>8, <1>w, <2>2, <3>2, <3>3 DEF InStage, w
  <2> QED BY <2>1, <2>2
<1> HIDE DEF w, in
<1> QED BY <1>3, <1>4, <1>5, <1>6, <1>7, <1>8 DEF Worked, w

(* The first stage: the loop is reached, or left from its stop before the  *)
(* initialisation.                                                         *)
LEMMA LoopBegins ==
    ASSUME shader \in Shaders, NEW g, NEW d, NEW s, NEW n, Task(g, d, s, n), Given(s, n),
           T[n].k = "loop"
    PROVE  InStage(g, Stage({"UNSET", "QYR_INIT"}, g, Go(s), n, 1), s, n, 1, {2, 3, 4},
                   {"QYR_TEST", "SELECT_FLOW", "QYR_TERMINAL"})
<1> DEFINE c == T[n].c
           parts == {2, 3, 4}
           stops == {"QYR_TEST", "SELECT_FLOW", "QYR_TERMINAL"}
           w == Stage({"UNSET", "QYR_INIT"}, g, Go(s), n, 1)
           in == VisitIn({"UNSET", "QYR_INIT"}, g, Go(s), n)
<1>0. n \in DOMAIN T /\ s \in States /\ HasParts(n) /\ n # Top(s)
  BY DEF Task, HasParts, Given
<1>1. /\ DOMAIN Works(n) = 1 .. 4
      /\ Works(n)[1] = "WRK_INIT" /\ Works(n)[2] = "WRK_TEST"
      /\ Works(n)[3] = "WRK_TERMINAL" /\ Works(n)[4] = "WRK_BODY"
  BY <1>0, Parts
<1>2. w = Work(g, in, n, 1) /\ Go(s).s = s
  BY StageFields DEF Stage
<1>3. CASE Free(s, n)
  <2>1. s.inner[n] = "UNSET" /\ s.mark[n] = "None" /\ On(s, n) /\ s.iter[n] = 0 /\ s.op = "TargetSet"
    BY <1>3 DEF Free, Quiet
  <2>2. in = VisitLoop(g, s, n)
    BY <1>2, <2>1, StageVisited
  <2>3. VisitLoop(g, s, n) = ReachLoop(s, n)
    BY <2>1 DEF VisitLoop, ReachStop
  <2>4. AtTest(n) \in Positions /\ AtTest(n) \notin {"UNSET", "DUMMY"}
    BY <1>0, LoopNodes
  <2>5. CASE T[n].f = "do"
    <3> DEFINE x == [s EXCEPT !.inner[n] = "WRK_BODY"]
    <3>1. ReachLoop(s, n) = Go(x)
      BY <2>5 DEF ReachLoop
    <3>2. 4 \in DOMAIN Works(n) /\ "WRK_BODY" = Works(n)[4]
      BY <1>1
    <3>3. /\ x \in States /\ Busy(x, n, 4) /\ x.op = s.op /\ x.stack = s.stack
      BY <1>0, <2>1, <3>2, PartBegun
    <3>4. x.inner[n] # Works(n)[1]
      BY <1>0, <1>1, <3>3 DEF Busy
    <3> HIDE DEF x
    <3>5. Pending(g, x, s, n, 4)
      BY <1>0, <2>1, <3>2, <3>3, PartPending
    <3>6. Go(x).s = x
      BY StageFields
    <3>7. Work(g, Go(x), n, 1) = Go(x)
      BY <3>4, <3>6, StageIdle
    <3> HIDE DEF w, in
    <3>8. w = Go(x)
      BY <1>2, <2>2, <2>3, <3>1, <3>7
    <3>9. \E j \in parts : Pending(g, x, s, n, j)
      BY <3>5
    <3> HIDE DEF parts, stops
    <3> QED BY <3>8, <3>9 DEF InStage, w, parts, stops
  <2>6. CASE T[n].f # "do"
    <3>1. \E x : ReachLoop(s, n) = NoGo(x) /\ Stops(x)
      <4>1. CASE c[1] # 0
        <5>1. ReachLoop(s, n) = NoGo(StopLoop(s, n, "QYR_INIT", AtTest(n)))
          BY <2>6, <4>1 DEF ReachLoop
        <5>2. Stops(StopLoop(s, n, "QYR_INIT", AtTest(n)))
          BY <1>0, <2>1, <2>4, LoopStops
        <5> QED BY <5>1, <5>2
      <4>2. CASE c[1] = 0 /\ c[2] # 0
        <5>1. ReachLoop(s, n) = NoGo(StopLoop(s, n, "QYR_TEST", AtTest(n)))
          BY <2>6, <4>2 DEF ReachLoop
        <5>2. Stops(StopLoop(s, n, "QYR_TEST", AtTest(n)))
          BY <1>0, <2>1, <2>4, LoopStops
        <5> QED BY <5>1, <5>2
      <4>3. CASE c[1] = 0 /\ c[2] = 0
        <5>1. ReachLoop(s, n) = NoGo(StopChoose(s, n))
          BY <2>6, <4>3 DEF ReachLoop
        <5>2. Stops(StopChoose(s, n))
          BY <1>0, <2>1, ChoiceStops
        <5> QED BY <5>1, <5>2
      <4> QED BY <4>1, <4>2, <4>3
    <3>2. PICK x : ReachLoop(s, n) = NoGo(x) /\ Stops(x)
      BY <3>1
    <3>3. Work(g, NoGo(x), n, 1) = NoGo(x)
      BY StageWork
    <3> HIDE DEF w, in, parts, stops
    <3>4. w = NoGo(x)
      BY <1>2, <2>2, <2>3, <3>2, <3>3
    <3> QED BY <3>2, <3>4 DEF InStage, w, parts, stops
  <2> QED BY <2>5, <2>6
<1>4. CASE Starts(s, n, n)
  <2>1. s.inner[n] \in {"QYR_INIT", "QYR_TEST", "SELECT_FLOW", "QYR_TERMINAL"}
        /\ (s.inner[n] = "QYR_INIT" => Leaves(g, VisitLoop(g, s, n), s, n, 1))
    BY <1>0, <1>4, LoopLeft
  <2>2. CASE s.inner[n] = "QYR_INIT"
    <3>1. in = VisitLoop(g, s, n)
      BY <1>2, <2>2, StageVisited
    <3>2. PICK x : \/ (in = NoGo(x) /\ (Worked(x, s, n, 1) \/ Settled(x, s, n)))
                   \/ (in = Go(x) /\ (Stops(x) \/ Pending(g, x, s, n, 1)))
      <4> HIDE DEF in
      <4> QED BY <2>1, <2>2, <3>1 DEF Leaves
    <3>3. CASE in = NoGo(x) /\ (Worked(x, s, n, 1) \/ Settled(x, s, n))
      <4>1. Work(g, NoGo(x), n, 1) = NoGo(x)
        BY StageWork
      <4> HIDE DEF w, in, parts, stops
      <4> QED BY <1>2, <3>3, <4>1 DEF InStage, w, parts, stops
    <3>4. CASE in = Go(x) /\ Stops(x)
      <4>1. x.op = "Done"
        BY <3>4 DEF Stops
      <4>2. Work(g, Go(x), n, 1) = Go(x)
        BY <4>1, StageOver
      <4> HIDE DEF w, in, parts, stops
      <4> QED BY <1>2, <3>4, <4>2 DEF InStage, w, parts, stops
    <3>5. CASE in = Go(x) /\ Pending(g, x, s, n, 1)
      <4> DEFINE y == Traverse(g, x, T[n].c[1])
      <4>1. Work(g, Go(x), n, 1) = Go(y)
        BY <3>5, StageWork DEF Pending
      <4>2. Worked(y, s, n, 1)
        BY <3>5 DEF Pending
      <4> HIDE DEF w, in, y, parts, stops
      <4> QED BY <1>2, <3>5, <4>1, <4>2 DEF InStage, w, parts, stops
    <3> HIDE DEF w, in
    <3> QED BY <3>2, <3>3, <3>4, <3>5
  <2>3. CASE s.inner[n] # "QYR_INIT"
    <3>1. s.inner[n] \notin {"UNSET", "QYR_INIT"} /\ s.inner[n] # Works(n)[1]
          /\ s.inner[n] \in stops
      BY <1>1, <2>1, <2>3
    <3>2. in = Go(s)
      BY <1>2, <3>1, StageSkipped
    <3>3. Work(g, Go(s), n, 1) = Go(s)
      BY <1>2, <3>1, StageIdle
    <3> HIDE DEF w, in, parts, stops
    <3> QED BY <1>2, <1>4, <3>1, <3>2, <3>3 DEF InStage, w, parts, stops
  <2> QED BY <2>2, <2>3
<1>5. ASSUME NEW t \in DOMAIN T, t # n, Starts(s, n, t) PROVE InStage(g, w, s, n, 1, parts, stops)
  <2>1. PICK i \in DOMAIN Works(n) : Pending(g, s, s, n, i)
    <3> HIDE DEF w, parts, stops
    <3> QED BY <1>0, <1>5, TargetPending
  <2>2. s.inner[n] = Works(n)[i] /\ i \in 1 .. 4
    BY <1>1, <2>1 DEF Pending
  <2>3. s.inner[n] \notin {"UNSET", "QYR_INIT"} /\ (i # 1 => s.inner[n] # Works(n)[1] /\ i \in parts)
    BY <1>1, <2>2
  <2>4. in = Go(s)
    BY <1>2, <2>3, StageSkipped
  <2>5. CASE i = 1
    <3> DEFINE x == Traverse(g, s, T[n].c[1])
    <3>1. Work(g, Go(s), n, 1) = Go(x) /\ Worked(x, s, n, 1)
      BY <2>1, <2>5, StageWork DEF Pending
    <3> HIDE DEF x, w, in, parts, stops
    <3> QED BY <1>2, <2>4, <3>1 DEF InStage
  <2>6. CASE i # 1
    <3>1. Work(g, Go(s), n, 1) = Go(s)
      BY <1>2, <2>3, <2>6, StageIdle
    <3> HIDE DEF w, in, parts, stops
    <3> QED BY <1>2, <2>1, <2>3, <2>4, <2>6, <3>1 DEF InStage
  <2> QED BY <2>5, <2>6
<1> HIDE DEF w
<1> QED BY <1>3, <1>4, <1>5 DEF Given, w

(* Loops: four stages, and the last visit.                                 *)
LEMMA Loops ==
    ASSUME shader \in Shaders, NEW g, NEW d, NEW s, NEW n, Task(g, d, s, n), Given(s, n),
           T[n].k = "loop"
    PROVE  Outcome(Visit(g, s, n), s, n)
<1> DEFINE v1 == Stage({"UNSET", "QYR_INIT"}, g, Go(s), n, 1)
           v2 == Stage({"WRK_INIT", "QYR_TEST"}, g, v1, n, 2)
           v3 == Stage({"WRK_TEST", "SELECT_FLOW"}, g, v2, n, 4)
           v4 == Stage({"WRK_BODY", "QYR_TERMINAL"}, g, v3, n, 3)
           v5 == VisitIn({"WRK_TERMINAL"}, g, v4, n)
<1>0. n \in DOMAIN T /\ n # Top(s)
  BY DEF Task, Given
<1>1. /\ Works(n)[1] = "WRK_INIT" /\ Works(n)[2] = "WRK_TEST"
      /\ Works(n)[3] = "WRK_TERMINAL" /\ Works(n)[4] = "WRK_BODY"
  BY <1>0, Parts
<1>2. Visit(g, s, n) = v5.s
  BY DEF Visit, TraverseLoop
<1>3. InStage(g, v1, s, n, 1, {2, 3, 4}, {"QYR_TEST", "SELECT_FLOW", "QYR_TERMINAL"})
  BY LoopBegins
<1> HIDE DEF v1
<1>l. Starts(s, n, n) =>
           /\ s.inner[n] = "QYR_TEST"     => Leaves(g, VisitLoop(g, s, n), s, n, 2)
           /\ s.inner[n] = "SELECT_FLOW"  => Leaves(g, VisitLoop(g, s, n), s, n, 4)
           /\ s.inner[n] = "QYR_TERMINAL" => Leaves(g, VisitLoop(g, s, n), s, n, 3)
  BY <1>0, LoopLeft
<1>4. InStage(g, v2, s, n, 2, {3, 4}, {"SELECT_FLOW", "QYR_TERMINAL"})
  <2>1. InStage(g, Stage({Works(n)[1], "QYR_TEST"}, g, v1, n, 2), s, n, 2, {2, 3, 4} \ {2},
                {"QYR_TEST", "SELECT_FLOW", "QYR_TERMINAL"} \ {"QYR_TEST"})
    <3>1. 1 \in 1 .. 4 /\ 2 \in 1 .. 4 /\ {2, 3, 4} \subseteq 1 .. 4
          /\ 1 \notin {2, 3, 4} /\ 2 \in {2, 3, 4}
      OBVIOUS
    <3>2. {"QYR_TEST", "SELECT_FLOW", "QYR_TERMINAL"}
            \subseteq {"QYR_INIT", "QYR_TEST", "SELECT_FLOW", "QYR_TERMINAL"}
      OBVIOUS
    <3> QED BY <1>0, <1>3, <1>l, <3>1, <3>2, NextStage
  <2>2. {2, 3, 4} \ {2} = {3, 4}
        /\ {"QYR_TEST", "SELECT_FLOW", "QYR_TERMINAL"} \ {"QYR_TEST"}
              = {"SELECT_FLOW", "QYR_TERMINAL"}
    OBVIOUS
  <2> QED BY <1>1, <2>1, <2>2
<1> HIDE DEF v2
<1>5. InStage(g, v3, s, n, 4, {3}, {"QYR_TERMINAL"})
  <2>1. InStage(g, Stage({Works(n)[2], "SELECT_FLOW"}, g, v2, n, 4), s, n, 4, {3, 4} \ {4},
                {"SELECT_FLOW", "QYR_TERMINAL"} \ {"SELECT_FLOW"})
    <3>1. 4 \in 1 .. 4 /\ 2 \in 1 .. 4 /\ {3, 4} \subseteq 1 .. 4
          /\ 2 \notin {3, 4} /\ 4 \in {3, 4}
      OBVIOUS
    <3>2. {"SELECT_FLOW", "QYR_TERMINAL"}
            \subseteq {"QYR_INIT", "QYR_TEST", "SELECT_FLOW", "QYR_TERMINAL"}
      OBVIOUS
    <3> QED BY <1>0, <1>4, <1>l, <3>1, <3>2, NextStage
  <2>2. {3, 4} \ {4} = {3} /\ {"SELECT_FLOW", "QYR_TERMINAL"} \ {"SELECT_FLOW"} = {"QYR_TERMINAL"}
    OBVIOUS
  <2> QED BY <1>1, <2>1, <2>2
<1> HIDE DEF v3
<1>6. InStage(g, v4, s, n, 3, {}, {})
  <2>1. InStage(g, Stage({Works(n)[4], "QYR_TERMINAL"}, g, v3, n, 3), s, n, 3, {3} \ {3},
                {"QYR_TERMINAL"} \ {"QYR_TERMINAL"})
    <3>1. 4 \in 1 .. 4 /\ 3 \in 1 .. 4 /\ {3} \subseteq 1 .. 4
          /\ 4 \notin {3} /\ 3 \in {3}
      OBVIOUS
    <3>2. {"QYR_TERMINAL"} \subseteq {"QYR_INIT", "QYR_TEST", "SELECT_FLOW", "QYR_TERMINAL"}
      OBVIOUS
    <3> QED BY <1>0, <1>5, <1>l, <3>1, <3>2, NextStage
  <2>2. {3} \ {3} = {} /\ {"QYR_TERMINAL"} \ {"QYR_TERMINAL"} = {}
    OBVIOUS
  <2> QED BY <1>1, <2>1, <2>2
<1> HIDE DEF v4
<1>7. Stops(v5.s) \/ Settled(v5.s, s, n)
  <2>1. PICK a : /\ v4 \in {Go(a), NoGo(a)}
                 /\ Stops(a) \/ Settled(a, s, n) \/ Worked(a, s, n, 3)
    BY <1>6 DEF InStage
  <2>2. v4.s = a
    BY <2>1, StageFields
  <2>3. CASE Stops(a)
    <3>1. a.op = "Done"
      BY <2>3 DEF Stops
    <3>2. v5 \in {Go(a), NoGo(a)}
      BY <2>1, <3>1, StageOver
    <3>3. v5.s = a
      BY <3>2, StageFields
    <3> QED BY <2>3, <3>3
  <2>4. CASE Settled(a, s, n)
    <3>1. a.inner[n] \notin {"WRK_TERMINAL"}
      BY <2>4 DEF Settled, Free, Quiet
    <3>2. v5 = v4
      BY <2>2, <3>1, StageSkipped
    <3> QED BY <2>2, <2>4, <3>2
  <2>5. CASE Busy(a, n, 3) /\ a.op = "TargetSet" /\ a.stack = s.stack
    <3>1. a.inner[n] = "WRK_TERMINAL"
      BY <1>1, <2>5 DEF Busy, HasParts
    <3>2. v5 = VisitLoop(g, a, n)
      BY <2>2, <3>1, StageVisited
    <3>3. n # Top(a)
      BY <1>0, <2>5 DEF Top
    <3>4. PICK x : VisitLoop(g, a, n) = NoGo(x) /\ Stops(x)
      BY <2>5, <3>3, PartDone
    <3>5. v5.s = x
      BY <3>2, <3>4, StageFields
    <3> HIDE DEF v5
    <3> QED BY <3>4, <3>5
  <2> HIDE DEF v5
  <2> QED BY <2>1, <2>3, <2>4, <2>5 DEF Worked
<1>8. n \notin {Body, Dummy}
  BY <1>0, NotLast
<1> HIDE DEF v5
<1> QED BY <1>2, <1>7, <1>8 DEF Outcome, Settled

-----------------------------------------------------------------------------
(* All nodes of a function.                                                *)

(* A node of the function that is not its definition is searched,          *)
(* whatever its kind.                                                      *)
LEMMA AnyKind ==
    ASSUME shader \in Shaders, NEW g, NEW d, NEW s, NEW n, Task(g, d, s, n), Given(s, n)
    PROVE  Outcome(Visit(g, s, n), s, n)
<1>1. T[n].k # "function"
  <2>1. s \in States /\ Stacked(s)
    BY DEF Given, Free, Starts, On, StopsAt
  <2> QED BY <2>1, Frame DEF Given
<1>2. CASE T[n].k \in {"assign", "selection", "loop", "switch", "call", "incr", "dummy"}
  <2>1. CASE T[n].k = "dummy"
    BY <2>1, Debugable
  <2>2. CASE T[n].k = "assign"
    BY <2>2, Assignments
  <2>3. CASE T[n].k = "selection"
    BY <2>3, Selections
  <2>4. CASE T[n].k = "loop"
    BY <2>4, Loops
  <2>5. CASE T[n].k = "switch"
    BY <2>5, Switches
  <2>6. CASE T[n].k = "call"
    BY <2>6, CallVisited
  <2>7. CASE T[n].k = "incr"
    BY <2>7, Increments
  <2> QED BY <1>2, <2>1, <2>2, <2>3, <2>4, <2>5, <2>6, <2>7
<1>3. CASE /\ T[n].k \notin {"assign", "selection", "loop", "switch", "call", "incr", "dummy"}
           /\ T[n].k = "branch" /\ T[n].c[1] # 0
  BY <1>3, Debugable
<1>4. CASE /\ T[n].k \notin {"assign", "selection", "loop", "switch", "call", "incr", "dummy"}
           /\ ~(T[n].k = "branch" /\ T[n].c[1] # 0)
  BY <1>1, <1>4, OtherKinds
<1> QED BY <1>2, <1>3, <1>4

(* The parts of a node without the target are passed while the target is   *)
(* looked for.                                                             *)
LEMMA PartsPast ==
    ASSUME shader \in Shaders, NEW g, NEW d, NEW s, NEW n, Task(g, d, s, n),
           s.op = "TargetUnset", NoTarget(s, n)
    PROVE  /\ s.mark[n] # "Target"
           /\ \A i \in DOMAIN T[n].c : Traverse(g, s, T[n].c[i]) = s
           /\ TraverseAll(g, s, T[n].c) = s
<1>0. s \in States /\ n \in DOMAIN T /\ d \in Nat /\ Fits(s, n, d + 1) /\ Contract(g, d)
  BY DEF Task
<1>1. s.mark[n] # "Target"
  <2>1. n <= End(n) /\ n \in Nat /\ End(n) \in Nat
    BY <1>0, Nested, Nodes
  <2>2. n \in Region(n)
    BY <2>1 DEF Region
  <2> QED BY <2>2 DEF NoTarget
<1>2. \A i \in DOMAIN T[n].c : T[n].c[i] # 0 => NoTarget(s, T[n].c[i])
  BY <1>0, AllPast
<1>3. \A i \in DOMAIN T[n].c : Traverse(g, s, T[n].c[i]) = s
  BY <1>0, <1>2, ChildPast
<1>4. TraverseAll(g, s, T[n].c) = s
  BY <1>0, <1>2, ListPast
<1> QED BY <1>1, <1>3, <1>4

(* So are the stages of a selection or loop.                               *)
LEMMA StagePast ==
    ASSUME NEW g, NEW s, NEW n, NEW states, NEW i, s.op = "TargetUnset", s.mark[n] # "Target",
           HasParts(n), Traverse(g, s, T[n].c[i]) = s
    PROVE  /\ VisitIn(states, g, Go(s), n) = Go(s)
           /\ Work(g, Go(s), n, i) = Go(s)
           /\ Stage(states, g, Go(s), n, i) = Go(s)
<1>1. VisitSelection(g, s, n) = Go(s) /\ VisitLoop(g, s, n) = Go(s)
  BY DEF VisitSelection, VisitLoop
<1>2. Go(s).s = s /\ Go(s).go = TRUE
  BY DEF Go
<1>3. VisitIn(states, g, Go(s), n) = Go(s)
  BY <1>1, <1>2 DEF VisitIn
<1>4. Work(g, Go(s), n, i) = Go(s)
  <2>1. CASE s.inner[n] = Works(n)[i]
    BY <2>1, StageWork
  <2>2. CASE s.inner[n] # Works(n)[i]
    BY <2>2, <1>2, StageIdle
  <2> QED BY <2>1, <2>2
<1> QED BY <1>3, <1>4 DEF Stage

(* So is the node.                                                         *)
LEMMA Past ==
    ASSUME shader \in Shaders, NEW g, NEW d, NEW s, NEW n, Task(g, d, s, n),
           s.op = "TargetUnset", NoTarget(s, n)
    PROVE  Visit(g, s, n) = s
<1> DEFINE k == T[n].k
           c == T[n].c
<1>0. n \in DOMAIN T
  BY DEF Task
<1>1. /\ s.mark[n] # "Target"
      /\ \A i \in DOMAIN c : Traverse(g, s, c[i]) = s
      /\ TraverseAll(g, s, c) = s
  BY PartsPast
<1>2. CASE k = "assign"
  <2>1. 1 \in DOMAIN c /\ 2 \in DOMAIN c
    <3>1. c \in Seq(Nat) /\ Len(c) = 2
      BY <1>0, <1>2, Shapes, Nodes
    <3> QED BY <3>1
  <2>2. Traverse(g, Traverse(g, s, Right(T, n)), Left(T, n)) = s
    BY <1>1, <2>1 DEF Left, Right
  <2>3. TraverseAssign(g, s, n) = PassLeft(s, n)
    BY <1>1, <2>2 DEF TraverseAssign
  <2> QED BY <1>2, <2>3 DEF Visit, PassLeft
<1>3. CASE k = "selection"
  <2>1. DOMAIN c = {1, 2, 3} /\ HasParts(n)
    BY <1>0, <1>3, Parts DEF HasParts
  <2>2. TraverseSelection(g, s, n) = Go(s).s
    BY <1>1, <2>1, StagePast DEF TraverseSelection
  <2> QED BY <1>3, <2>2, StageFields DEF Visit
<1>4. CASE k = "loop"
  <2>1. DOMAIN c = {1, 2, 3, 4} /\ HasParts(n)
    BY <1>0, <1>4, Parts DEF HasParts
  <2>2. TraverseLoop(g, s, n) = Go(s).s
    BY <1>1, <2>1, StagePast DEF TraverseLoop
  <2> QED BY <1>4, <2>2, StageFields DEF Visit
<1>5. CASE k = "switch"
  BY <1>5 DEF Visit
<1>6. CASE k = "function"
  BY <1>1, <1>6 DEF Visit, VisitFunction
<1>7. CASE k = "call"
  BY <1>1, <1>7 DEF Visit, VisitCall
<1>8. CASE k = "incr"
  <2>1. 1 \in DOMAIN c
    <3>1. c \in Seq(Nat) /\ Len(c) = 1
      BY <1>0, <1>8, Shapes, Nodes
    <3> QED BY <3>1
  <2>2. Traverse(g, s, Left(T, n)) = s
    BY <1>1, <2>1 DEF Left
  <2>3. VisitIncr(g, s, n) = PassIfNoStop(s, n)
    BY <1>1, <2>2 DEF VisitIncr
  <2> QED BY <1>1, <1>8, <2>3 DEF Visit, PassIfNoStop
<1>9. CASE k \notin {"assign", "selection", "loop", "switch", "function", "call", "incr"}
  <2>1. ProcessDebugable(s, n) = s
    BY <1>1 DEF ProcessDebugable
  <2> QED BY <1>1, <1>9, <2>1 DEF Visit
<1> QED BY <1>2, <1>3, <1>4, <1>5, <1>6, <1>7, <1>8, <1>9

-----------------------------------------------------------------------------
(* Functions.                                                              *)

(* The end of a function: its caller looks for its target.                 *)
Popped(s) ==
    [[s EXCEPT !.stack = Tail(@), !.fin = TRUE,
               !.bh = IF @ = "INTO" THEN "NONE" ELSE @] EXCEPT !.op = "TargetUnset"]

(* What the end of a function does.                                        *)
LEMMA PoppedFields ==
    ASSUME NEW s \in States, s.stack # <<>>
    PROVE  LET q == Popped(s)
           IN  /\ q \in States /\ q.mark = s.mark /\ q.inner = s.inner /\ q.iter = s.iter
               /\ q.stack = Tail(s.stack) /\ q.op = "TargetUnset" /\ q.bh # "INTO"
<1> DEFINE q == Popped(s)
           x == Tail(s.stack)
           b == IF s.bh = "INTO" THEN "NONE" ELSE s.bh
<1>1. /\ s.mark \in Markings /\ s.inner \in Progress /\ s.iter \in LoopCounters
      /\ s.stack \in Stacks /\ s.bh \in Behaviours \cup {"NONE"} /\ s.res \in Results
  BY Fields
<1>2. x \in Stacks
  <2>1. s.stack \in Seq(Functions(T))
    BY <1>1 DEF Stacks
  <2> QED BY <2>1, HeadTailProperties DEF Stacks
<1>3. b \in Behaviours \cup {"NONE"} /\ b # "INTO" /\ "TargetUnset" \in Operations
  BY <1>1 DEF Behaviours, Operations
<1>4. q = [s EXCEPT !.stack = x, !.fin = TRUE, !.bh = b, !.op = "TargetUnset"]
  BY DEF Popped, States
<1> HIDE DEF x, b, q
<1>5. q \in States
  BY <1>2, <1>3, <1>4 DEF States
<1>6. /\ q.mark = s.mark /\ q.inner = s.inner /\ q.iter = s.iter
      /\ q.stack = x /\ q.op = "TargetUnset" /\ q.bh = b
  BY <1>4 DEF States
<1> QED BY <1>3, <1>5, <1>6 DEF q, x

(* The caller waits at the call, with less weight than the function.       *)
LEMMA BackInCaller ==
    ASSUME shader \in Shaders, NEW s, NEW n, Free(s, n), n = Top(s), Len(s.stack) > 1
    PROVE  LET q == Popped(s)
           IN  /\ q \in States /\ Top(q) \in DOMAIN T /\ Top(q) # 0 /\ q.op = "TargetUnset"
               /\ Weight(q) < Len(s.stack)
               /\ \E t \in DOMAIN T : Starts(q, Top(q), t)
<1> DEFINE q == Popped(s)
           L == Len(s.stack)
<1>0. s \in States /\ Stacked(s) /\ At(s, n, n) /\ Quiet(s, n)
  BY DEF Free, On
<1>1. /\ s.stack \in Seq(Functions(T)) /\ s.stack # <<>> /\ L \in Nat
      /\ \A i \in 1 .. L : s.stack[i] \in Functions(T)
  BY <1>0, Fields, Ranked DEF Stacks
<1>2. /\ q \in States /\ q.mark = s.mark /\ q.inner = s.inner /\ q.iter = s.iter
      /\ q.stack = Tail(s.stack) /\ q.op = "TargetUnset" /\ q.bh # "INTO"
  BY <1>0, <1>1, PoppedFields
<1>3. Len(q.stack) = L - 1 /\ \A i \in 1 .. L - 1 : q.stack[i] = s.stack[i + 1]
  BY <1>1, <1>2, HeadTailProperties
<1> HIDE DEF q, L
<1>4. L > 1
  BY DEF L
<1>5. Stacked(q)
  <2>1. q.stack # <<>>
    <3>1. Len(q.stack) # 0
      BY <1>1, <1>3, <1>4
    <3>2. Len(<<>>) = 0
      OBVIOUS
    <3> QED BY <3>1, <3>2
  <2>2. q.stack[Len(q.stack)] = Main
    <3>1. L - 1 \in 1 .. L - 1 /\ L - 1 + 1 = L
      BY <1>1, <1>4
    <3>2. s.stack[L] = Main
      BY <1>0 DEF Stacked, L
    <3> QED BY <1>3, <3>1, <3>2
  <2>3. ASSUME NEW i \in 2 .. Len(q.stack)
        PROVE  \E t \in Region(q.stack[i]) :
                  StopsIn(q, q.stack[i], t) /\ CallsTo(t, q.stack[i - 1])
    <3>1. i + 1 \in 2 .. L /\ i \in 1 .. L - 1 /\ i - 1 \in 1 .. L - 1 /\ (i + 1) - 1 = (i - 1) + 1
      BY <1>1, <1>3, <2>3
    <3>2. q.stack[i] = s.stack[i + 1] /\ q.stack[i - 1] = s.stack[(i + 1) - 1]
      BY <1>3, <3>1
    <3>3. PICK t \in Region(s.stack[i + 1]) :
             StopsIn(s, s.stack[i + 1], t) /\ CallsTo(t, s.stack[(i + 1) - 1])
      BY <1>0, <3>1 DEF Stacked, L
    <3>4. StopsIn(q, s.stack[i + 1], t)
      BY <1>2, <3>3, SameStop
    <3> QED BY <3>2, <3>3, <3>4
  <2>4. ASSUME NEW m \in DOMAIN T, \A i \in 1 .. Len(q.stack) : m \notin Region(q.stack[i])
        PROVE  Quiet(q, m)
    <3>1. CASE m \in Region(n)
      <4>1. n \in DOMAIN T /\ n \in Nat /\ m \in Nat
        BY <1>0, Frame, Nodes
      <4>2. m >= n
        BY <3>1, <4>1, Nodes DEF Region
      <4>3. m # n => ~Under(n, m)
        BY <4>1, <4>2 DEF Under
      <4>4. m # n => Quiet(s, m)
        BY <1>0, <3>1, <4>3 DEF At
      <4> QED BY <1>0, <1>2, <4>4 DEF Quiet
    <3>2. CASE m \notin Region(n)
      <4>1. ASSUME NEW i \in 1 .. L PROVE m \notin Region(s.stack[i])
        <5>1. CASE i = 1
          BY <3>2, <5>1 DEF Top
        <5>2. CASE i # 1
          <6>1. i - 1 \in 1 .. L - 1 /\ (i - 1) + 1 = i
            BY <1>1, <4>1, <5>2
          <6>2. q.stack[i - 1] = s.stack[i]
            BY <1>3, <6>1
          <6> QED BY <1>3, <2>4, <6>1, <6>2
        <5> QED BY <5>1, <5>2
      <4>2. Quiet(s, m)
        BY <1>0, <4>1 DEF Stacked, L
      <4> QED BY <1>2, <4>2 DEF Quiet
    <3> QED BY <3>1, <3>2
  <2> QED BY <2>1, <2>2, <2>3, <2>4 DEF Stacked
<1>6. Top(q) = s.stack[2] /\ s.stack[1] = n /\ 2 \in 2 .. L /\ 2 - 1 = 1
  <2>1. 1 \in 1 .. L - 1 /\ 1 + 1 = 2
    BY <1>1, <1>4
  <2>2. 2 \in 2 .. L /\ 2 - 1 = 1
    BY <1>1, <1>4
  <2> QED BY <1>3, <2>1, <2>2 DEF Top
<1>7. PICK t \in Region(s.stack[2]) : StopsIn(s, s.stack[2], t) /\ CallsTo(t, s.stack[2 - 1])
  BY <1>0, <1>6 DEF Stacked, L
<1>8. Top(q) \in Functions(T) /\ Top(q) \in DOMAIN T
  BY <1>2, <1>5, Frame
<1>9. Top(q) # 0 /\ Top(q) \in Region(Top(q))
  <2>1. Top(q) \in Nat /\ End(Top(q)) \in Nat /\ Top(q) <= End(Top(q)) /\ Top(q) # 0
    BY <1>8, Nodes, Nested
  <2> QED BY <2>1 DEF Region
<1>10. t \in DOMAIN T /\ Under(t, Top(q))
  <2>1. t \in DOMAIN T
    BY <1>6, <1>7, <1>8, NoneInside
  <2>2. t \in Nat /\ Top(q) \in Nat /\ End(Top(q)) \in Nat
    BY <1>8, <2>1, Nodes
  <2> QED BY <1>6, <1>7, <1>9, <2>1, <2>2 DEF Region, Under
<1>11. Starts(q, Top(q), t)
  <2>1. StopsIn(q, Top(q), t)
    BY <1>2, <1>6, <1>7, SameStop
  <2>2. T[t].k # "dummy"
    BY <1>7 DEF CallsTo
  <2> QED BY <1>2, <1>5, <1>9, <1>10, <2>1, <2>2 DEF Starts, StopsAt
<1>12. Weight(q) < L
  <2>1. Weight(q) = Len(q.stack)
    BY <1>2, Weights
  <2> QED BY <1>1, <1>3, <2>1
<1> QED BY <1>2, <1>8, <1>9, <1>10, <1>11, <1>12 DEF q, L

(* A function is searched, and behind its end the callers; that of main    *)
(* is not reached.                                                         *)
LEMMA FunctionVisited ==
    ASSUME shader \in Shaders, NEW g, NEW d, NEW s, NEW n, Task(g, d, s, n), n = Top(s),
           Free(s, n) \/ \E t \in DOMAIN T : Starts(s, n, t)
    PROVE  Stops(Visit(g, s, n))
<1> DEFINE r == TraverseAll(g, s, T[n].c)
<1>0. s \in States /\ n \in DOMAIN T /\ d \in Nat /\ Fits(s, n, d + 1) /\ Contract(g, d)
  BY DEF Task
<1>1. Stacked(s) /\ n \in Region(Top(s))
  BY DEF Free, Starts, On, At, StopsAt
<1>2. T[n].k = "function"
  BY <1>0, <1>1, Frame DEF Functions
<1>3. Free(s, n) \/ \E t \in DOMAIN T : t # n /\ Starts(s, n, t)
  BY Target
<1>4. \/ Stops(r)
      \/ /\ Free(r, n) /\ r.stack = s.stack
         /\ Len(T[n].c) # 0 => T[n].c[Len(T[n].c)] \notin {Body, Dummy}
  <2>1. ~HasParts(n) /\ T[n].k # "switch"
    BY <1>2 DEF HasParts
  <2> QED BY <1>0, <1>1, <1>3, <2>1, ListOutcome
<1>5. Visit(g, s, n) = VisitFunction(g, r, n)
  BY <1>2 DEF Visit
<1> HIDE DEF r
<1>6. CASE Stops(r)
  <2>1. r.op = "Done"
    BY <1>6 DEF Stops
  <2> QED BY <1>5, <1>6, <2>1 DEF VisitFunction
<1>7. CASE /\ Free(r, n) /\ r.stack = s.stack
           /\ Len(T[n].c) # 0 => T[n].c[Len(T[n].c)] \notin {Body, Dummy}
  <2>1. r \in States /\ r.op = "TargetSet" /\ n = Top(r) /\ Stacked(r)
    BY <1>7 DEF Free, On, Top
  <2>2. n # Main
    BY <1>7, EndOfMain DEF Body
  <2>3. Len(r.stack) > 1
    <3> DEFINE l == Len(r.stack)
    <3>1. l \in Nat /\ 1 <= l
      BY <2>1, Ranked
    <3>2. l # 1
      BY <2>1, <2>2 DEF Stacked, Top
    <3> HIDE DEF l
    <3>3. l > 1
      BY <3>1, <3>2
    <3> QED BY <3>3 DEF l
  <2> DEFINE q == Popped(r)
  <2>4. VisitFunction(g, r, n) = Traverse(g, q, Top(q))
    <3> DEFINE p == [r EXCEPT !.stack = Tail(@), !.fin = TRUE,
                              !.bh = IF @ = "INTO" THEN "NONE" ELSE @]
    <3>1. VisitFunction(g, r, n) = Traverse(g, [p EXCEPT !.op = "TargetUnset"], Top(p))
      BY <2>1, <2>3 DEF VisitFunction
    <3>2. q = [p EXCEPT !.op = "TargetUnset"]
      BY DEF Popped
    <3>3. Top(q) = Top(p)
      BY <2>1 DEF Popped, Top, States
    <3> QED BY <3>1, <3>2, <3>3
  <2>5. /\ q \in States /\ Top(q) \in DOMAIN T /\ Top(q) # 0 /\ q.op = "TargetUnset"
        /\ Weight(q) < Len(r.stack)
        /\ \E t \in DOMAIN T : Starts(q, Top(q), t)
    BY <1>7, <2>1, <2>3, BackInCaller
  <2> HIDE DEF q
  <2>6. Weight(q) < Weight(s)
    <3>1. Len(s.stack) <= Weight(s) /\ Weight(s) \in Nat /\ Len(s.stack) \in Nat
      BY <1>0, Weights
    <3>2. Weight(q) \in Nat
      BY <2>5, Weights
    <3> QED BY <1>7, <2>5, <3>1, <3>2
  <2>7. Fits(q, Top(q), d)
    BY <1>0, <2>5, <2>6, FitsFunction
  <2>8. Stops(g[<<q, Top(q)>>])
    BY <1>0, <2>5, <2>7 DEF Contract
  <2>9. Traverse(g, q, Top(q)) = g[<<q, Top(q)>>]
    BY <2>5 DEF Traverse, Looking
  <2> QED BY <1>5, <2>4, <2>8, <2>9
<1> QED BY <1>4, <1>6, <1>7

-----------------------------------------------------------------------------
(* The traversals of all depths.                                           *)

(* A traversal that is one call deeper than one that keeps the contract    *)
(* keeps it.                                                               *)
LEMMA DeeperKeeps ==
    ASSUME shader \in Shaders, NEW g, NEW d \in Nat, Contract(g, d)
    PROVE  Contract(OneDeeper(g), d + 1)
<1> SUFFICES ASSUME NEW s \in States, NEW n \in DOMAIN T, Fits(s, n, d + 1)
             PROVE  LET v == OneDeeper(g)[<<s, n>>]
                    IN  /\ s.op = "TargetUnset" /\ NoTarget(s, n) => v = s
                        /\ n # Top(s) /\ (Free(s, n) \/ \E t \in DOMAIN T : Starts(s, n, t))
                             => Outcome(v, s, n)
                        /\ n = Top(s) /\ (Free(s, n) \/ \E t \in DOMAIN T : Starts(s, n, t))
                             => Stops(v)
  BY DEF Contract
<1>1. OneDeeper(g)[<<s, n>>] = Visit(g, s, n)
  BY DEF OneDeeper, Visits
<1>2. Task(g, d, s, n)
  BY DEF Task
<1>3. s.op = "TargetUnset" /\ NoTarget(s, n) => Visit(g, s, n) = s
  BY <1>2, Past
<1>4. n # Top(s) /\ (Free(s, n) \/ \E t \in DOMAIN T : Starts(s, n, t))
        => Outcome(Visit(g, s, n), s, n)
  <2> SUFFICES ASSUME n # Top(s), Free(s, n) \/ \E t \in DOMAIN T : Starts(s, n, t)
               PROVE  Outcome(Visit(g, s, n), s, n)
    OBVIOUS
  <2>1. Given(s, n)
    BY DEF Given, Free, On, At, Starts
  <2> QED BY <1>2, <2>1, AnyKind
<1>5. n = Top(s) /\ (Free(s, n) \/ \E t \in DOMAIN T : Starts(s, n, t))
        => Stops(Visit(g, s, n))
  BY <1>2, FunctionVisited
<1> QED BY <1>1, <1>3, <1>4, <1>5

(* Nothing fits in no calls.                                               *)
LEMMA NothingFits ==
    ASSUME shader \in Shaders
    PROVE  Contract(TooDeep, 0)
<1> SUFFICES ASSUME NEW s \in States, NEW n \in DOMAIN T, Fits(s, n, 0)
             PROVE  FALSE
  BY DEF Contract
<1>1. Weight(s) \in Nat /\ Len(T) \in Nat /\ n \in Nat /\ End(n) \in Nat /\ n <= End(n)
  BY Weights, Nodes, Nested
<1>2. Weight(s) * (Len(T) + 1) \in Nat
  BY <1>1
<1> DEFINE a == Weight(s) * (Len(T) + 1)
<1>3. a + (End(n) - n) < 0 /\ a \in Nat
  BY <1>2 DEF Fits, Room
<1> HIDE DEF a
<1> QED BY <1>1, <1>3

(* The traversal of each depth is made of the one that is shallower.       *)
LEMMA EveryDepth ==
    ASSUME Depth \in Nat
    PROVE  /\ Traversal[0] = TooDeep
           /\ \A k \in 1 .. Depth : Traversal[k] = OneDeeper(Traversal[k - 1])
<1> DEFINE Is(h, k) ==
             h = [i \in 0 .. k |-> IF i = 0 THEN TooDeep ELSE OneDeeper(h[i - 1])]
           Ks == {k \in Nat : \E h : Is(h, k)}
<1>1. 0 \in Ks
  <2>1. Is([i \in 0 .. 0 |-> TooDeep], 0)
    OBVIOUS
  <2> QED BY <2>1
<1>2. ASSUME NEW k \in Ks PROVE k + 1 \in Ks
  <2>1. PICK h : Is(h, k)
    BY <1>2
  <2> DEFINE m == [i \in 0 .. k + 1 |-> IF i = 0 THEN TooDeep ELSE OneDeeper(h[i - 1])]
  <2>2. \A i \in 0 .. k : m[i] = h[i]
    BY <2>1
  <2>3. \A i \in 0 .. k + 1 : m[i] = IF i = 0 THEN TooDeep ELSE OneDeeper(m[i - 1])
    <3> TAKE i \in 0 .. k + 1
    <3>1. CASE i = 0
      BY <3>1
    <3>2. CASE i # 0
      <4>1. i - 1 \in 0 .. k /\ k \in Nat
        BY <3>2
      <4>2. m[i - 1] = h[i - 1]
        BY <2>2, <4>1
      <4> QED BY <3>2, <4>2
    <3> QED BY <3>1, <3>2
  <2>4. Is(m, k + 1)
    BY <2>3
  <2>5. \E e : Is(e, k + 1)
    <3> HIDE DEF Is, m
    <3> QED BY <2>4
  <2>6. k + 1 \in Nat
    OBVIOUS
  <2> HIDE DEF Is
  <2> QED BY <2>5, <2>6
<1>3. Ks = Nat
  <2> HIDE DEF Ks
  <2> Ks \in SUBSET Nat BY DEF Ks
  <2> QED BY <1>1, <1>2, SetInduction
<1> DEFINE h == CHOOSE f : Is(f, Depth)
<1>4. Is(h, Depth)
  <2> Depth \in Ks
    BY <1>3
  <2> QED OBVIOUS
<1>5. Traversal = h
  BY DEF Traversal
<1>6. h[0] = TooDeep /\ \A k \in 1 .. Depth : h[k] = OneDeeper(h[k - 1])
  <2> HIDE DEF h
  <2> QED BY <1>4
<1> HIDE DEF h
<1> QED BY <1>5, <1>6

(* By induction the traversal of every depth keeps the contract.           *)
LEMMA DeepEnough ==
    ASSUME shader \in Shaders
    PROVE  Depth \in Nat /\ Contract(Traversal[Depth], Depth)
<1>1. Depth \in Nat
  <2>1. Len(T) \in Nat
    BY Nodes
  <2>2. (Len(T) + 3) * (Len(T) + 1) \in Nat
    BY <2>1
  <2> DEFINE a == (Len(T) + 3) * (Len(T) + 1)
  <2>3. Depth = a + 0
    BY DEF Depth, Room
  <2> HIDE DEF a
  <2> QED BY <2>2, <2>3 DEF a
<1> DEFINE Ks == {k \in Nat : k <= Depth => Contract(Traversal[k], k)}
<1>2. 0 \in Ks
  BY <1>1, EveryDepth, NothingFits
<1>3. ASSUME NEW k \in Ks PROVE k + 1 \in Ks
  <2> k \in Nat
    OBVIOUS
  <2>1. ASSUME k + 1 <= Depth PROVE Contract(Traversal[k + 1], k + 1)
    <3>1. k <= Depth /\ k + 1 \in 1 .. Depth /\ k + 1 - 1 = k
      BY <1>1, <2>1
    <3>2. Contract(Traversal[k], k)
      BY <1>3, <3>1
    <3>3. Contract(OneDeeper(Traversal[k]), k + 1)
      BY <3>2, DeeperKeeps
    <3>4. Traversal[k + 1] = OneDeeper(Traversal[k])
      BY <1>1, <3>1, EveryDepth
    <3> QED BY <3>3, <3>4
  <2> QED BY <2>1
<1>4. Ks = Nat
  <2> HIDE DEF Ks
  <2> Ks \in SUBSET Nat BY DEF Ks
  <2> QED BY <1>2, <1>3, SetInduction
<1>5. Depth \in Ks /\ Depth <= Depth
  BY <1>1, <1>4
<1> QED BY <1>1, <1>5

(* Depth calls are enough for any step: the stack holds each function at   *)
(* most once.                                                              *)
LEMMA FitsDepth ==
    ASSUME shader \in Shaders, NEW s \in States, Stacked(s), NEW n \in DOMAIN T
    PROVE  Fits(s, n, Depth)
<1>1. Weight(s) \in Nat /\ Len(T) \in Nat /\ n \in Nat /\ End(n) \in Nat /\ n <= End(n)
      /\ n >= 1 /\ End(n) <= Len(T)
  BY Weights, Nodes, Nested
<1>2. Weight(s) <= Len(T) + 2
  BY <1>1, Weights, Ranked
<1> DEFINE a == Weight(s) * (Len(T) + 1)
           b == (Len(T) + 3) * (Len(T) + 1)
<1>3. a \in Nat /\ b \in Nat /\ a + (Len(T) + 1) <= b
  <2> DEFINE w == Weight(s)
             l == Len(T)
  <2>1. w \in Nat /\ l \in Nat /\ w <= l + 2
    BY <1>1, <1>2
  <2> HIDE DEF w, l
  <2>2. (w + 1) * (l + 1) <= (l + 3) * (l + 1)
    BY <2>1
  <2>3. (w + 1) * (l + 1) = w * (l + 1) + (l + 1)
    BY <2>1
  <2>4. w * (l + 1) \in Nat /\ (l + 3) * (l + 1) \in Nat
    BY <2>1
  <2>5. w * (l + 1) + (l + 1) <= (l + 3) * (l + 1)
    BY <2>2, <2>3
  <2> QED BY <2>4, <2>5 DEF w, l
<1>4. Fits(s, n, Depth) <=> a + (End(n) - n) < b + 0
  BY DEF Fits, Depth, Room
<1> HIDE DEF a, b
<1>5. End(n) - n <= Len(T) /\ End(n) - n \in Nat
  BY <1>1
<1> QED BY <1>1, <1>3, <1>4, <1>5

(* A step from the target, or from the beginning of main, finds a stop.    *)
LEMMA AlwaysFound ==
    ASSUME shader \in Shaders, NEW s, Free(s, Top(s)) \/ \E t \in DOMAIN T : Starts(s, Top(s), t)
    PROVE  Stops(Traverse(Traversal[Depth], s, Top(s)))
<1>1. s \in States /\ Stacked(s) /\ s.op \in Looking
  BY DEF Free, Starts, On, StopsAt, Looking
<1>2. Top(s) \in DOMAIN T /\ Top(s) # 0
  BY <1>1, Frame, Nodes
<1>3. Fits(s, Top(s), Depth)
  BY <1>1, <1>2, FitsDepth
<1>4. Stops(Traversal[Depth][<<s, Top(s)>>])
  BY <1>1, <1>2, <1>3, DeepEnough DEF Contract
<1> QED BY <1>1, <1>2, <1>4 DEF Traverse

-----------------------------------------------------------------------------
(* The path.                                                               *)

(* Whether the shader is stopped at t depends on the marks and the stack   *)
(* only.                                                                   *)
LEMMA SameStopsAt ==
    ASSUME NEW s, NEW r, r.mark = s.mark, r.inner = s.inner, r.iter = s.iter,
           r.stack = s.stack, NEW t, StopsAt(s, t)
    PROVE  StopsAt(r, t)
<1>1. StopsIn(r, Top(r), t)
  BY SameStop DEF StopsAt, Top
<1>2. ASSUME NEW i \in 2 .. Len(r.stack)
      PROVE  \E x \in Region(r.stack[i]) :
                StopsIn(r, r.stack[i], x) /\ CallsTo(x, r.stack[i - 1])
  <2>1. PICK x \in Region(s.stack[i]) : StopsIn(s, s.stack[i], x) /\ CallsTo(x, s.stack[i - 1])
    BY DEF StopsAt, Stacked
  <2>2. StopsIn(r, s.stack[i], x)
    BY <2>1, SameStop
  <2> QED BY <2>1, <2>2
<1>3. Stacked(r)
  BY <1>2 DEF StopsAt, Stacked, Quiet
<1> QED BY <1>1, <1>3 DEF StopsAt

(* Every function on the stack has its stop, which is the call of the      *)
(* function above it.                                                      *)
LEMMA Frames ==
    ASSUME shader \in Shaders, NEW s \in States, NEW t, StopsAt(s, t),
           NEW i \in 1 .. Len(s.stack)
    PROVE  \E x \in Region(s.stack[i]) :
              StopsIn(s, s.stack[i], x) /\ (i > 1 => CallsTo(x, s.stack[i - 1]))
<1>1. Stacked(s) /\ StopsIn(s, Top(s), t)
  BY DEF StopsAt
<1>2. CASE i = 1
  BY <1>1, <1>2 DEF Top, StopsIn, At
<1>3. CASE i # 1
  <2>1. i \in 2 .. Len(s.stack)
    BY <1>1, <1>3, Ranked
  <2> QED BY <1>1, <2>1 DEF Stacked
<1> QED BY <1>2, <1>3

(* Without the path only the stops of the functions on the stack are       *)
(* marked.                                                                 *)
LEMMA MarkedIsStop ==
    ASSUME shader \in Shaders, NEW s \in States, NEW t, StopsAt(s, t), NEW n \in DOMAIN T,
           s.mark[n] # "None"
    PROVE  /\ s.mark[n] = "Target"
           /\ \E i \in 1 .. Len(s.stack) : /\ s.stack[i] \in Functions(T)
                                         /\ n \in Region(s.stack[i])
                                         /\ StopsIn(s, s.stack[i], n)
<1>1. Stacked(s)
  BY DEF StopsAt
<1>2. PICK i \in 1 .. Len(s.stack) : n \in Region(s.stack[i])
  BY <1>1 DEF Stacked, Quiet
<1>3. PICK x : StopsIn(s, s.stack[i], x)
  BY Frames
<1>4. n = x
  BY <1>2, <1>3 DEF StopsIn, At, Leads, Quiet
<1>5. s.stack[i] \in Functions(T)
  BY <1>1, Ranked
<1> QED BY <1>2, <1>3, <1>4, <1>5 DEF StopsIn

(* The nodes of the path take marks, and the traversal that clears them    *)
(* reaches them (DebugJump clears only what is in progress).               *)
LEMMA PathReached ==
    ASSUME shader \in Shaders, NEW s \in States, NEW t, StopsAt(s, t), NEW n \in DOMAIN T,
           OnPath(s, n)
    PROVE  Markable(n) /\ Reached(s, n)
<1>1. PICK x \in n + 1 .. End(n) :
         s.mark[x] # "None" /\ \A m \in n .. x - 1 : Under(x, m) => Markable(m)
  BY DEF OnPath
<1>2. /\ n \in Nat /\ End(n) \in Nat /\ x \in Nat /\ x \in DOMAIN T /\ n >= 1
      /\ n < x /\ x <= End(n) /\ End(x) \in Nat
  <2>1. n \in Nat /\ End(n) \in Nat /\ n >= 1 /\ x \in n .. End(n)
    BY <1>1, Nodes
  <2>2. x \in DOMAIN T
    BY <2>1, Nested
  <2> QED BY <1>1, <2>1, <2>2, Nodes
<1>3. Under(x, n) /\ n \in n .. x - 1
  BY <1>2 DEF Under
<1>4. Markable(n)
  BY <1>1, <1>3
<1>5. PICK f \in Functions(T) : x \in Region(f) /\ At(s, f, x)
  BY <1>1, <1>2, MarkedIsStop DEF StopsIn
<1>6. f \in DOMAIN T /\ f \in Nat /\ End(f) \in Nat /\ f <= x /\ x <= End(f)
  BY <1>2, <1>5, Nodes DEF Functions, Region
<1>7. ASSUME NEW m \in 1 .. n - 1, Under(n, m)
      PROVE  \E i \in InProgress(s, m) : Under(n, i)
  <2>1. /\ m \in DOMAIN T /\ m \in Nat /\ m < n /\ n <= End(m) /\ End(m) \in Nat
        /\ End(n) <= End(m)
    <3>1. m \in DOMAIN T
      BY <1>2, <1>7, Nodes
    <3>2. m \in Nat /\ End(m) \in Nat /\ m < n /\ n <= End(m) /\ n \in m .. End(m)
      BY <1>2, <1>7, <3>1, Nodes DEF Under
    <3> QED BY <3>1, <3>2, Nested
  <2>2. PICK i \in DOMAIN T[m].c : Under(n, T[m].c[i])
    BY <1>7, <2>1, SomeChild
  <2>3. T[m].k \notin {"selection", "loop", "switch"} => T[m].c[i] \in InProgress(s, m)
    <3>1. T[m].c[i] \in ToSet(T[m].c)
      BY <2>2 DEF ToSet
    <3> QED BY <3>1 DEF InProgress
  <2>4. CASE m < f
    <3>1. f <= End(m)
      BY <1>2, <1>6, <2>1
    <3>2. T[m].k = "sequence"
      BY <2>1, <2>4, <3>1, Formed DEF Callable, End
    <3> QED BY <2>2, <2>3, <3>2
  <2>5. CASE m >= f
    <3>1. m \in Region(f) /\ m # x
      BY <1>2, <1>6, <2>1, <2>5 DEF Region
    <3>2. Under(x, m)
      BY <1>2, <2>1 DEF Under
    <3>3. Leads(s, m, x)
      BY <1>5, <3>1, <3>2 DEF At
    <3>4. CASE T[m].k \in {"selection", "loop"}
      <4>1. PICK j \in DOMAIN Works(m) : s.inner[m] = Works(m)[j] /\ Under(x, T[m].c[j])
        BY <3>3, <3>4 DEF Leads
      <4>2. j \in DOMAIN T[m].c
        BY <2>1, Parts
      <4>3. Under(x, T[m].c[i])
        <5>1. T[m].c[i] \in DOMAIN T /\ T[m].c[i] # 0
          BY <2>1, <2>2, Children DEF Under
        <5> DEFINE e == T[m].c[i]
        <5>2. e \in Nat /\ End(e) \in Nat /\ e <= n /\ n <= End(e)
          BY <2>2, <5>1, Nodes DEF Under
        <5>3. n \in e .. End(e)
          BY <1>2, <5>2
        <5>4. End(n) <= End(e)
          BY <5>1, <5>3, Nested
        <5> HIDE DEF e
        <5>5. e <= x /\ x <= End(e)
          BY <1>2, <5>2, <5>4
        <5> QED BY <5>1, <5>5 DEF Under, e
      <4>4. i = j
        BY <1>2, <2>1, <2>2, <4>1, <4>2, <4>3, OneChild
      <4>5. T[m].c[j] \in InProgress(s, m)
        BY <3>4, <4>1 DEF InProgress
      <4> QED BY <2>2, <4>4, <4>5
    <3>5. CASE T[m].k \notin {"selection", "loop"}
      BY <2>2, <2>3, <3>3, <3>5 DEF Leads
    <3> QED BY <3>4, <3>5
  <2> QED BY <1>6, <2>1, <2>4, <2>5
<1> QED BY <1>4, <1>7 DEF Reached

-----------------------------------------------------------------------------
(* A step, from its marks to its answer.                                   *)

(* A step begins in a state of the traverser.                              *)
LEMMA BegunState ==
    ASSUME shader \in Shaders, NEW j \in Marked, NEW bh \in Behaviours, NEW marks \in Markings
    PROVE  LET s == [Begun(j, bh) EXCEPT !.mark = marks]
           IN  /\ s \in States /\ s.mark = marks /\ s.inner = j.inner /\ s.iter = j.iter
               /\ s.stack = j.stack /\ s.op = "TargetUnset" /\ s.bh = bh
<1> DEFINE s == [Begun(j, bh) EXCEPT !.mark = marks]
<1>1. s = [mark |-> marks, inner |-> j.inner, iter |-> j.iter, stack |-> j.stack,
           fin |-> j.fin, op |-> "TargetUnset", bh |-> bh, res |-> NoResult]
  BY DEF Begun
<1>2. NoResult \in Results
  BY DEF NoResult, Results, Positions
<1>3. /\ j.inner \in Progress /\ j.iter \in LoopCounters /\ j.stack \in Stacks
      /\ j.fin \in BOOLEAN
  BY DEF Marked
<1> HIDE DEF s
<1>4. s \in States
  BY <1>1, <1>2, <1>3 DEF States, Operations
<1> QED BY <1>1, <1>4 DEF s

(* The marks of a reset.                                                   *)
LEMMA ResetMarked ==
    ASSUME shader \in Shaders, NEW fin \in BOOLEAN
    PROVE  Reset(fin) \in Marked
<1>1. Reset(fin).mark \in Markings
  BY DEF Reset, Markings, Marks
<1>2. Reset(fin).inner \in Progress
  BY DEF Reset, Progress, SelectionStates
<1>3. Reset(fin).iter \in LoopCounters
  BY DEF Reset, LoopCounters
<1>4. Reset(fin).stack \in Stacks
  BY DEF Reset, Stacks
<1> QED BY <1>1, <1>2, <1>3, <1>4 DEF Reset, Marked

(* The marks without the path.                                             *)
LEMMA UnmarkedMarks ==
    ASSUME shader \in Shaders, NEW j \in Marked
    PROVE  /\ Unmarked(j) \in States /\ Unmarked(j).inner = j.inner /\ Unmarked(j).iter = j.iter
           /\ Unmarked(j).stack = j.stack
           /\ \A n \in DOMAIN T : Unmarked(j).mark[n] = IF j.mark[n] = "Path" THEN "None"
                                                        ELSE j.mark[n]
<1> DEFINE marks == [n \in DOMAIN T |-> IF j.mark[n] = "Path" THEN "None" ELSE j.mark[n]]
<1>1. marks \in Markings
  BY DEF Marked, Markings, Marks
<1>2. Unmarked(j) = [Begun(j, "INTO") EXCEPT !.mark = marks]
  BY DEF Unmarked
<1>3. \A n \in DOMAIN T : marks[n] = IF j.mark[n] = "Path" THEN "None" ELSE j.mark[n]
  OBVIOUS
<1>4. "INTO" \in Behaviours
  BY DEF Behaviours
<1> HIDE DEF marks
<1> QED BY <1>1, <1>2, <1>3, <1>4, BegunState

(* A step after a reset starts in main.                                    *)
LEMMA StartsAfresh ==
    ASSUME shader \in Shaders, NEW fin \in BOOLEAN, NEW bh \in Behaviours
    PROVE  LET s == Begin(ClearPath(Begun(Reset(fin), bh)))
           IN  Free(s, Top(s))
<1> DEFINE j == Reset(fin)
           b == ClearPath(Begun(j, bh))
           marks == [n \in DOMAIN T |-> "None"]
           s == Begin(b)
<1>1. j \in Marked /\ marks \in Markings
  BY ResetMarked DEF Markings, Marks
<1>2. b = [Begun(j, bh) EXCEPT !.mark = marks]
  BY DEF ClearPath, Begun, Reset
<1>3. /\ j.stack = <<>> /\ \A n \in DOMAIN T : j.inner[n] = "UNSET" /\ j.iter[n] = 0
  BY DEF Reset
<1> HIDE DEF j
<1>4. /\ b \in States /\ b.mark = marks /\ b.inner = j.inner /\ b.iter = j.iter
      /\ b.stack = <<>>
  BY <1>1, <1>2, <1>3, BegunState
<1> HIDE DEF b
<1>5. s = [b EXCEPT !.op = "TargetSet", !.stack = <<Main>>]
  BY <1>4 DEF Begin
<1>6. Main \in Functions(T) /\ Main \in DOMAIN T
  BY EndOfMain DEF Functions
<1>7. <<Main>> \in Stacks /\ "TargetSet" \in Operations
  BY <1>6 DEF Stacks, Operations
<1>8. s \in States
  BY <1>4, <1>5, <1>7 DEF States
<1>9. s.mark = marks /\ s.inner = j.inner /\ s.iter = j.iter /\ s.stack = <<Main>> /\ s.op = "TargetSet"
  BY <1>4, <1>5 DEF States
<1> HIDE DEF s
<1>10. \A n \in DOMAIN T : Quiet(s, n)
  BY <1>3, <1>9 DEF Quiet
<1>11. Stacked(s) /\ Top(s) = Main
  BY <1>9, <1>10 DEF Stacked, Top
<1>12. At(s, Main, Main)
  <2>1. Main \in Nat /\ End(Main) \in Nat /\ Main <= End(Main)
    BY <1>6, Nodes, Nested
  <2>2. Main \in Region(Main)
    BY <2>1 DEF Region
  <2>3. ASSUME NEW m \in Region(Main) \ {Main} PROVE ~Under(Main, m) /\ Quiet(s, m)
    <3>1. m \in DOMAIN T /\ m \in Nat
      BY <1>6, <2>3, NoneInside, Nodes
    <3>2. Main < m
      BY <2>1, <2>3, <3>1 DEF Region
    <3> QED BY <1>10, <2>1, <3>1, <3>2 DEF Under
  <2> QED BY <2>2, <2>3 DEF At
<1> QED BY <1>6, <1>8, <1>9, <1>10, <1>11, <1>12 DEF Free, On, s, b, j

(* A step after a stop starts at it, the path cleared.                     *)
LEMMA StartsAtStop ==
    ASSUME shader \in Shaders, NEW j \in Marked, NEW r, Answered(j, r), r.pos # "DUMMY",
           NEW bh \in Behaviours
    PROVE  /\ j.mark[1] # "Finished"
           /\ LET s == Begin(ClearPath(Begun(j, bh)))
              IN  \E t \in DOMAIN T : Starts(s, Top(s), t)
<1> DEFINE u == Unmarked(j)
           t == r.at
           b == ClearPath(Begun(j, bh))
           marks == [n \in DOMAIN T |-> u.mark[n]]
<1>1. /\ u \in States /\ u.inner = j.inner /\ u.iter = j.iter /\ u.stack = j.stack
      /\ \A n \in DOMAIN T : u.mark[n] = IF j.mark[n] = "Path" THEN "None" ELSE j.mark[n]
  BY UnmarkedMarks
<1>2. StopsAt(u, t) /\ j.mark = BuildPath(u).mark /\ T[t].k # "dummy"
  BY DEF Answered
<1>3. u.mark \in Markings /\ marks \in Markings
  BY <1>1, Fields DEF Markings
<1> HIDE DEF u
<1>4. \A n \in DOMAIN T : j.mark[n] = IF u.mark[n] = "None" /\ OnPath(u, n) THEN "Path"
                                      ELSE u.mark[n]
  <2>1. BuildPath(u).mark = [n \in DOMAIN T |->
          IF u.mark[n] = "None" /\ OnPath(u, n) THEN "Path" ELSE u.mark[n]]
    BY <1>1 DEF BuildPath, States
  <2> QED BY <1>2, <2>1
<1>5. \A n \in DOMAIN T : j.mark[n] = "Path" => Markable(n) /\ Reached(u, n)
  <2> SUFFICES ASSUME NEW n \in DOMAIN T, j.mark[n] = "Path"
               PROVE  Markable(n) /\ Reached(u, n)
    OBVIOUS
  <2>1. u.mark[n] = "None"
    BY <1>1
  <2>2. OnPath(u, n)
    BY <1>4, <2>1
  <2> QED BY <1>1, <1>2, <2>2, PathReached
<1>6. \A n \in DOMAIN T : Reached(u, n) => Reached(Begun(j, bh), n)
  BY <1>1 DEF Reached, InProgress, Begun
<1>7. b = [Begun(j, bh) EXCEPT !.mark = marks]
  <2>1. \A n \in DOMAIN T :
           marks[n] = IF Begun(j, bh).mark[n] = "Path" /\ Markable(n) /\ Reached(Begun(j, bh), n)
                      THEN "None" ELSE Begun(j, bh).mark[n]
    BY <1>1, <1>5, <1>6 DEF Begun
  <2> QED BY <2>1 DEF ClearPath
<1>8. /\ b \in States /\ b.mark = marks /\ b.inner = u.inner /\ b.iter = u.iter
      /\ b.stack = u.stack /\ b.op = "TargetUnset"
  BY <1>1, <1>3, <1>7, BegunState
<1> HIDE DEF b
<1>9. b.mark = u.mark
  BY <1>3, <1>8 DEF Markings
<1> HIDE DEF marks, t
<1>10. StopsAt(b, t)
  BY <1>2, <1>8, <1>9, SameStopsAt
<1>11. Begin(b) = b
  BY <1>10 DEF Begin, StopsAt, Stacked
<1>12. Top(b) \in DOMAIN T /\ Top(b) \in Functions(T) /\ Top(b) \in Region(Top(b)) /\ Top(b) # 0
  <2>1. Stacked(b)
    BY <1>10 DEF StopsAt
  <2>2. Top(b) \in DOMAIN T /\ Top(b) \in Functions(T)
    BY <1>8, <2>1, Frame
  <2>3. Top(b) \in Nat /\ End(Top(b)) \in Nat /\ Top(b) <= End(Top(b)) /\ Top(b) # 0
    BY <2>2, Nodes, Nested
  <2> QED BY <2>2, <2>3 DEF Region
<1>13. t \in Region(Top(b))
  BY <1>10 DEF StopsAt, StopsIn, At
<1>14. t \in DOMAIN T /\ Under(t, Top(b))
  <2>1. t \in DOMAIN T
    BY <1>12, <1>13, NoneInside
  <2>2. t \in Nat /\ Top(b) \in Nat /\ End(Top(b)) \in Nat
    BY <1>12, <2>1, Nodes
  <2> QED BY <1>12, <1>13, <2>1, <2>2 DEF Region, Under
<1>15. Starts(b, Top(b), t)
  BY <1>2, <1>8, <1>10, <1>12, <1>14 DEF Starts
<1>16. j.mark[1] # "Finished"
  <2>1. 1 \in DOMAIN T
    BY Nodes
  <2>2. u.mark[1] # "None" => u.mark[1] = "Target"
    BY <1>1, <1>2, <2>1, MarkedIsStop
  <2> QED BY <1>4, <2>1, <2>2
<1>17. \E x \in DOMAIN T : Starts(Begin(b), Top(Begin(b)), x)
  BY <1>11, <1>14, <1>15
<1> QED BY <1>16, <1>17 DEF b

(* The answer at a stop names it, and its marks are those of the stop and  *)
(* the path.                                                               *)
LEMMA AnswerAtStop ==
    ASSUME shader \in Shaders, NEW s, Stops(s)
    PROVE  LET p == Answer(s)
           IN  Kept(p) \in Marked /\ p.res # NoResult /\ Answered(Kept(p), p.res)
<1> DEFINE p == Answer(s)
           path == BuildPath(s)
           k == Kept(p)
<1>0. s \in States /\ s.op = "Done" /\ StopsAt(s, s.res.at)
  BY DEF Stops
<1>1. p = [Framed(path) EXCEPT !.res = [@ EXCEPT !.status = "OK"]]
  BY <1>0 DEF Answer
<1>2. /\ path.mark = [n \in DOMAIN T |->
           IF s.mark[n] = "None" /\ OnPath(s, n) THEN "Path" ELSE s.mark[n]]
      /\ path.inner = s.inner /\ path.iter = s.iter /\ path.stack = s.stack
      /\ path.fin = s.fin /\ path.res = s.res
      /\ path = [s EXCEPT !.mark = path.mark]
  BY <1>0 DEF BuildPath, States
<1>3. /\ p.mark = path.mark /\ p.inner = s.inner /\ p.iter = s.iter
      /\ p.stack = s.stack /\ p.fin = s.fin
      /\ p.res.status = "OK" /\ p.res.pos = s.res.pos /\ p.res.at = s.res.at
  <2> DEFINE frames == ScopeStack(path, [passed |-> FALSE, ids |-> path.res.scope]).ids
             marks == path.mark
  <2>1. p = [[path EXCEPT !.res = [@ EXCEPT !.frames = frames]]
               EXCEPT !.res = [@ EXCEPT !.status = "OK"]]
    BY <1>1 DEF Framed
  <2>2. path = [s EXCEPT !.mark = marks]
    BY <1>2
  <2> HIDE DEF frames, p, marks, path
  <2>3. p = [[[s EXCEPT !.mark = marks] EXCEPT !.res = [@ EXCEPT !.frames = frames]]
               EXCEPT !.res = [@ EXCEPT !.status = "OK"]]
    BY <2>1, <2>2
  <2>4. s.res \in Results
    BY <1>0, Fields
  <2>5. p.mark = marks
    BY <1>0, <2>3 DEF States
  <2>6. p.inner = s.inner /\ p.iter = s.iter /\ p.stack = s.stack /\ p.fin = s.fin
    BY <1>0, <2>3 DEF States
  <2>7. p.res = [[s.res EXCEPT !.frames = frames] EXCEPT !.status = "OK"]
    BY <1>0, <2>3 DEF States
  <2>8. p.res.status = "OK" /\ p.res.pos = s.res.pos /\ p.res.at = s.res.at
    BY <2>4, <2>7 DEF Results
  <2> QED BY <2>5, <2>6, <2>8 DEF marks
<1> HIDE DEF p, path
<1>4. k.mark = path.mark /\ k.inner = s.inner /\ k.iter = s.iter /\ k.stack = s.stack /\ k.fin = s.fin
  BY <1>3 DEF Kept
<1>5. path.mark \in Markings
  BY <1>0, <1>2, Fields DEF Markings, Marks
<1>6. k \in Marked
  BY <1>0, <1>3, <1>5, Fields DEF Kept, Marked
<1> HIDE DEF k
<1>7. Unmarked(k).mark = s.mark
  <2>1. \A n \in DOMAIN T : s.mark[n] # "Path"
    BY <1>0, MarkedIsStop
  <2>2. \A n \in DOMAIN T : Unmarked(k).mark[n] = s.mark[n]
    BY <1>2, <1>4, <1>6, <2>1, UnmarkedMarks
  <2>3. Unmarked(k).mark \in Markings /\ s.mark \in Markings
    BY <1>0, <1>6, UnmarkedMarks, Fields
  <2> QED BY <2>2, <2>3 DEF Markings
<1>8. /\ Unmarked(k).inner = s.inner /\ Unmarked(k).iter = s.iter
      /\ Unmarked(k).stack = s.stack /\ Unmarked(k) \in States
  BY <1>4, <1>6, UnmarkedMarks
<1>9. StopsAt(Unmarked(k), s.res.at)
  BY <1>0, <1>7, <1>8, SameStopsAt
<1>10. BuildPath(Unmarked(k)).mark = path.mark
  <2>1. BuildPath(Unmarked(k)).mark = [n \in DOMAIN T |->
           IF Unmarked(k).mark[n] = "None" /\ OnPath(Unmarked(k), n) THEN "Path"
           ELSE Unmarked(k).mark[n]]
    BY <1>8 DEF BuildPath, States
  <2>2. \A n \in DOMAIN T : OnPath(Unmarked(k), n) <=> OnPath(s, n)
    BY <1>7 DEF OnPath
  <2> QED BY <1>2, <1>7, <2>1, <2>2
<1>11. p.res # NoResult
  BY <1>3 DEF NoResult
<1>12. /\ p.res.pos \in Positions \ {"UNSET"}
       /\ p.res.pos = "DUMMY" <=> T[p.res.at].k = "dummy"
  <2>1. s.res.pos \in Positions
    BY <1>0, Fields
  <2>2. s.res.pos # "UNSET" /\ (s.res.pos = "DUMMY" <=> T[s.res.at].k = "dummy")
    BY DEF Stops
  <2> QED BY <1>3, <2>1, <2>2
<1>13. Answered(k, p.res)
  BY <1>3, <1>4, <1>9, <1>10, <1>12 DEF Answered
<1> QED BY <1>6, <1>11, <1>13 DEF k, p

(* Every step, from a reset or a stop, is answered at a stop.              *)
LEMMA StepAnswers ==
    ASSUME shader \in Shaders, NEW j \in Marked, NEW bh \in Behaviours,
           j = Reset(j.fin) \/ \E r : r.pos # "DUMMY" /\ Answered(j, r)
    PROVE  LET p == Process(j, bh)
           IN  Kept(p) \in Marked /\ p.res # NoResult /\ Answered(Kept(p), p.res)
<1> DEFINE s == Begin(ClearPath(Begun(j, bh)))
           x == Traverse(Traversal[Depth], s, Top(s))
<1>1. /\ j.mark[1] # "Finished"
      /\ Free(s, Top(s)) \/ \E t \in DOMAIN T : Starts(s, Top(s), t)
  <2>1. CASE j = Reset(j.fin)
    <3>1. j.fin \in BOOLEAN
      BY DEF Marked
    <3>2. Reset(j.fin).mark[1] = "None"
      BY Nodes DEF Reset
    <3>3. Free(Begin(ClearPath(Begun(Reset(j.fin), bh))), Top(Begin(ClearPath(Begun(Reset(j.fin), bh)))))
      BY <3>1, StartsAfresh
    <3> QED BY <2>1, <3>2, <3>3
  <2>2. CASE \E r : r.pos # "DUMMY" /\ Answered(j, r)
    <3>1. PICK r : r.pos # "DUMMY" /\ Answered(j, r)
      BY <2>2
    <3> QED BY <3>1, StartsAtStop
  <2> QED BY <2>1, <2>2
<1>2. Main # 0
  BY EndOfMain, Nodes DEF Functions
<1>3. Process(j, bh) = Find(s)
  BY <1>1, <1>2 DEF Process
<1>4. Find(s) = Answer(x)
  BY DEF Find
<1> HIDE DEF s
<1>5. Stops(x)
  BY <1>1, AlwaysFound
<1> HIDE DEF x
<1> QED BY <1>3, <1>4, <1>5, AnswerAtStop

(* So are the steps of a session.                                          *)
LEMMA JumpMoves ==
    ASSUME shader \in Shaders, NEW j \in Marked, NEW bh \in Behaviours,
           j = Reset(j.fin) \/ \E r : r.pos # "DUMMY" /\ Answered(j, r),
           JumpToNext(j, bh)
    PROVE  /\ shader' = shader
           /\ \E k \in Marked : \E r : jump' = k /\ res' = r /\ r # NoResult /\ Answered(k, r)
<1> DEFINE p == Process(j, bh)
<1>1. Kept(p) \in Marked /\ p.res # NoResult /\ Answered(Kept(p), p.res)
  BY StepAnswers
<1>2. jump' = Kept(p) /\ res' = p.res /\ shader' = shader
  BY DEF JumpToNext
<1> HIDE DEF p
<1> QED BY <1>1, <1>2

-----------------------------------------------------------------------------
(* The shader stays the same.                                              *)

(* The shader stays the same, and so does its tree.                        *)
LEMMA SameShader ==
    ASSUME shader' = shader
    PROVE  T' = T /\ Known' = Known
BY DEF T, Known

(* So do the subtrees.                                                     *)
LEMMA SameRegions ==
    ASSUME shader' = shader, NEW m, NEW n
    PROVE  End(n)' = End(n) /\ Region(n)' = Region(n) /\ (Under(m, n)' <=> Under(m, n))
BY SameShader DEF End, Region, Under

(* So does what leads to a node.                                           *)
LEMMA SameLeads ==
    ASSUME shader' = shader, NEW s, NEW m, NEW n
    PROVE  (Leads(s, m, n)' <=> Leads(s, m, n)) /\ (Quiet(s, m)' <=> Quiet(s, m))
BY DEF Leads, Quiet, Works, T, Under, End, Known

(* So does what is at a node.                                              *)
LEMMA SameAt ==
    ASSUME shader' = shader, NEW s, NEW f, NEW n
    PROVE  At(s, f, n)' <=> At(s, f, n)
BY SameRegions, SameLeads DEF At

(* So do the states in which a node is a stop.                             *)
LEMMA SameStopStates ==
    ASSUME shader' = shader, NEW t
    PROVE  StopStates(t)' = StopStates(t)
BY DEF StopStates, T

(* So do the stops of a function.                                          *)
LEMMA SameStopsIn ==
    ASSUME shader' = shader, NEW s, NEW f, NEW t
    PROVE  (StopsIn(s, f, t)' <=> StopsIn(s, f, t)) /\ (CallsTo(t, f)' <=> CallsTo(t, f))
BY SameShader, SameAt, SameStopStates DEF StopsIn, CallsTo

(* So do the callers that wait on a stack.                                 *)
LEMMA SameStacked ==
    ASSUME shader' = shader, NEW s
    PROVE  Stacked(s)' <=> Stacked(s)
<1>1. Main' = Main
  BY SameShader DEF Main
<1> QED BY <1>1, SameShader, SameRegions, SameLeads, SameStopsIn DEF Stacked

(* So do the paths to marks.                                               *)
LEMMA SamePath ==
    ASSUME shader' = shader, NEW s
    PROVE  BuildPath(s)' = BuildPath(s)
<1>1. \A n : Markable(n)' <=> Markable(n)
  BY SameShader DEF Markable
<1>2. \A n : OnPath(s, n)' <=> OnPath(s, n)
  BY <1>1, SameShader, SameRegions DEF OnPath
<1> QED BY <1>2, SameShader DEF BuildPath

(* So does whether an answer fits the marks.                               *)
LEMMA SameAnswered ==
    ASSUME shader' = shader, NEW j, NEW r
    PROVE  Answered(j, r)' <=> Answered(j, r)
<1> DEFINE u == Unmarked(j)
<1>1. u' = u
  BY SameShader DEF Unmarked, Begun
<1>2. StopsAt(u, r.at)' <=> StopsAt(u, r.at)
  BY <1>1, SameStacked, SameStopsIn DEF StopsAt, Top
<1>3. BuildPath(u)' = BuildPath(u)
  BY <1>1, SamePath
<1> QED BY <1>2, <1>3, SameShader DEF Answered

(* So do the types of the marks.                                           *)
LEMMA SameMarked ==
    ASSUME shader' = shader
    PROVE  Marked' = Marked
BY SameShader DEF Marked, Markings, Progress, LoopCounters, Stacks, Functions

-----------------------------------------------------------------------------
(* The sessions.                                                           *)

(* The inductive invariant: every answer is a stop, and the marks are      *)
(* those of that stop.                                                     *)
JumpIInv == shader \in Shaders /\ JumpInv

(* A session begins with a reset shader.                                   *)
LEMMA JumpInitially == JumpInit => JumpIInv
<1> SUFFICES ASSUME JumpInit PROVE JumpIInv
  OBVIOUS
<1>1. shader \in Shaders /\ jump = Reset(FALSE) /\ res = NoResult
  BY DEF JumpInit
<1>2. jump \in Marked
  BY <1>1, ResetMarked
<1> QED BY <1>1, <1>2 DEF JumpIInv, JumpInv

(* Steps and resets preserve the invariant.                                *)
LEMMA JumpSteps == JumpIInv /\ [JumpNext]_jvars => JumpIInv'
<1> SUFFICES ASSUME JumpIInv, [JumpNext]_jvars PROVE JumpIInv'
  OBVIOUS
<1>1. /\ shader \in Shaders /\ jump \in Marked /\ jump.fin \in BOOLEAN
      /\ res = NoResult => jump = Reset(FALSE)
      /\ res # NoResult => Answered(jump, res)
  BY DEF JumpIInv, JumpInv, Marked
<1>2. ASSUME shader' = shader,
             NEW k \in Marked, NEW r, jump' = k, res' = r, r # NoResult, Answered(k, r)
      PROVE  JumpIInv'
  <2>1. (shader \in Shaders)'
    BY <1>1, <1>2
  <2>2. (jump \in Marked)'
    BY <1>2, SameMarked
  <2>3. NoResult' = NoResult
    BY DEF NoResult
  <2>4. Answered(k, r)'
    BY <1>2, SameAnswered
  <2>5. Answered(jump, res)'
    BY <1>2, <2>4
  <2> QED BY <1>2, <2>1, <2>2, <2>3, <2>5 DEF JumpIInv, JumpInv
<1>3. CASE JumpReset
  <2>1. Reset(jump.fin) \in Marked
    BY <1>1, ResetMarked
  <2>2. Reset(jump.fin) = Reset(Reset(jump.fin).fin) /\ "INTO" \in Behaviours
    BY DEF Reset, Behaviours
  <2>3. JumpToNext(Reset(jump.fin), "INTO")
    BY <1>3 DEF JumpReset
  <2>4. /\ shader' = shader
        /\ \E k \in Marked : \E r : jump' = k /\ res' = r /\ r # NoResult /\ Answered(k, r)
    <3> DEFINE j == Reset(jump.fin)
    <3> HIDE DEF j
    <3>1. JumpToNext(j, "INTO") /\ j \in Marked /\ j = Reset(j.fin) /\ "INTO" \in Behaviours
      BY <2>1, <2>2, <2>3 DEF j
    <3> QED BY <1>1, <3>1, JumpMoves
  <2> QED BY <1>2, <2>4
<1>4. ASSUME NEW bh \in Behaviours, Jump(bh)
      PROVE  JumpIInv'
  <2>1. res.pos # "DUMMY" /\ JumpToNext(jump, bh)
    BY <1>4 DEF Jump
  <2>2. jump = Reset(jump.fin) \/ \E r : r.pos # "DUMMY" /\ Answered(jump, r)
    <3>1. CASE res = NoResult
      <4>1. Reset(FALSE) = Reset(Reset(FALSE).fin)
        BY DEF Reset
      <4> QED BY <1>1, <3>1, <4>1
    <3>2. CASE res # NoResult
      BY <1>1, <2>1, <3>2
    <3> QED BY <3>1, <3>2
  <2>3. /\ shader' = shader
        /\ \E k \in Marked : \E r : jump' = k /\ res' = r /\ r # NoResult /\ Answered(k, r)
    BY <1>1, <2>1, <2>2, JumpMoves
  <2> QED BY <1>2, <2>3
<1>5. CASE UNCHANGED jvars
  <2>1. shader' = shader /\ jump' = jump /\ res' = res
    BY <1>5 DEF jvars
  <2>2. (shader \in Shaders)'
    BY <1>1, <2>1
  <2>3. (jump \in Marked)'
    BY <1>1, <2>1, SameMarked
  <2>4. CASE res = NoResult
    <3>1. (jump = Reset(FALSE))'
      BY <1>1, <2>1, <2>4, SameShader DEF Reset
    <3>2. (res = NoResult)'
      BY <2>1, <2>4 DEF NoResult
    <3> QED BY <2>2, <2>3, <3>1, <3>2 DEF JumpIInv, JumpInv
  <2>5. CASE res # NoResult
    <3> DEFINE k == jump
               r == res
    <3>1. Answered(k, r)
      BY <1>1, <2>5
    <3>2. k \in Marked /\ jump' = k /\ res' = r /\ r # NoResult
      BY <1>1, <2>1, <2>5
    <3>3. \E a \in Marked : \E b : jump' = a /\ res' = b /\ b # NoResult /\ Answered(a, b)
      <4> HIDE DEF k, r
      <4> QED BY <3>1, <3>2
    <3> QED BY <1>2, <2>1, <3>3
  <2> QED BY <2>4, <2>5
<1> QED BY <1>3, <1>4, <1>5 DEF JumpNext

(* In every session with any shader that was compiled and linked, each     *)
(* answer of ShDebugJumpToNext is a stop of the function on top of the     *)
(* parse stack, the callers wait at their calls, and the marks are the     *)
(* path to these targets.                                                  *)
THEOREM Jump_inductive == JumpSpec => []JumpIInv
<1>1. JumpIInv /\ [JumpNext]_jvars => JumpIInv'
  BY JumpSteps
<1> QED BY <1>1, JumpInitially, PTL DEF JumpSpec

(* The part of it that the run of ShaderStepping checks.                   *)
THEOREM Jump_JumpInv == JumpSpec => []JumpInv
<1>1. JumpIInv => JumpInv
  BY DEF JumpIInv
<1> QED BY <1>1, Jump_inductive, PTL

(* No step gives up, dereferences NULL or loses the target                 *)
(* (DebugJump.cpp: exit(1), and the missing blocks), with whatever         *)
(* behaviours a shader is stepped and wherever it is reset.                *)
THEOREM Jump_AlwaysStops == JumpSpec => []AlwaysStops
<1>1. JumpIInv => AlwaysStops
  BY DEF JumpIInv, JumpInv, Answered, AlwaysStops
<1> QED BY <1>1, Jump_inductive, PTL

-----------------------------------------------------------------------------
(* The marks.                                                              *)

(* The marks of an answer: the targets, and the path to them.              *)
LEMMA AnsweredMarks ==
    ASSUME shader \in Shaders, NEW j \in Marked, NEW r, Answered(j, r)
    PROVE  LET u == Unmarked(j)
           IN  /\ u \in States /\ StopsAt(u, r.at) /\ u.stack = j.stack
               /\ u.inner = j.inner /\ u.iter = j.iter
               /\ \A n \in DOMAIN T :
                    /\ u.mark[n] \in {"None", "Target"}
                    /\ j.mark[n] = IF u.mark[n] # "None" THEN u.mark[n]
                                   ELSE IF OnPath(u, n) THEN "Path" ELSE "None"
<1> DEFINE u == Unmarked(j)
<1>1. /\ u \in States /\ u.inner = j.inner /\ u.iter = j.iter /\ u.stack = j.stack
  BY UnmarkedMarks
<1>2. StopsAt(u, r.at) /\ j.mark = BuildPath(u).mark
  BY DEF Answered
<1> HIDE DEF u
<1>3. BuildPath(u).mark = [n \in DOMAIN T |->
          IF u.mark[n] = "None" /\ OnPath(u, n) THEN "Path" ELSE u.mark[n]]
  BY <1>1 DEF BuildPath, States
<1>4. ASSUME NEW n \in DOMAIN T PROVE u.mark[n] \in {"None", "Target"}
  BY <1>1, <1>2, MarkedIsStop
<1>5. \A n \in DOMAIN T : j.mark[n] = IF u.mark[n] # "None" THEN u.mark[n]
                                      ELSE IF OnPath(u, n) THEN "Path" ELSE "None"
  BY <1>2, <1>3
<1> QED BY <1>1, <1>2, <1>4, <1>5 DEF u

(* All nodes above a stop take a mark.                                     *)
LEMMA AboveStop ==
    ASSUME shader \in Shaders, NEW f \in Functions(T), NEW s, NEW x, StopsIn(s, f, x),
           NEW m \in DOMAIN T, m # x, Under(x, m)
    PROVE  Markable(m)
<1>1. f \in DOMAIN T /\ f \in Nat /\ End(f) \in Nat /\ x \in Region(f) /\ x \in DOMAIN T
      /\ x \in Nat /\ f <= x /\ x <= End(f)
  <2>1. f \in DOMAIN T /\ x \in Region(f)
    BY DEF Functions, StopsIn, At
  <2>2. x \in DOMAIN T
    BY <2>1, NoneInside
  <2>3. f \in Nat /\ End(f) \in Nat /\ x \in Nat
    BY <2>1, <2>2, Nodes
  <2> QED BY <2>1, <2>2, <2>3 DEF Region
<1>2. m \in Nat /\ End(m) \in Nat /\ m < x /\ x <= End(m)
  BY <1>1, Nodes DEF Under
<1>3. T[m].k \notin {"struct", "symbol", "constant"}
  <2>1. x \in Region(m)
    BY <1>1, <1>2 DEF Region
  <2>2. T[x].k \in StopKinds
    BY DEF StopsIn
  <2> QED BY <2>1, <2>2, Shapes
<1>4. T[m].k # "switch"
  <2>1. CASE m < f
    <3>1. f <= End(m)
      BY <1>1, <1>2
    <3> QED BY <2>1, <3>1, Formed DEF Callable, End
  <2>2. CASE m >= f
    <3>1. m \in Region(f)
      BY <1>1, <1>2, <2>2 DEF Region
    <3>2. Leads(s, m, x)
      BY <3>1 DEF StopsIn, At
    <3> QED BY <3>2 DEF Leads
  <2> QED BY <1>1, <1>2, <2>1, <2>2
<1> QED BY <1>3, <1>4 DEF Markable

(* The path are the nodes above the targets.                               *)
LEMMA OnPathToStop ==
    ASSUME shader \in Shaders, NEW s \in States, NEW t, StopsAt(s, t), NEW n \in DOMAIN T
    PROVE  OnPath(s, n) <=> \E x \in DOMAIN T : x # n /\ Under(x, n) /\ s.mark[x] # "None"
<1>0. n \in Nat /\ End(n) \in Nat /\ n # 0
  BY Nodes
<1>1. ASSUME OnPath(s, n)
      PROVE  \E x \in DOMAIN T : x # n /\ Under(x, n) /\ s.mark[x] # "None"
  <2>1. PICK x \in n + 1 .. End(n) : s.mark[x] # "None"
    BY <1>1 DEF OnPath
  <2>2. x \in n .. End(n) /\ x # n
    BY <1>0, <2>1
  <2>3. x \in DOMAIN T /\ Under(x, n)
    BY <1>0, <2>2, Nested DEF Under
  <2> QED BY <2>1, <2>2, <2>3
<1>2. ASSUME NEW x \in DOMAIN T, x # n, Under(x, n), s.mark[x] # "None"
      PROVE  OnPath(s, n)
  <2>1. PICK i \in 1 .. Len(s.stack) : s.stack[i] \in Functions(T) /\ StopsIn(s, s.stack[i], x)
    BY <1>2, MarkedIsStop
  <2>2. x \in Nat /\ x \in n + 1 .. End(n)
    BY <1>0, <1>2, Nodes DEF Under
  <2>3. ASSUME NEW m \in n .. x - 1, Under(x, m) PROVE Markable(m)
    <3>1. m \in n .. End(n) /\ m # x
      BY <1>0, <2>2, <2>3
    <3>2. m \in DOMAIN T
      BY <3>1, Nested
    <3> QED BY <2>1, <2>3, <3>1, <3>2, AboveStop
  <2> QED BY <1>2, <2>2, <2>3 DEF OnPath
<1> QED BY <1>1, <1>2

(* The path leads to the targets only, and nothing is in progress beside   *)
(* it.                                                                     *)
LEMMA PathLeads ==
    ASSUME shader \in Shaders, NEW j \in Marked, NEW r, Answered(j, r), NEW n \in DOMAIN T
    PROVE  LET below == \E i \in ToSet(T[n].c) \ {0} : j.mark[i] # "None"
           IN  /\ j.mark[n] = "Path" => below
               /\ below => j.mark[n] \in {"Path", "Target"}
               /\ j.inner[n] # "UNSET" \/ j.iter[n] # 0 => j.mark[n] # "None"
<1> DEFINE u == Unmarked(j)
           t == r.at
<1>1. /\ u \in States /\ StopsAt(u, t) /\ u.stack = j.stack
      /\ u.inner = j.inner /\ u.iter = j.iter
      /\ \A m \in DOMAIN T :
           /\ u.mark[m] \in {"None", "Target"}
           /\ j.mark[m] = IF u.mark[m] # "None" THEN u.mark[m]
                          ELSE IF OnPath(u, m) THEN "Path" ELSE "None"
  BY AnsweredMarks
<1> HIDE DEF u, t
<1>2. \A m \in DOMAIN T :
         OnPath(u, m) <=> \E x \in DOMAIN T : x # m /\ Under(x, m) /\ u.mark[x] # "None"
  BY <1>1, OnPathToStop
<1>3. ASSUME j.mark[n] = "Path"
      PROVE  \E i \in ToSet(T[n].c) \ {0} : j.mark[i] # "None"
  <2>1. OnPath(u, n)
    BY <1>1, <1>3
  <2>2. PICK x \in DOMAIN T : x # n /\ Under(x, n) /\ u.mark[x] # "None"
    BY <1>2, <2>1
  <2>3. PICK i \in DOMAIN T[n].c : Under(x, T[n].c[i])
    BY <2>2, SomeChild
  <2>4. T[n].c[i] \in DOMAIN T /\ T[n].c[i] # 0 /\ T[n].c[i] \in ToSet(T[n].c)
    BY <2>3, Children DEF Under, ToSet
  <2>5. j.mark[T[n].c[i]] # "None"
    <3>1. CASE x = T[n].c[i]
      BY <1>1, <2>2, <2>4, <3>1
    <3>2. CASE x # T[n].c[i]
      <4>1. OnPath(u, T[n].c[i])
        BY <1>2, <2>2, <2>3, <2>4, <3>2
      <4> QED BY <1>1, <2>4, <4>1
    <3> QED BY <3>1, <3>2
  <2> QED BY <2>4, <2>5
<1>4. ASSUME NEW e \in ToSet(T[n].c) \ {0}, j.mark[e] # "None"
      PROVE  j.mark[n] \in {"Path", "Target"}
  <2>1. PICK i \in DOMAIN T[n].c : e = T[n].c[i]
    BY <1>4 DEF ToSet
  <2>2. e \in DOMAIN T /\ n < e /\ e <= End(n) /\ End(e) <= End(n) /\ e # 0
    BY <1>4, <2>1, Children
  <2>3. PICK x \in DOMAIN T : Under(x, e) /\ u.mark[x] # "None"
    <3>1. CASE u.mark[e] # "None"
      <4>1. e <= End(e) /\ e \in Nat
        BY <2>2, Nested, Nodes
      <4>2. Under(e, e)
        BY <2>2, <4>1 DEF Under
      <4> QED BY <2>2, <3>1, <4>2
    <3>2. CASE u.mark[e] = "None"
      <4>1. OnPath(u, e)
        BY <1>1, <1>4, <2>2, <3>2
      <4> QED BY <1>2, <2>2, <4>1
    <3> QED BY <3>1, <3>2
  <2>4. x # n /\ Under(x, n)
    <3>1. /\ x \in Nat /\ e \in Nat /\ n \in Nat /\ End(e) \in Nat /\ End(n) \in Nat /\ n # 0
      BY <2>2, Nodes
    <3>2. e <= x /\ x <= End(e)
      BY <2>3 DEF Under
    <3>3. n < x /\ x <= End(n)
      BY <2>2, <3>1, <3>2
    <3> QED BY <3>1, <3>3 DEF Under
  <2>5. OnPath(u, n)
    BY <1>2, <2>3, <2>4
  <2> QED BY <1>1, <2>5
<1>5. ASSUME j.inner[n] # "UNSET" \/ j.iter[n] # 0
      PROVE  j.mark[n] # "None"
  <2>1. ~Quiet(u, n)
    BY <1>1, <1>5 DEF Quiet
  <2>2. PICK i \in 1 .. Len(u.stack) : n \in Region(u.stack[i])
    BY <1>1, <2>1 DEF StopsAt, Stacked
  <2>3. PICK x \in Region(u.stack[i]) : StopsIn(u, u.stack[i], x)
    BY <1>1, Frames
  <2>4. CASE n = x
    <3>1. u.mark[n] = "Target"
      BY <2>3, <2>4 DEF StopsIn
    <3> QED BY <1>1, <3>1
  <2>5. CASE n # x
    <3>1. Under(x, n)
      BY <2>1, <2>2, <2>3, <2>5 DEF StopsIn, At
    <3>2. x \in DOMAIN T
      <4>1. u.stack[i] \in Functions(T)
        BY <1>1, Ranked DEF StopsAt
      <4> QED BY <2>3, <4>1, NoneInside
    <3>3. u.mark[x] # "None"
      BY <2>3 DEF StopsIn
    <3>4. OnPath(u, n)
      BY <1>2, <2>5, <3>1, <3>2, <3>3
    <3> QED BY <1>1, <3>4
  <2> QED BY <2>4, <2>5
<1> QED BY <1>3, <1>4, <1>5

(* The marks on the tree lead to the targets and nowhere else, and a       *)
(* selection or loop that is not on the way starts afresh.                 *)
THEOREM Jump_MarksLeadToTargets == JumpSpec => []MarksLeadToTargets
<1>1. JumpIInv => MarksLeadToTargets
  <2> SUFFICES ASSUME JumpIInv PROVE MarksLeadToTargets
    OBVIOUS
  <2>1. shader \in Shaders /\ jump \in Marked
    BY DEF JumpIInv, JumpInv
  <2>2. CASE res = NoResult
    <3>1. jump = Reset(FALSE)
      BY <2>2 DEF JumpIInv, JumpInv
    <3>2. \A n \in DOMAIN T : jump.mark[n] = "None" /\ jump.inner[n] = "UNSET" /\ jump.iter[n] = 0
      BY <3>1 DEF Reset
    <3>3. \A n \in DOMAIN T : ToSet(T[n].c) \ {0} \subseteq DOMAIN T
      BY <2>1, Children DEF ToSet
    <3> QED BY <3>2, <3>3 DEF MarksLeadToTargets
  <2>3. CASE res # NoResult
    <3>1. Answered(jump, res)
      BY <2>3 DEF JumpIInv, JumpInv
    <3> QED BY <2>1, <3>1, PathLeads DEF MarksLeadToTargets
  <2> QED BY <2>2, <2>3
<1> QED BY <1>1, Jump_inductive, PTL

-----------------------------------------------------------------------------
(* The targets.                                                            *)

(* A node of the body of a function lies in no other function.             *)
LEMMA InBody ==
    ASSUME shader \in Shaders, NEW f \in Functions(T), NEW g \in Functions(T),
           NEW n \in BodyOf(f), n \in Region(g), n # g
    PROVE  g = f
<1>1. /\ f \in DOMAIN T /\ g \in DOMAIN T /\ n \in DOMAIN T /\ n > f
      /\ \A m \in f + 1 .. n : T[m].k # "function"
  BY DEF BodyOf, Functions
<1>2. /\ f \in Nat /\ g \in Nat /\ n \in Nat /\ End(g) \in Nat /\ g <= n /\ n <= End(g)
  BY <1>1, Nodes DEF Region
<1>3. ~(g > f)
  <2> SUFFICES ASSUME g > f PROVE FALSE
    OBVIOUS
  <2>1. g \in f + 1 .. n
    BY <1>2
  <2> QED BY <1>1, <2>1 DEF Functions
<1>4. ~(g < f)
  <2> SUFFICES ASSUME g < f PROVE FALSE
    OBVIOUS
  <2>1. f \in Region(g) /\ f # g
    BY <1>1, <1>2 DEF Region
  <2>2. T[f].k # "function"
    BY <2>1, NoneInside
  <2> QED BY <2>2 DEF Functions
<1> QED BY <1>2, <1>3, <1>4

(* Each function on the stack has one target, and no other function has    *)
(* any.                                                                    *)
LEMMA FrameTargets ==
    ASSUME shader \in Shaders, NEW j \in Marked, NEW r, Answered(j, r), j = jump
    PROVE  /\ \A f \in Functions(T) : f \notin ToSet(j.stack) => Targets(f) = {}
           /\ \A i \in 1 .. Len(j.stack) : \E x :
                /\ Targets(j.stack[i]) = {x}
                /\ i > 1 => CallsTo(x, j.stack[i - 1])
<1> DEFINE u == Unmarked(j)
           t == r.at
<1>1. /\ u \in States /\ StopsAt(u, t) /\ u.stack = j.stack
      /\ \A m \in DOMAIN T :
           /\ u.mark[m] \in {"None", "Target"}
           /\ j.mark[m] = IF u.mark[m] # "None" THEN u.mark[m]
                          ELSE IF OnPath(u, m) THEN "Path" ELSE "None"
  BY AnsweredMarks
<1> HIDE DEF u, t
<1>2. \A m \in DOMAIN T : j.mark[m] = "Target" <=> u.mark[m] # "None"
  BY <1>1
<1>3. \A i \in 1 .. Len(j.stack) : j.stack[i] \in Functions(T) /\ j.stack[i] \in DOMAIN T
  BY <1>1, Ranked DEF StopsAt, Functions
<1>4. ASSUME NEW f \in Functions(T), NEW n \in Targets(f)
      PROVE  \E i \in 1 .. Len(j.stack) : j.stack[i] = f /\ StopsIn(u, f, n) /\ n \in Region(f)
  <2>1. n \in BodyOf(f) /\ n \in DOMAIN T /\ u.mark[n] # "None"
    BY <1>2 DEF Targets, BodyOf
  <2>2. PICK i \in 1 .. Len(u.stack) : /\ u.stack[i] \in Functions(T)
                                       /\ n \in Region(u.stack[i]) /\ StopsIn(u, u.stack[i], n)
    BY <1>1, <2>1, MarkedIsStop
  <2>3. n # u.stack[i]
    BY <2>2 DEF StopsIn
  <2>4. u.stack[i] = f
    BY <2>1, <2>2, <2>3, InBody
  <2> QED BY <1>1, <2>2, <2>4
<1>5. ASSUME NEW f \in Functions(T), f \notin ToSet(j.stack) PROVE Targets(f) = {}
  <2> SUFFICES ASSUME NEW n \in Targets(f) PROVE FALSE
    OBVIOUS
  <2>1. PICK i \in 1 .. Len(j.stack) : j.stack[i] = f
    BY <1>4
  <2>2. j.stack \in Seq(Functions(T))
    BY DEF Marked, Stacks
  <2>3. i \in DOMAIN j.stack
    BY <2>2
  <2> QED BY <1>5, <2>1, <2>3 DEF ToSet
<1>6. ASSUME NEW i \in 1 .. Len(j.stack)
      PROVE  \E x : Targets(j.stack[i]) = {x} /\ (i > 1 => CallsTo(x, j.stack[i - 1]))
  <2> DEFINE f == j.stack[i]
  <2>1. f \in Functions(T) /\ f \in DOMAIN T
    BY <1>3
  <2>2. PICK x \in Region(f) : StopsIn(u, f, x) /\ (i > 1 => CallsTo(x, j.stack[i - 1]))
    BY <1>1, Frames
  <2> HIDE DEF f
  <2>3. x \in DOMAIN T /\ x # f /\ j.mark[x] = "Target"
    <3>1. x \in DOMAIN T
      BY <2>1, NoneInside
    <3> QED BY <1>2, <2>2, <3>1 DEF StopsIn
  <2>4. x \in BodyOf(f)
    <3>1. f \in Nat /\ x \in Nat /\ End(f) \in Nat /\ f < x /\ x <= End(f)
      BY <2>1, <2>3, Nodes DEF Region
    <3>2. ASSUME NEW m \in f + 1 .. x PROVE T[m].k # "function"
      <4>1. m \in Region(f) /\ m # f
        BY <3>1 DEF Region
      <4> QED BY <2>1, <4>1, NoneInside
    <3> QED BY <2>3, <3>1, <3>2 DEF BodyOf
  <2>5. x \in Targets(f)
    BY <2>3, <2>4 DEF Targets
  <2>6. ASSUME NEW n \in Targets(f) PROVE n = x
    <3>1. n \in Region(f) /\ u.mark[n] # "None"
      <4>1. n \in Region(f) /\ StopsIn(u, f, n)
        BY <1>4, <2>1
      <4> QED BY <4>1 DEF StopsIn
    <3> QED BY <2>2, <3>1 DEF StopsIn, At, Leads, Quiet
  <2>7. Targets(f) = {x}
    BY <2>5, <2>6
  <2> QED BY <2>2, <2>7 DEF f
<1> QED BY <1>5, <1>6

(* Exactly the functions on the parse stack have a target, one each, and   *)
(* the target of a caller is the call of the function above it.            *)
THEOREM Jump_OneTargetPerFrame == JumpSpec => []OneTargetPerFrame
<1>1. JumpIInv => OneTargetPerFrame
  <2> SUFFICES ASSUME JumpIInv PROVE OneTargetPerFrame
    OBVIOUS
  <2> DEFINE frames == jump.stack
  <2>1. shader \in Shaders /\ jump \in Marked
    BY DEF JumpIInv, JumpInv
  <2>2. CASE res = NoResult
    <3>1. jump = Reset(FALSE)
      BY <2>2 DEF JumpIInv, JumpInv
    <3>2. frames = <<>> /\ \A n \in DOMAIN T : jump.mark[n] = "None"
      BY <3>1 DEF Reset
    <3>3. \A f : Targets(f) = {}
      BY <3>2 DEF Targets, BodyOf
    <3>4. DOMAIN frames = {}
      BY <3>2
    <3> QED BY <3>3, <3>4 DEF OneTargetPerFrame
  <2>3. CASE res # NoResult
    <3>1. Answered(jump, res)
      BY <2>3 DEF JumpIInv, JumpInv
    <3>2. DOMAIN frames = 1 .. Len(frames)
      <4>1. frames \in Seq(Functions(T))
        BY <2>1 DEF Marked, Stacks
      <4> QED BY <4>1
    <3>3. /\ \A f \in Functions(T) : f \notin ToSet(frames) => Targets(f) = {}
          /\ \A i \in 1 .. Len(frames) : \E x :
               /\ Targets(frames[i]) = {x}
               /\ i > 1 => CallsTo(x, frames[i - 1])
      BY <2>1, <3>1, FrameTargets
    <3> HIDE DEF frames
    <3>4. ASSUME NEW i \in DOMAIN frames
          PROVE  /\ Cardinality(Targets(frames[i])) = 1
                 /\ i > 1 => \A n \in Targets(frames[i]) :
                       T[n].k = "call" /\ FunctionNamed(T, T[n].f) = frames[i - 1]
      <4>1. PICK x : Targets(frames[i]) = {x} /\ (i > 1 => CallsTo(x, frames[i - 1]))
        BY <3>2, <3>3
      <4>2. Cardinality(Targets(frames[i])) = 1
        BY <4>1, FS_Singleton
      <4> QED BY <4>1, <4>2 DEF CallsTo
    <3> QED BY <3>3, <3>4 DEF OneTargetPerFrame, frames
  <2> QED BY <2>2, <2>3
<1> QED BY <1>1, Jump_inductive, PTL
=============================================================================
