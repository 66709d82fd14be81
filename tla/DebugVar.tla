-------------------------------- MODULE DebugVar --------------------------------
(***************************************************************************)
(* What DebugVar.cpp notes at every node of a shader's tree before it is   *)
(* stepped: the variables a statement changes, whether it emits a vertex   *)
(* or discards the fragment, and the variables in scope.                   *)
(***************************************************************************)
EXTENDS ShaderTree

RECURSIVE LastBelow(_, _)
LastBelow(t, n) ==   \* the last node of the subtree of n
    LET c == ToSet(t[n].c) \ {0}
    IN  IF c = {} THEN n ELSE LastBelow(t, Max(c))

(* The changeables of a node.  A symbol counts only where it is written,   *)
(* i.e. when the traverser is active.  The index of an array access and    *)
(* the arguments of a built-in function are not visited.                   *)
RECURSIVE Cgb(_, _, _)
Cgb(t, n, active) ==
    IF n = 0 THEN {}
    ELSE LET r       == t[n]
             Children == UNION {Cgb(t, i, FALSE) : i \in ToSet(r.c)}
         IN  CASE r.k = "symbol"   -> IF active THEN r.v ELSE {}
               [] r.k = "index"    -> Cgb(t, Left(t, n), active)
               [] r.k = "assign"   -> Cgb(t, Left(t, n), TRUE) \cup Cgb(t, Right(t, n), FALSE)
               [] r.k = "incr"     -> Cgb(t, Left(t, n), TRUE)
               [] r.k = "builtin"  -> {}
               [] r.k = "function" -> r.v \cup Children
               [] r.k = "call"     -> Cgb(t, FunctionNamed(t, r.f), FALSE) \cup
                                      UNION {Cgb(t, r.c[i], i \in r.o) : i \in DOMAIN r.c}
               [] OTHER            -> Children

(* The cgbParameterList: what the return of a call changes in the caller,  *)
(* or what entering a function sets.                                       *)
CgbParameter(t, n) ==
    IF t[n].k = "call" THEN UNION {Cgb(t, t[n].c[i], TRUE) : i \in t[n].o} ELSE t[n].v

(* containsEmitVertex and containsDiscard.  A call has those of the        *)
(* function, not those of its arguments; a selection those of its blocks.  *)
RECURSIVE Flags(_, _)
Flags(t, n) ==
    IF n = 0 THEN {}
    ELSE LET r     == t[n]
             Of(S) == UNION {Flags(t, i) : i \in S}
         IN  CASE r.k = "symbol"  -> {}
               [] r.k = "index"   -> Flags(t, Left(t, n))
               [] r.k = "builtin" -> r.v
               [] r.k = "branch"  -> r.v \cup Of(ToSet(r.c))
               [] r.k = "call"    -> Flags(t, FunctionNamed(t, r.f))
               [] r.k \in {"selection", "switch"} -> Of(ToSet(Tail(r.c)))
               [] OTHER           -> Of(ToSet(r.c))

(* The scope a node is given.  A declaration holds behind itself, until    *)
(* the end of the innermost block, loop, function or branch of a selection *)
(* around it; a parameter holds in its function.                           *)
HasScope(r) ==
    /\ r.k \notin {"declaration", "unary", "symbol", "constant"}
    /\ r.k = "branch" => r.c[1] # 0

Blocks(t) ==
    {1} \cup {n \in DOMAIN t : t[n].k \in {"sequence", "function", "loop"}}
        \cup UNION {ToSet(t[n].c) \ {0} : n \in {m \in DOMAIN t : t[m].k = "selection"}}

Scopes(t) ==
    LET end   == [n \in DOMAIN t |-> LastBelow(t, n)]
        until == [n \in DOMAIN t |-> end[Max({b \in Blocks(t) : b <= n /\ n <= end[b]})]]
        In(n) ==
            UNION {t[m].p : m \in {f \in DOMAIN t : n \in f + 1 .. end[f]}} \cup
            UNION {t[m].v : m \in {d \in DOMAIN t : t[d].k = "declaration" /\
                                                   n \in end[d] + 1 .. until[d]}}
    IN  [n \in DOMAIN t |-> IF HasScope(t[n]) THEN In(n) ELSE {}]

(* Everything DebugVar notes for the tree t, and where subtrees end.       *)
Noted(t) ==
    [end   |-> [n \in DOMAIN t |-> LastBelow(t, n)],
     cgb   |-> [n \in DOMAIN t |-> Cgb(t, n, FALSE)],
     left  |-> [n \in DOMAIN t |-> IF t[n].k = "assign" THEN Cgb(t, Left(t, n), TRUE) ELSE {}],
     param |-> [n \in DOMAIN t |-> CgbParameter(t, n)],
     flags |-> [n \in DOMAIN t |-> Flags(t, n)],
     scope |-> Scopes(t)]

(* The shader with the tree t, ready to be stepped.                        *)
Prepared(t) == [tree |-> t, notes |-> Noted(t)]
=============================================================================
