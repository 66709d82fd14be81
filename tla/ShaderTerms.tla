------------------------------ MODULE ShaderTerms ------------------------------
(***************************************************************************)
(* Shaders written as nested terms, and the trees that they are.           *)
(***************************************************************************)
EXTENDS ShaderTree

Absent == [k |-> "absent"]

Node(kind, children) ==
    [k |-> kind, c |-> children, f |-> "", v |-> {}, p |-> {}, o |-> {}]

Symbol(x)             == [Node("symbol", <<>>) EXCEPT !.v = {x}]
Declaration(x, init)  == [Node("declaration", <<init>>) EXCEPT !.v = {x}]
Return(expression)    == [Node("branch", <<expression>>) EXCEPT !.f = "return"]
Leave(kind)           == [Node("branch", <<Absent>>) EXCEPT !.f = kind,
                              !.v = IF kind = "discard" THEN {"DISCARD"} ELSE {}]
BuiltIn(args, S)      == [Node("builtin", args) EXCEPT !.v = S]
Loop(type, parts)     == [Node("loop", parts) EXCEPT !.f = type]
Call(name, args, outs) ==
    [Node("call", args) EXCEPT !.f = name, !.o = outs]
Function(name, params, copied, body) ==
    [Node("function", <<body>>) EXCEPT !.f = name, !.p = params, !.v = copied]

(* An assignment, and the declaration of a variable with an initial value, *)
(* which is an assignment to its symbol.                                   *)
Assign(left, right) == Node("assign", <<left, right>>)
Initialized(x, e)   == Declaration(x, Assign(Symbol(x), e))

RECURSIVE Rows(_, _), Below(_, _)
Rows(term, n) ==
    LET kids == Below(term.c, n + 1)
    IN  <<[term EXCEPT !.c = kids.ids]>> \o kids.rows

Below(terms, n) ==
    IF terms = <<>> THEN [ids |-> <<>>, rows |-> <<>>]
    ELSE LET absent == Head(terms) = Absent
             first  == IF absent THEN <<>> ELSE Rows(Head(terms), n)
             rest   == Below(Tail(terms), n + Len(first))
         IN  [ids  |-> <<IF absent THEN 0 ELSE n>> \o rest.ids,
              rows |-> first \o rest.rows]

Tree(term) == Rows(term, 1)
=============================================================================
