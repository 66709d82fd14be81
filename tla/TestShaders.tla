------------------------------- MODULE TestShaders -------------------------------
(* The shaders of the instances.  Most combine two statements, out of a set *)
(* with a leaf each.                                                        *)
EXTENDS ShaderTerms, DebugVar

Const    == Node("constant", <<>>)
Block(c) == Node("sequence", c)
Incr(e)  == Node("incr", <<e>>)
Plus(a, b) == Node("binary", <<a, b>>)
If(c, a, b) == Node("selection", <<c, a, b>>)

X == Symbol("x")
F(e) == Call("f", <<e>>, {})

(* float f(float p) { u += p; return p; }   void g(out float q) { q = f(1.0); } *)
FunctionF == Function("f", {"p"}, {"p"},
                 Block(<<Assign(Symbol("u"), Symbol("p")), Return(Symbol("p"))>>))
FunctionG == Function("g", {"q"}, {}, Block(<<Assign(Symbol("q"), F(Const))>>))

Shader(s) == Prepared(Tree(Block(<<Declaration("u", Absent), FunctionF, FunctionG,
    Function("main", {}, {},
             Block(<<Declaration("x", Absent), s, Node("dummy", <<>>)>>))>>)))

Leaf(i) ==
    <<Assign(X, Plus(F(X), F(Const))),
      Block(<<Initialized("z", Node("unary", <<X>>)), Incr(Symbol("z"))>>),
      Call("g", <<X>>, {1}),
      Block(<<BuiltIn(<<>>, {"EMIT"}), Assign(Node("index", <<X, Const>>), F(F(X)))>>)>>[i]

Compound(i, s) ==
    <<s,
      If(F(X), Block(<<s>>), Absent),
      If(X, Block(<<s>>), Block(<<Incr(Symbol("u"))>>)),
      Loop("while", <<Absent, F(X), Absent, s>>),
      Loop("for", <<Initialized("i", Const), Plus(Symbol("i"), Const), Incr(Symbol("i")), s>>),
      Loop("do", <<Absent, F(X), Absent, s>>)>>[i]

Combined(leaves, kinds) ==
    {Shader(Compound(i, Leaf(l))) : i \in kinds, l \in leaves} \cup
    {Shader(Compound(i, Compound(j, Leaf(1)))) : i \in kinds, j \in kinds}

(* A loop in the body of another one.                                      *)
Nested == {Shader(Compound(4, Compound(5, Leaf(1))))}

(* x = texture(f(x)): the argument of a built-in function calls f.         *)
Sampled == {Shader(Assign(X, BuiltIn(<<F(X)>>, {})))}

(* x = f(-f(x)).                                                           *)
Negated == {Shader(Assign(X, F(Node("unary", <<F(X)>>))))}

-----------------------------------------------------------------------------
(* Control that does not go on with the next statement: if (x) leave; x++; *)
LeaveIf(branch) == Block(<<If(X, Block(<<branch>>), Absent), Incr(X)>>)
Leaving(kind, loops) == {Shader(Compound(i, LeaveIf(Leave(kind)))) : i \in loops}

(* f with the given body instead, called once.                             *)
CallOf(body) ==
    Prepared(Tree(Block(<<Declaration("u", Absent), Function("f", {"p"}, {"p"}, body),
        Function("main", {}, {}, Block(<<Declaration("x", Absent), Assign(X, F(X)),
                                         Node("dummy", <<>>)>>))>>)))

(* A return that leaves the function in the middle, and a loop in it.      *)
EarlyReturn ==
    {CallOf(Block(<<If(Symbol("p"), Block(<<Return(Symbol("p"))>>), Absent),
                    Assign(Symbol("u"), Symbol("p")), Return(Symbol("p"))>>))}
LoopInside ==
    {CallOf(Block(<<Loop("for", <<Absent, Symbol("p"), Absent, Incr(Symbol("p"))>>),
                    Return(Symbol("p"))>>))}
=============================================================================
