------------------------------- MODULE ShaderTree -------------------------------
(***************************************************************************)
(* The intermediate tree of a compiled shader, as the passes of the        *)
(* debugger see it (glslang: intermediate.h, glslang.y).                   *)
(*                                                                         *)
(* A tree is the sequence of its nodes in preorder, the root first; c      *)
(* holds the numbers of a node's children, 0 where there is none (an empty *)
(* block is no node).  ShaderTerms makes trees.                            *)
(***************************************************************************)
EXTENDS Naturals, Sequences, SequencesExt

(* The fields of a node.  k: its kind; f: the name of a function, or the   *)
(* type of a loop, or where a branch goes ("return", "break", "continue"   *)
(* or "discard"); v: the variable of a symbol or declaration, what a       *)
(* built-in function or a branch does ("EMIT", "DISCARD"), or the in and   *)
(* inout parameters of a function; p: all of its parameters; o: the        *)
(* positions of the out and inout arguments of a call.                     *)
Left(t, n)  == t[n].c[1]
Right(t, n) == t[n].c[2]

(* The definition of a function: the root is one itself, or holds them.    *)
FunctionNamed(t, name) ==
    LET found == {n \in {1} \cup ToSet(t[1].c) :
                     n # 0 /\ t[n].k = "function" /\ t[n].f = name}
    IN  IF found = {} THEN 0 ELSE Min(found)
=============================================================================
