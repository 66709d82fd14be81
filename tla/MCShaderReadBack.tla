---------------------------- MODULE MCShaderReadBack ----------------------------
(* Instances of ShaderReadBack: the shaders of MCShaderStepping, and some   *)
(* with branches.                                                           *)
EXTENDS ShaderReadBack, TestShaders
CONSTANTS Leaves, Kinds
All == Combined(Leaves, Kinds) \cup EarlyReturn
       \cup Leaving("break", {4, 5, 6}) \cup Leaving("continue", {5})
       \cup Leaving("discard", {1, 2})

(* Shaders that are read back wrongly: see also LoopInside and Negated.     *)
Continued == Leaving("continue", {4})
Discarded == Leaving("discard", {4})
=============================================================================
