---------------------------- MODULE MCShaderStepping ----------------------------
(* Instances of ShaderStepping: the shaders that combine two statements out *)
(* of a set with a leaf each, and two that the code steps badly.            *)
EXTENDS ShaderStepping, TestShaders
CONSTANTS Leaves, Kinds
All == Combined(Leaves, Kinds)
=============================================================================
