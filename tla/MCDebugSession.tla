---------------------------- MODULE MCDebugSession ----------------------------
(* Instances of DebugSession: a plain call, a draw call and a shader       *)
(* switch, the values of the constants as definitions.                     *)
EXTENDS DebugSession
CONSTANTS plain, draw, switch
=============================================================================
