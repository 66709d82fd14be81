----------------------------- MODULE MCShaderDebug -----------------------------
(* Instance of ShaderDebug: the frame of an application.                   *)
EXTENDS ShaderDebug

(* A primitive of two vertices, a draw call, another call, and the end of  *)
(* the frame.                                                              *)
MixedFrame == <<"begin", "vertex", "vertex", "end", "draw", "other", "swap">>
=============================================================================
