------------------------------- MODULE DbgResult --------------------------------
(***************************************************************************)
(* What ShDebugJumpToNext hands to the debugger.                           *)
(***************************************************************************)
VARIABLE res   \* its last answer (DbgResult)
=============================================================================
