---------------------------- MODULE SteppedProgram ----------------------------
(***************************************************************************)
(* What a debugging session promises its user, without records, signals    *)
(* or processes: a program that runs until it parks at a GL call, stays    *)
(* there while the user is in control, has the call executed at most once  *)
(* on the user's behalf and then runs on.                                  *)
(***************************************************************************)
EXTENDS Naturals

VARIABLES
    phase,      \* "absent", "running" or "parked" at a GL call
    executed,   \* how often the call it is parked at was executed
    user        \* the user is in control

pvars == <<phase, executed, user>>

Init == phase = "absent" /\ executed = 0 /\ user = FALSE

Start ==
    /\ phase = "absent"
    /\ phase' = "running"
    /\ UNCHANGED <<executed, user>>

Park ==
    /\ phase = "running"
    /\ phase' = "parked"
    /\ UNCHANGED <<executed, user>>

(* The user gets control only of a program that is parked at a call that   *)
(* is still to be executed, and nothing moves while he has it.             *)
Grant ==
    /\ phase = "parked" /\ executed = 0 /\ ~user
    /\ user' = TRUE
    /\ UNCHANGED <<phase, executed>>

Take ==
    /\ user
    /\ user' = FALSE
    /\ UNCHANGED <<phase, executed>>

Execute ==
    /\ phase = "parked" /\ executed = 0 /\ ~user
    /\ executed' = 1
    /\ UNCHANGED <<phase, user>>

Continue ==
    /\ phase = "parked" /\ ~user
    /\ phase' = "running" /\ executed' = 0
    /\ UNCHANGED user

End ==
    /\ phase # "absent"
    /\ phase' = "absent" /\ executed' = 0 /\ user' = FALSE

Next == Start \/ Park \/ Grant \/ Take \/ Execute \/ Continue \/ End

Spec == Init /\ [][Next]_pvars
=============================================================================
