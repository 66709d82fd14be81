------------------------------- MODULE ShaderWalk -------------------------------
(***************************************************************************)
(* What the stepping of a shader promises its user: every step executes    *)
(* what the shader says comes next, stops where it should, and names at    *)
(* least the variables that it wrote, and a vertex it emitted.             *)
(***************************************************************************)
EXTENDS ShaderEffects

CONSTANT Shaders

VARIABLES
    agenda,     \* what is still to be executed; the first item is the stop
    reported    \* the changes named by the last answer

walk == <<shader, agenda, reported>>

Arrive(r) == agenda' = r.agenda /\ r.wrote \subseteq reported' /\ UNCHANGED shader

Init == shader \in Shaders /\ agenda = Begun /\ reported = {}

(* The first stop, also after a reset.                                     *)
Restart == Arrive(Run(Begun, {}))

(* A loop offers its next iteration only where it asks which way to go.    *)
Step(bh) ==
    /\ agenda # <<>> /\ Head(agenda).do = "stop"
    /\ bh = "NEXT" => Head(agenda).phase = "choose"
    /\ Arrive(After(agenda, bh))

Next == Restart \/ \E bh \in {"INTO", "ELSE", "OVER", "NEXT"} : Step(bh)

Spec == Init /\ [][Next]_walk
=============================================================================
