------------------------- MODULE ObservationOutcome -------------------------
(***************************************************************************)
(* What the processing pipeline promises about a submitted observation,    *)
(* without workers, messages or sweeps: it is accepted once, and then      *)
(* either its AI output is applied, once and for good, or it is abandoned, *)
(* and then no output of it is ever applied.                               *)
(***************************************************************************)
CONSTANT Observations
VARIABLE outcome

Init == outcome = [o \in Observations |-> "absent"]

Become(o, from, to) ==
    outcome[o] = from /\ outcome' = [outcome EXCEPT ![o] = to]

Accept(o)      == Become(o, "absent", "pending")
ApplyOutput(o) == Become(o, "pending", "applied")
Abandon(o)     == Become(o, "pending", "abandoned")

Next == \E o \in Observations : Accept(o) \/ ApplyOutput(o) \/ Abandon(o)

Spec == Init /\ [][Next]_outcome
=============================================================================
