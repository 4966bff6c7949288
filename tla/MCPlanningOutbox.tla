-------------------------- MODULE MCPlanningOutbox --------------------------
(* A small instance of PlanningOutbox for TLC: a submission, its           *)
(* repetition and another content under the same id, with two effects that *)
(* send one notice.                                                        *)
EXTENDS PlanningOutbox

CONSTANTS first, again, other, k, e1, e2, notice, plan1, plan2

Key     == [r \in {first, again, other} |-> k]
Intent  == [r \in {first, again, other} |-> IF r = other THEN plan2 ELSE plan1]
Effects == [r \in {first, again, other} |-> IF r = other THEN {} ELSE {e1, e2}]
Notice  == [e \in {e1, e2} |-> notice]
=============================================================================
