------------------------- MODULE MCSignalExecution -------------------------
(* A small instance of SignalExecution for TLC: an observation that may    *)
(* become two signals, another that may become one, and two executions.    *)
EXTENDS SignalExecution, TLC

CONSTANTS o1, o2, a, b, c, e1, e2

OriginOf == [s \in {a, b, c} |-> IF s = c THEN o2 ELSE o1]

Interchangeable == {p @@ q : p \in Permutations({a, b}), q \in Permutations({e1, e2})}
=============================================================================
