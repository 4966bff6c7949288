------------------------- MODULE OccurrenceLifecycle -------------------------
(***************************************************************************)
(* What Houston promises about one date of a schedule, without commands,   *)
(* runs or clocks: it is planned, moved, withdrawn and planned again as    *)
(* the schedule changes, until it starts.  From then on it keeps its time  *)
(* and is in the hands of people, and what they completed or canceled is   *)
(* final.                                                                  *)
(***************************************************************************)
CONSTANTS Slots, Windows
VARIABLES stage, window

vars == <<stage, window>>

(* As the schedule says, or because the time has come.                     *)
Plans == { <<"none", "planned">>, <<"none", "running">>,
           <<"planned", "running">>, <<"planned", "withdrawn">>, <<"planned", "none">>,
           <<"withdrawn", "planned">>, <<"withdrawn", "running">> }

Decisions == { <<"planned", "canceled">>,
               <<"running", "waiting">>, <<"running", "done">>, <<"running", "canceled">>,
               <<"waiting", "running">>, <<"waiting", "done">>, <<"waiting", "canceled">> }

Moves  == Plans \cup Decisions
Stages == {m[1] : m \in Moves} \cup {m[2] : m \in Moves}

Movable == {"none", "planned", "withdrawn"}

Init ==
    /\ stage = [s \in Slots |-> "none"]
    /\ window \in [Slots -> Windows]

Next ==
    /\ stage' \in [Slots -> Stages]
    /\ window' \in [Slots -> Windows]
    /\ \A s \in Slots :
        /\ stage'[s] = stage[s] \/ <<stage[s], stage'[s]>> \in Moves
        /\ stage[s] \notin Movable => window'[s] = window[s]

Spec == Init /\ [][Next]_vars
=============================================================================
