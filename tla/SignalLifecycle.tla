-------------------------- MODULE SignalLifecycle --------------------------
(***************************************************************************)
(* What a signal promises its readers, without executions, pins, requests  *)
(* or photos: the moves its status may make.  A closed signal is closed    *)
(* for good, a merged one is gone, work is what puts it in progress, and   *)
(* an interesting signal is never resolved without work.                   *)
(***************************************************************************)
CONSTANT Signals
VARIABLE status

Moves ==
    { <<"absent", "open">>, <<"open", "interesting">>,
      <<"open", "in_progress">>, <<"interesting", "in_progress">>,
      <<"in_progress", "open">>,
      <<"open", "resolved">>, <<"in_progress", "resolved">>,
      <<"open", "canceled">>, <<"interesting", "canceled">>,
      <<"open", "merged">>, <<"interesting", "merged">>,
      <<"in_progress", "merged">> }

Statuses == {m[1] : m \in Moves} \cup {m[2] : m \in Moves}

Init == status = [s \in Signals |-> "absent"]

(* Merging moves two signals at once, an AI output opens several. *)
Next ==
    /\ status' \in [Signals -> Statuses]
    /\ \A s \in Signals :
        status'[s] = status[s] \/ <<status[s], status'[s]>> \in Moves

Spec == Init /\ [][Next]_status
=============================================================================
