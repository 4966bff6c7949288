--------------------------- MODULE PhotoLifecycle ---------------------------
(***************************************************************************)
(* What Houston promises about a photo, without requests, clocks or        *)
(* storage: it waits for its observation, then it is attached and can be   *)
(* read, and once it is gone, with or without an observation, it never     *)
(* comes back.                                                             *)
(***************************************************************************)
CONSTANT Uploads
VARIABLE photo

Moves == { <<"absent", "waiting">>, <<"waiting", "attached">>,
           <<"waiting", "gone">>, <<"attached", "gone">> }

Stages == {m[1] : m \in Moves} \cup {m[2] : m \in Moves}

Init == photo = [u \in Uploads |-> "absent"]

(* An observation attaches all its photos at once and loses all at once.   *)
Next ==
    /\ photo' \in [Uploads -> Stages]
    /\ \A u \in Uploads : photo'[u] = photo[u] \/ <<photo[u], photo'[u]>> \in Moves

Spec == Init /\ [][Next]_photo
=============================================================================
