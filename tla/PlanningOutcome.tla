--------------------------- MODULE PlanningOutcome ---------------------------
(***************************************************************************)
(* What submitting a planning promises, without transactions, rows, leases *)
(* or workers: under one id one request is carried out, before its plan is *)
(* deleted if at all; every other request of the id is told of it, an      *)
(* answer is never taken back, and people are told only of what was        *)
(* carried out.                                                            *)
(***************************************************************************)
CONSTANTS Requests, Keys, KeyOf, IntentOf, NoticesOf
VARIABLES answer, deleted, told

vars == <<answer, deleted, told>>

Init ==
    /\ answer = [r \in Requests |-> "none"]
    /\ deleted = {}
    /\ told = {}

CarriedOut == {r \in Requests : answer[r] = "created"}

Create(r) ==
    /\ KeyOf[r] \notin deleted
    /\ \A q \in CarriedOut : KeyOf[q] # KeyOf[r]
    /\ answer' = [answer EXCEPT ![r] = "created"]

Repeat(r) ==
    \E q \in CarriedOut :
        /\ KeyOf[q] = KeyOf[r]
        /\ KeyOf[r] \notin deleted
        /\ answer' = [answer EXCEPT
                ![r] = IF IntentOf[q] = IntentOf[r] THEN "replayed" ELSE "conflict"]

Refuse(r) == answer' = [answer EXCEPT ![r] = "refused"]

Request(r) ==
    /\ answer[r] = "none"
    /\ Create(r) \/ Repeat(r) \/ Refuse(r)
    /\ UNCHANGED <<deleted, told>>

Delete(k) ==
    /\ deleted' = deleted \cup {k}
    /\ UNCHANGED <<answer, told>>

Tell(n) ==
    /\ \E r \in CarriedOut : n \in NoticesOf[r]
    /\ told' = told \cup {n}
    /\ UNCHANGED <<answer, deleted>>

Next ==
    \/ \E r \in Requests : Request(r)
    \/ \E k \in Keys : Delete(k)
    \/ \E n \in UNION {NoticesOf[r] : r \in Requests} : Tell(n)

Spec == Init /\ [][Next]_vars
=============================================================================
