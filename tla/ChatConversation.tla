--------------------------- MODULE ChatConversation ---------------------------
(***************************************************************************)
(* What sending files in a conversation promises, without locks, storage,  *)
(* tasks or runs of the cleanup: a message shows exactly the files of one  *)
(* request, each file in one message at most, unchanged until the message  *)
(* goes, when it is old or with the conversation; who repeats a request is *)
(* told that its message is there, and is not refused while it is.         *)
(***************************************************************************)
CONSTANTS Uploads, Keys, Requests, KeyOf, UploadsOf

VARIABLES
    message,     \* of each key: none, sent, or old enough to be purged
    shown,       \* the files a reader gets with the message of each key
    spent,       \* uploads that cannot be sent any more
    answer,      \* what each request was told
    open

vars == <<message, shown, spent, answer, open>>

Init ==
    /\ message = [k \in Keys |-> "none"]
    /\ shown = [k \in Keys |-> {}]
    /\ spent = {}
    /\ answer = [r \in Requests |-> "none"]
    /\ open = TRUE

Send(r) ==
    /\ message[KeyOf[r]] = "none"
    /\ UploadsOf[r] \cap spent = {}
    /\ message' = [message EXCEPT ![KeyOf[r]] = "sent"]
    /\ shown' = [shown EXCEPT ![KeyOf[r]] = UploadsOf[r]]
    /\ spent' = spent \cup UploadsOf[r]
    /\ answer' = [answer EXCEPT ![r] = "answered"]

Repeat(r) ==
    /\ message[KeyOf[r]] # "none"
    /\ answer' = [answer EXCEPT ![r] = "answered"]
    /\ UNCHANGED <<message, shown, spent>>

Refuse(r) ==
    /\ message[KeyOf[r]] = "none" \/ shown[KeyOf[r]] # UploadsOf[r]
    /\ answer' = [answer EXCEPT ![r] = "refused"]
    /\ UNCHANGED <<message, shown, spent>>

Request(r) ==
    /\ answer[r] = "none"
    /\ \/ open /\ (Send(r) \/ Repeat(r))
       \/ Refuse(r)
    /\ UNCHANGED open

(* Uploads that were never sent, or no longer are, are given up.           *)
Spend ==
    /\ spent' \in SUBSET Uploads /\ spent \subseteq spent'
    /\ UNCHANGED <<message, shown, answer, open>>

Age(k) ==
    /\ message[k] = "sent"
    /\ message' = [message EXCEPT ![k] = "old"]
    /\ UNCHANGED <<shown, spent, answer, open>>

Forget(S) ==
    /\ message' = [k \in Keys |-> IF k \in S THEN "none" ELSE message[k]]
    /\ shown' = [k \in Keys |-> IF k \in S THEN {} ELSE shown[k]]

Purge(S) ==
    /\ \A k \in S : message[k] = "old"
    /\ Forget(S)
    /\ UNCHANGED <<spent, answer, open>>

Close ==
    /\ open' = FALSE
    /\ Forget(Keys)
    /\ spent' \in SUBSET Uploads /\ spent \subseteq spent'
    /\ UNCHANGED answer

Next ==
    \/ Spend
    \/ \E r \in Requests : Request(r)
    \/ \E k \in Keys : Age(k)
    \/ \E S \in SUBSET Keys : Purge(S)
    \/ Close

Spec == Init /\ [][Next]_vars
=============================================================================
