------------------------- MODULE MCChatAttachments -------------------------
(* Small instances of ChatAttachments for TLC.                               *)
EXTENDS ChatAttachments, TLC

CONSTANTS u1, w1, k1, k2, first, again, bare, other

Key    == [r \in Requests |-> IF r = other THEN k2 ELSE k1]
Attach == [r \in Requests |-> IF r = bare THEN {} ELSE {u1}]
=============================================================================
