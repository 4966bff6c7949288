------------------------- MODULE MCPhotoSubmission -------------------------
(* A small instance of PhotoSubmission for TLC: a submission of two photos *)
(* and its repetition, a submission under the same key without photos, and *)
(* one under another key that names one of the photos again.               *)
EXTENDS PhotoSubmission

CONSTANTS u1, u2, k1, k2, first, again, other, rival

Key == [r \in {first, again, other, rival} |-> IF r = rival THEN k2 ELSE k1]

Photos ==
    [r \in {first, again, other, rival} |->
        CASE r = other -> {}
          [] r = rival -> {u2}
          [] OTHER -> {u1, u2}]

(* Without the repetition, so that all interleavings of the others fit.    *)
RaceKey == [r \in {first, other, rival} |-> Key[r]]
RacePhotos == [r \in {first, other, rival} |-> Photos[r]]
=============================================================================
