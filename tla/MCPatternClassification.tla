----------------------- MODULE MCPatternClassification -----------------------
(* Small instances of PatternClassification for TLC.                         *)
EXTENDS PatternClassification, TLC

CONSTANTS l1, p1, e1

OneLabel == p1 :> l1
OneHome  == [s \in Signals |-> e1]
=============================================================================
