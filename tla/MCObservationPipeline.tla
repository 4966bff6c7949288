----------------------- MODULE MCObservationPipeline -----------------------
(* Small instances of ObservationPipeline for TLC. *)
EXTENDS ObservationPipeline, TLC

WorkerSymmetry == Permutations(Workers)
=============================================================================
