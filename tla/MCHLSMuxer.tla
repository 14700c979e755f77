----------------------------- MODULE MCHLSMuxer -----------------------------
(* Bounds for model checking HLSMuxer. *)
EXTENDS HLSMuxer

CONSTANT r1

MCMaxAUs == [video \in BOOLEAN |-> IF video THEN 1 ELSE 7]

=============================================================================
