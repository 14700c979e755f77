------------------------------- MODULE MCHLS -------------------------------
(* Instances of HLS. *)
EXTENDS HLS

CONSTANTS n1, m1, m2, q1, q2

=============================================================================
