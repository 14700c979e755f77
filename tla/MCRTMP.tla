------------------------------- MODULE MCRTMP -------------------------------
(* Bounds for model checking RTMP. *)
EXTENDS RTMP
CONSTANTS c1, c2

\* Two connections, but one when its command is followed as well.
MCMaxConns == [b \in BOOLEAN |-> IF b THEN 1 ELSE 2]
=============================================================================
