------------------------------- MODULE MCRTSP -------------------------------
(* Bounds for model checking RTSP, and what the documentation of the API    *)
(* says about kicks.                                                        *)
EXTENDS RTSP, TLC
CONSTANTS s1, s2, k1, k2

\* Sessions, and API requests, are interchangeable.
Symmetric == Permutations(Sessions) \cup Permutations(Kickers)

\* "kicks out a RTSP session from the server" (apidocs/openapi.yaml:436): a
\* session whose kick has returned, and whose goroutine has ended, is no longer
\* known to the path.
KickedSessionsLeave ==
    \A s \in Sessions :
        /\ se[s].kicked /\ se[s].pc = "gone" /\ ~se[s].badTrack
        /\ writeLockFree /\ ~panicked
        => pa.readers[s] = "none" /\ pa.source # s

=============================================================================
