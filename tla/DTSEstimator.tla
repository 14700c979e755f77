---------------------------- MODULE DTSEstimator ----------------------------
(***************************************************************************)
(* The DTS estimator of h264/dtsestimator.go.  An H264 frame arrives with  *)
(* its presentation time only, in decoding order; MPEG-TS wants a decoding *)
(* time too.  Times are integers, in a unit that Millisecond measures.     *)
(***************************************************************************)
EXTENDS Integers

CONSTANT Millisecond  \* the smallest step between two decoding times

ASSUME MillisecondAssumption == Millisecond \in Nat \ {0}

NewDTSEstimator ==
    [initializing |-> 2, prevDTS |-> 0, prevPTS |-> 0, prevPrevPTS |-> 0]

\* Mutant: after a B frame the frame before it is used.
estimate_two(d, pts) ==
    IF pts > d.prevPTS THEN d.prevPrevPTS + Millisecond
    ELSE d.prevDTS + Millisecond

\* The decoding time of the frame that follows the first two.
estimate(d, pts) ==
    CASE pts > d.prevPTS /\ d.prevPTS < d.prevPrevPTS -> d.prevPTS
      [] pts > d.prevPTS /\ d.prevPTS >= d.prevPrevPTS -> d.prevPrevPTS + Millisecond
      [] pts <= d.prevPTS -> d.prevDTS + Millisecond

\* The estimator after Feed(pts); its prevDTS is what Feed returned.
Feed(d, pts) ==
    [initializing |-> IF d.initializing > 0 THEN d.initializing - 1 ELSE 0,
     prevDTS |-> IF d.initializing > 0 THEN d.prevDTS + Millisecond
                                       ELSE estimate(d, pts),
     prevPTS |-> pts,
     prevPrevPTS |-> d.prevPTS]

=============================================================================
