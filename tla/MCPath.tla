------------------------------- MODULE MCPath -------------------------------
(* Configurations and bounds for model checking Path. *)
EXTENDS Path

CONSTANTS r1, r2, p1, p2, d1, s1, s2

Base == [source |-> "publisher", sourceOnDemand |-> FALSE,
         disablePublisherOverride |-> FALSE, fallback |-> FALSE,
         runOnInit |-> FALSE, runOnDemand |-> FALSE, runOnPublish |-> FALSE,
         regexp |-> FALSE]

\* source: publisher, source: redirect
PublisherConfs ==
    {[Base EXCEPT !.runOnPublish = TRUE, !.runOnInit = TRUE],
     [Base EXCEPT !.disablePublisherOverride = TRUE, !.fallback = TRUE],
     [Base EXCEPT !.regexp = TRUE],
     [Base EXCEPT !.source = "redirect"]}

\* source: publisher, runOnDemand
CmdConfs == {[Base EXCEPT !.runOnDemand = TRUE, !.regexp = b] : b \in BOOLEAN}

\* source: rtsp://..., always on
StaticConfs == {[Base EXCEPT !.source = "static"]}

\* source: rtsp://..., sourceOnDemand
OnDemandConfs == {[Base EXCEPT !.source = "static", !.sourceOnDemand = TRUE]}

AllStaticConfs == StaticConfs \cup OnDemandConfs
AllPublisherConfs == PublisherConfs \cup CmdConfs
AllOnDemandConfs == CmdConfs \cup OnDemandConfs

\* Safety is checked with clients where they are expected: publishers on paths
\* without a source of their own, a describer on the others. On a path with an
\* on demand source it is the describer, the second reader or a publisher, which
\* such a path accepts while it has no source.
Absent(c) == pa'.res[c] = "none" /\ (c \in Readers => sess'[c] = "initial")
SafeNext ==
    /\ Next
    /\ hasStaticSource => UNCHANGED <<psess[p2], pstream[p2]>>
    /\ hasStaticSource /\ ~isOnDemand => UNCHANGED psess
    /\ ~hasStaticSource => Absent(d1)
    /\ isOnDemand => Absent(d1) \/ Absent(r2)
    /\ isOnDemand /\ hasStaticSource /\ (psess'[p1] # "initial" \/ pa'.countPublishers # 0) =>
          Absent(d1) /\ Absent(r2) /\ spc'[s2] = "off"
SafeSpec == Init /\ [][SafeNext]_vars

AllConfs == AllPublisherConfs \cup AllStaticConfs

\* Liveness is checked with clients that publish only where publishers are
\* expected: not on a path that has a source.
LiveNext == Next /\ (hasStaticSource => UNCHANGED psess)
LiveSpec == Init /\ [][LiveNext]_vars /\ Fairness

=============================================================================
