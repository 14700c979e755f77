------------------------------- MODULE MCCore -------------------------------
(* Configurations for model checking Core: everything enabled, and what    *)
(* differs from that in a few settings.                                    *)
EXTENDS Core

CONSTANTS off, k1, k2

MCValues == {off, "1", "2", "no", "strict", "optional"}

Base == [f \in Fields |-> IF f = "encryption" THEN "optional" ELSE "1"]

With(fs, v) == [f \in Fields |-> IF f \in fs THEN v ELSE Base[f]]

\* Settings that no two resources share are changed together.
Changed == {With(fs, "2") : fs \in {{"logLevel", "hls", "pprof", "paths"}, {"log", "rtsp"},
                                    {"rtsps"}, {"rtmp"}, {"metrics"}, {"common"},
                                    {"readBufferSize"}, {"clients"}, {"runOnConnect"}, {"api"}}}
Disabled == {With(fs, off) : fs \in {{"metrics", "pprof"}, {"rtmp", "hls"}, {"api", "encryption"}}}
Encryption == {With({"encryption"}, e) : e \in {"no", "strict"}}

MCFileConfs == {Base} \cup Changed \cup Disabled \cup Encryption
MCFirstConfs == {Base}

MCChanges == {<<"paths", "2">>, <<"rtmp", off>>}

=============================================================================
