----------------------------- MODULE MCConfAPI ------------------------------
(* Files and request bodies for model checking ConfAPI.                    *)
EXTENDS ConfAPI, TLC

MCPathNames == {"all", All, "~^cam", "~[", "cam", "/cam"}

\* A file with one path of each kind, one with "all" and a path without options,
\* an empty one and two that are refused.
MCFileConfs ==
    {Empty,
     [Empty EXCEPT !.paths = ("all" :> Missing) @@ ("cam" :> Nil), !.authMethods = <<"basic">>],
     [Empty EXCEPT !.paths = ("~^cam" :> [Missing EXCEPT !.readIPs = {"ip"}])
                          @@ ("cam" :> [Missing EXCEPT !.source = "rtsp",
                                                       !.sourceProtocol = "tcp"]),
                   !.protocols = {"tcp"}, !.encryption = "yes"],
     [Empty EXCEPT !.paths = ("~[" :> Nil)],
     [Empty EXCEPT !.encryption = "strict"]}

MCSetBodies ==
    {f :> v : f \in {"logLevel"}, v \in {"", "debug", "bad"}}
    \cup {"filled" :> "custom"}
    \cup {"encryption" :> v : v \in {"", "optional", "true", "bad"}}
    \cup {"protocols" :> v : v \in {{}, {"tcp"}, {"bad"}}}
    \cup {"logDestinations" :> v : v \in {{}, {"file", "syslog"}, {"bad"}}}
    \cup {"authMethods" :> v : v \in {<<"digest">>, <<"bad">>}}

MCPathBodies ==
    {<<>>}
    \cup {"source" :> v : v \in {"", "rtsp", "rtsps", "rtmp", "redirect", "bad"}}
    \cup {("source" :> "rtsps") @@ ("sourceFingerprint" :> "ok"),
          ("source" :> "redirect") @@ ("sourceRedirect" :> "url"),
          ("source" :> "redirect") @@ ("sourceRedirect" :> "bad")}
    \cup {"sourceProtocol" :> v : v \in {"udp", "automatic", "bad"}}
    \cup {"sourceOnDemand" :> v : v \in {"", "yes"}}
    \cup {"fallback" :> v : v \in {"/path", "url", "bad"}}
    \cup {("publishUser" :> v) @@ ("publishPass" :> v) : v \in {"", "ok", "bad"}}
    \cup {"readUser" :> "ok", ("readUser" :> "ok") @@ ("readPass" :> "ok")}
    \cup {f :> v : f \in {"publishIPs", "readIPs"}, v \in {{}, {"net"}, {"bad"}}}
    \cup {f :> "cmd" : f \in {"runOnInit", "runOnDemand", "runOnPublish"}}
    \cup {"timeouts" :> "custom"}

=============================================================================
