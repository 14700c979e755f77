-------------------------------- MODULE Conf --------------------------------
(***************************************************************************)
(* The configuration (conf/conf.go, conf/path.go): what CheckAndFillMissing *)
(* accepts, which values it fills in and which it derives.                 *)
(*                                                                         *)
(* An option is a string: "" is the missing value, "bad" one that cannot   *)
(* be parsed.  Options that are only filled are one field, "filled", and   *)
(* "custom" is its other value.  Lists are sets, except authMethods, whose *)
(* parsed form is built by appending.                                      *)
(***************************************************************************)
EXTENDS Sequences

CONSTANTS
    PathNames,  \* the names that paths may be given
    Nil         \* a path of the file without options

\* Names, by what the checks tell apart.
All == "~^.*$"
isRegexp(name) == name \in {All, "~^cam", "~["}
validName(name) == name \notin {"", "/cam", "~["}

Missing == [source |-> "", sourceProtocol |-> "", sourceFingerprint |-> "",
            sourceOnDemand |-> "", sourceRedirect |-> "", fallback |-> "",
            publishUser |-> "", publishPass |-> "", publishIPs |-> {},
            readUser |-> "", readPass |-> "", readIPs |-> {},
            runOnInit |-> "", runOnDemand |-> "", runOnPublish |-> "",
            timeouts |-> "",
            \* derived
            Regexp |-> FALSE, SourceProtocolParsed |-> "",
            PublishIPsParsed |-> {}, ReadIPsParsed |-> {}]

\* The values of options: any string.  Those that the code fills in are named,
\* for the proofs.
Text == STRING \cup {"", "publisher", "automatic", "default", "info", "stdout", "udp",
                    "multicast", "tcp", "no", "optional", "strict", "basic", "digest"}

\* Types of the options of a path.
PathType ==
    [source: Text, sourceProtocol: Text, sourceFingerprint: Text,
     sourceOnDemand: Text, sourceRedirect: Text, fallback: Text,
     publishUser: Text, publishPass: Text, publishIPs: SUBSET Text,
     readUser: Text, readPass: Text, readIPs: SUBSET Text,
     runOnInit: Text, runOnDemand: Text, runOnPublish: Text,
     timeouts: Text,
     Regexp: BOOLEAN, SourceProtocolParsed: Text,
     PublishIPsParsed: SUBSET Text, ReadIPsParsed: SUBSET Text]

ASSUME NilAssumption == Nil \notin PathType

fill(value, default) == IF value = "" THEN default ELSE value

pulled(source) == source \in {"rtsp", "rtsps", "rtmp"}

\* A user and its password: both or none, without unsupported characters.
credentialsOK(user, pass) ==
    /\ (user = "") <=> (pass = "")
    /\ "bad" \notin {user, pass}

\* The conditions of checkAndFillMissing on a path whose source is filled.
pathOK(name, p) ==
    LET publisher == p.source = "publisher" IN
    /\ validName(name)
    /\ p.source \in {"publisher", "redirect"} \/ pulled(p.source)
    /\ pulled(p.source) => ~isRegexp(name)
    /\ p.source \in {"rtsp", "rtsps"} => p.sourceProtocol # "bad"
    /\ p.source = "rtsps" => p.sourceFingerprint # ""
    /\ p.source = "redirect" => p.sourceRedirect \notin {"", "bad"}
    /\ p.sourceOnDemand # "" => ~publisher
    /\ p.fallback # "bad"
    /\ credentialsOK(p.publishUser, p.publishPass)
    /\ p.publishUser # "" \/ p.publishIPs # {} => publisher
    /\ "bad" \notin p.publishIPs
    /\ credentialsOK(p.readUser, p.readPass)
    /\ "bad" \notin p.readIPs
    /\ p.runOnInit # "" => ~isRegexp(name)
    /\ p.runOnPublish # "" \/ p.runOnDemand # "" => publisher

\* The values that checkAndFillMissing leaves in a path that it accepts.
fillPath(name, p) ==
    LET source == fill(p.source, "publisher")
        protocol == IF source \in {"rtsp", "rtsps"} THEN fill(p.sourceProtocol, "automatic")
                                                    ELSE p.sourceProtocol
        parsed == source \in {"rtsp", "rtsps"} /\ protocol # "automatic"
    IN  [p EXCEPT !.source = source,
                  !.sourceProtocol = protocol,
                  !.timeouts = fill(@, "default"),
                  !.Regexp = isRegexp(name) \/ @,
                  !.SourceProtocolParsed = IF parsed THEN protocol ELSE @,
                  !.PublishIPsParsed = p.publishIPs,
                  !.ReadIPsParsed = p.readIPs]

\* "all" stands for the regular expression that matches every name, and a
\* configuration without paths has it.
aliased(paths) ==
    LET ps == IF DOMAIN paths = {} THEN [n \in {"all"} |-> Missing] ELSE paths
    IN  IF "all" \in DOMAIN ps
        THEN [n \in (DOMAIN ps \ {"all"}) \cup {All} |->
                 IF n = All THEN ps["all"] ELSE ps[n]]
        ELSE ps

\* The paths with their values, none of them Nil.
fillPaths(paths) ==
    [n \in DOMAIN aliased(paths) |->
        fillPath(n, IF aliased(paths)[n] = Nil THEN Missing ELSE aliased(paths)[n])]

Levels == {"warn", "info", "debug"}
Encryptions == [no |-> "no", false |-> "no", optional |-> "optional",
                strict |-> "strict", yes |-> "strict", true |-> "strict"]

\* The values that CheckAndFillMissing leaves.
Filled(c) ==
    LET protocols == IF c.protocols = {} THEN {"udp", "multicast", "tcp"} ELSE c.protocols
        encryption == fill(c.encryption, "no")
        authMethods == IF c.authMethods = <<>> THEN <<"basic", "digest">> ELSE c.authMethods
        logDestinations == IF c.logDestinations = {} THEN {"stdout"} ELSE c.logDestinations
    IN  [logLevel |-> fill(c.logLevel, "info"),
         LogLevelParsed |-> fill(c.logLevel, "info"),
         logDestinations |-> logDestinations,
         LogDestinationsParsed |-> logDestinations,
         protocols |-> protocols,
         ProtocolsParsed |-> protocols,
         encryption |-> encryption,
         EncryptionParsed |-> IF encryption \in DOMAIN Encryptions
                              THEN Encryptions[encryption] ELSE "no",
         authMethods |-> authMethods,
         AuthMethodsParsed |-> c.AuthMethodsParsed \o authMethods,
         filled |-> fill(c.filled, "default"),
         paths |-> fillPaths(c.paths)]

\* CheckAndFillMissing accepts c.
Accepted(c) ==
    LET f == Filled(c) IN
    /\ f.logLevel \in Levels
    /\ f.logDestinations \subseteq {"stdout", "file", "syslog"}
    /\ f.protocols \subseteq {"udp", "multicast", "tcp"}
    /\ f.encryption \in DOMAIN Encryptions
    /\ f.EncryptionParsed = "strict" => "udp" \notin f.protocols
    /\ \A i \in DOMAIN f.authMethods : f.authMethods[i] \in {"basic", "digest"}
    /\ \A n \in DOMAIN f.paths : pathOK(n, f.paths[n])

\* A path and a configuration as a file gives them: nothing is derived.
rawPath(p) ==
    IF p = Nil THEN Nil
    ELSE [p EXCEPT !.Regexp = FALSE, !.SourceProtocolParsed = "",
                   !.PublishIPsParsed = {}, !.ReadIPsParsed = {}]

raw(c) ==
    [c EXCEPT !.LogLevelParsed = "", !.LogDestinationsParsed = {}, !.ProtocolsParsed = {},
              !.EncryptionParsed = "", !.AuthMethodsParsed = <<>>,
              !.paths = [n \in DOMAIN c.paths |-> rawPath(c.paths[n])]]

\* An empty file.
Empty == [logLevel |-> "", LogLevelParsed |-> "", logDestinations |-> {},
          LogDestinationsParsed |-> {}, protocols |-> {}, ProtocolsParsed |-> {},
          encryption |-> "", EncryptionParsed |-> "", authMethods |-> <<>>,
          AuthMethodsParsed |-> <<>>, filled |-> "", paths |-> <<>>]

\* c has the options of a configuration, and paths with or without options.
isConf(c) ==
    /\ c \in [logLevel: Text, LogLevelParsed: Text, logDestinations: SUBSET Text,
              LogDestinationsParsed: SUBSET Text, protocols: SUBSET Text,
              ProtocolsParsed: SUBSET Text, encryption: Text, EncryptionParsed: Text,
              authMethods: Seq(Text), AuthMethodsParsed: Seq(Text), filled: Text,
              paths: {c.paths}]
    /\ c.paths \in [DOMAIN c.paths -> PathType \cup {Nil}]

\* The options that follow from others once they have been filled.
Derived == {"LogLevelParsed", "LogDestinationsParsed", "ProtocolsParsed", "EncryptionParsed",
            "AuthMethodsParsed", "Regexp", "SourceProtocolParsed", "PublishIPsParsed",
            "ReadIPsParsed"}

=============================================================================
