--------------------------- MODULE ConfAPIProofs ----------------------------
(***************************************************************************)
(* Proofs about the configuration that the API keeps, for every file,      *)
(* every set of names and of bodies and any number of requests.            *)
(***************************************************************************)
EXTENDS ConfAPI, SequenceTheorems, TLAPS

-----------------------------------------------------------------------------
(* Paths. *)

\* A path from which nothing has been derived.
RawPath(p) ==
    /\ p \in PathType
    /\ p.Regexp = FALSE /\ p.SourceProtocolParsed = ""
    /\ p.PublishIPsParsed = {} /\ p.ReadIPsParsed = {}

\* p and q agree on the options that are neither derived nor filled.
SameOptions(p, q) ==
    /\ p.sourceFingerprint = q.sourceFingerprint /\ p.sourceOnDemand = q.sourceOnDemand
    /\ p.sourceRedirect = q.sourceRedirect /\ p.fallback = q.fallback
    /\ p.publishUser = q.publishUser /\ p.publishPass = q.publishPass
    /\ p.publishIPs = q.publishIPs /\ p.readUser = q.readUser
    /\ p.readPass = q.readPass /\ p.readIPs = q.readIPs
    /\ p.runOnInit = q.runOnInit /\ p.runOnDemand = q.runOnDemand
    /\ p.runOnPublish = q.runOnPublish

SameDerived(p, q) ==
    /\ p.Regexp = q.Regexp /\ p.SourceProtocolParsed = q.SourceProtocolParsed
    /\ p.PublishIPsParsed = q.PublishIPsParsed /\ p.ReadIPsParsed = q.ReadIPsParsed

isRTSP(source) == source \in {"rtsp", "rtsps"}

\* The protocol that fillPath leaves.
protocolOf(p) ==
    IF isRTSP(fill(p.source, "publisher")) THEN fill(p.sourceProtocol, "automatic")
    ELSE p.sourceProtocol

LEMMA PathEqual ==
    ASSUME NEW p \in PathType, NEW q \in PathType, SameOptions(p, q), SameDerived(p, q),
           p.source = q.source, p.sourceProtocol = q.sourceProtocol, p.timeouts = q.timeouts
    PROVE  p = q
  BY DEF PathType, SameOptions, SameDerived

LEMMA FillFacts ==
    ASSUME NEW value \in Text, NEW default \in Text, default # ""
    PROVE  /\ fill(value, default) \in Text /\ fill(value, default) # ""
           /\ fill(fill(value, default), default) = fill(value, default)
           /\ value # "" => fill(value, default) = value
  BY DEF fill

LEMMA FillPathFields ==
    ASSUME NEW name, NEW p, RawPath(p)
    PROVE  LET q == fillPath(name, p) IN
           /\ q \in PathType /\ SameOptions(p, q)
           /\ q.source = fill(p.source, "publisher")
           /\ q.sourceProtocol = protocolOf(p)
           /\ q.timeouts = fill(p.timeouts, "default")
           /\ q.Regexp = isRegexp(name)
           /\ q.SourceProtocolParsed = IF isRTSP(q.source) /\ q.sourceProtocol # "automatic"
                                       THEN q.sourceProtocol ELSE ""
           /\ q.PublishIPsParsed = p.publishIPs /\ q.ReadIPsParsed = p.readIPs
  <1>1. /\ fill(p.source, "publisher") \in Text /\ protocolOf(p) \in Text
        /\ fill(p.timeouts, "default") \in Text /\ isRegexp(name) \in BOOLEAN
        /\ (isRegexp(name) \/ p.Regexp) = isRegexp(name)
    <2>1. p.source \in Text /\ p.sourceProtocol \in Text /\ p.timeouts \in Text
      BY DEF RawPath, PathType
    <2>2. /\ fill(p.source, "publisher") \in Text /\ fill(p.timeouts, "default") \in Text
          /\ fill(p.sourceProtocol, "automatic") \in Text
      BY <2>1 DEF fill, Text
    <2>3. protocolOf(p) \in Text  BY <2>1, <2>2 DEF protocolOf
    <2>4. isRegexp(name) \in BOOLEAN  BY SMT DEF isRegexp
    <2>5. p.Regexp = FALSE  BY DEF RawPath
    <2> QED  BY <2>2, <2>3, <2>4, <2>5
  <1> DEFINE a == fill(p.source, "publisher")
             b == protocolOf(p)
             c == fill(p.timeouts, "default")
             d == isRegexp(name)
             e == IF isRTSP(a) /\ b # "automatic" THEN b ELSE ""
             q == [p EXCEPT !.source = a, !.sourceProtocol = b, !.timeouts = c, !.Regexp = d,
                            !.SourceProtocolParsed = e, !.PublishIPsParsed = p.publishIPs,
                            !.ReadIPsParsed = p.readIPs]
  <1>2. fillPath(name, p) = q
    BY <1>1 DEF fillPath, RawPath, isRTSP, protocolOf
  <1>3. a \in Text /\ b \in Text /\ c \in Text /\ d \in BOOLEAN /\ e \in Text
    BY <1>1 DEF Text
  <1>4. p \in PathType  BY DEF RawPath
  <1> HIDE DEF a, b, c, d, e
  <1>5. q \in PathType  BY <1>3, <1>4 DEF PathType
  <1>6. SameOptions(p, q)  BY <1>4 DEF PathType, SameOptions
  <1>7. /\ q.source = a /\ q.sourceProtocol = b /\ q.timeouts = c /\ q.Regexp = d
        /\ q.SourceProtocolParsed = e /\ q.PublishIPsParsed = p.publishIPs
        /\ q.ReadIPsParsed = p.readIPs
    BY <1>4 DEF PathType
  <1> HIDE DEF q
  <1> QED  BY <1>2, <1>5, <1>6, <1>7 DEF a, b, c, d, e

LEMMA RawPathFields ==
    ASSUME NEW p \in PathType
    PROVE  LET q == rawPath(p) IN
           /\ RawPath(q) /\ SameOptions(p, q)
           /\ q.source = p.source /\ q.sourceProtocol = p.sourceProtocol
           /\ q.timeouts = p.timeouts
  <1> DEFINE q == [p EXCEPT !.Regexp = FALSE, !.SourceProtocolParsed = "",
                            !.PublishIPsParsed = {}, !.ReadIPsParsed = {}]
  <1>1. rawPath(p) = q  BY NilAssumption DEF rawPath
  <1>2. q \in PathType
    <2>1. "" \in Text  BY DEF Text
    <2> QED  BY <2>1 DEF PathType
  <1>3. SameOptions(p, q)  BY DEF PathType, SameOptions
  <1>4. /\ q.source = p.source /\ q.sourceProtocol = p.sourceProtocol /\ q.timeouts = p.timeouts
        /\ q.Regexp = FALSE /\ q.SourceProtocolParsed = "" /\ q.PublishIPsParsed = {}
        /\ q.ReadIPsParsed = {}
    BY DEF PathType
  <1> HIDE DEF q
  <1> QED  BY <1>1, <1>2, <1>3, <1>4 DEF RawPath

LEMMA RawPathIsRaw ==
    ASSUME NEW p, p = Nil \/ RawPath(p)
    PROVE  rawPath(p) = p
  <1>1. CASE p = Nil
    BY <1>1 DEF rawPath
  <1>2. CASE RawPath(p)
    <2>1. /\ RawPath(rawPath(p)) /\ SameOptions(p, rawPath(p)) /\ p \in PathType
          /\ rawPath(p).source = p.source /\ rawPath(p).sourceProtocol = p.sourceProtocol
          /\ rawPath(p).timeouts = p.timeouts
      BY <1>2, RawPathFields DEF RawPath
    <2> QED  BY <1>2, <2>1, PathEqual DEF RawPath, SameDerived
  <1> QED  BY <1>1, <1>2

\* A path that was filled is filled for good.
LEMMA FillPathAgain ==
    ASSUME NEW name, NEW p, RawPath(p)
    PROVE  /\ fillPath(name, p) \in PathType
           /\ fillPath(name, rawPath(fillPath(name, p))) = fillPath(name, p)
  <1> DEFINE q == fillPath(name, p)
             r == rawPath(q)
             s == fillPath(name, r)
  <1>1. /\ q \in PathType /\ SameOptions(p, q)
        /\ q.source = fill(p.source, "publisher")
        /\ q.sourceProtocol = protocolOf(p)
        /\ q.timeouts = fill(p.timeouts, "default")
        /\ q.Regexp = isRegexp(name)
        /\ q.SourceProtocolParsed = IF isRTSP(q.source) /\ q.sourceProtocol # "automatic"
                                    THEN q.sourceProtocol ELSE ""
        /\ q.PublishIPsParsed = p.publishIPs /\ q.ReadIPsParsed = p.readIPs
    BY FillPathFields
  <1> HIDE DEF q
  <1>2. /\ RawPath(r) /\ SameOptions(q, r)
        /\ r.source = q.source /\ r.sourceProtocol = q.sourceProtocol /\ r.timeouts = q.timeouts
    BY <1>1, RawPathFields
  <1> HIDE DEF r
  <1>3. /\ s \in PathType /\ SameOptions(r, s)
        /\ s.source = fill(r.source, "publisher")
        /\ s.sourceProtocol = protocolOf(r)
        /\ s.timeouts = fill(r.timeouts, "default")
        /\ s.Regexp = isRegexp(name)
        /\ s.SourceProtocolParsed = IF isRTSP(s.source) /\ s.sourceProtocol # "automatic"
                                    THEN s.sourceProtocol ELSE ""
        /\ s.PublishIPsParsed = r.publishIPs /\ s.ReadIPsParsed = r.readIPs
    BY <1>2, FillPathFields
  <1> HIDE DEF s
  <1>4. s.source = q.source /\ s.timeouts = q.timeouts /\ s.sourceProtocol = q.sourceProtocol
    BY <1>1, <1>2, <1>3 DEF fill, protocolOf
  <1>5. SameOptions(q, s) /\ SameDerived(q, s)
    BY <1>1, <1>2, <1>3, <1>4 DEF SameOptions, SameDerived
  <1>6. q = s  BY <1>1, <1>3, <1>4, <1>5, PathEqual
  <1> QED  BY <1>1, <1>6 DEF q, r, s

LEMMA MissingIsRaw == RawPath(Missing)
  <1>1. Missing \in PathType
    <2>1. "" \in Text  BY DEF Text
    <2> QED  BY <2>1 DEF Missing, PathType
  <1>2. /\ Missing.Regexp = FALSE /\ Missing.SourceProtocolParsed = ""
        /\ Missing.PublishIPsParsed = {} /\ Missing.ReadIPsParsed = {}
    BY DEF Missing
  <1> QED  BY <1>1, <1>2 DEF RawPath

-----------------------------------------------------------------------------
(* Sets of paths. *)

\* Paths as a file or the copy of a configuration has them.
RawPaths(ps) ==
    /\ ps \in [DOMAIN ps -> PathType \cup {Nil}]
    /\ \A n \in DOMAIN ps : ps[n] = Nil \/ RawPath(ps[n])

\* Paths as CheckAndFillMissing leaves them.
FullPaths(ps) ==
    /\ ps \in [DOMAIN ps -> PathType]
    /\ DOMAIN ps # {} /\ "all" \notin DOMAIN ps
    /\ \A n \in DOMAIN ps : fillPath(n, rawPath(ps[n])) = ps[n]

\* A path without options has those of Missing.
given(p) == IF p = Nil THEN Missing ELSE p

LEMMA AllIsNoAlias == All # "all"
  BY DEF All

LEMMA AliasedFacts ==
    ASSUME NEW ps, RawPaths(ps)
    PROVE  /\ RawPaths(aliased(ps))
           /\ DOMAIN aliased(ps) # {} /\ "all" \notin DOMAIN aliased(ps)
           /\ "all" \notin DOMAIN ps /\ DOMAIN ps # {} => aliased(ps) = ps
  <1> DEFINE qs == IF DOMAIN ps = {} THEN [n \in {"all"} |-> Missing] ELSE ps
  <1>1. RawPaths(qs) /\ DOMAIN qs # {}
    <2>1. CASE DOMAIN ps = {}
      <3> DEFINE rs == [n \in {"all"} |-> Missing]
      <3>1. RawPath(Missing) /\ Missing \in PathType  BY MissingIsRaw DEF RawPath
      <3>2. qs = rs  BY <2>1
      <3>3. DOMAIN rs = {"all"} /\ \A n \in {"all"} : rs[n] = Missing  OBVIOUS
      <3>4. rs \in [DOMAIN rs -> PathType \cup {Nil}]  BY <3>1
      <3> HIDE DEF rs, qs
      <3> QED  BY <3>1, <3>2, <3>3, <3>4 DEF RawPaths
    <2>2. CASE DOMAIN ps # {}
      BY <2>2
    <2> QED  BY <2>1, <2>2
  <1>2. aliased(ps) = IF "all" \in DOMAIN qs
                      THEN [n \in (DOMAIN qs \ {"all"}) \cup {All} |->
                               IF n = All THEN qs["all"] ELSE qs[n]]
                      ELSE qs
    BY DEF aliased
  <1>3. DOMAIN ps # {} => qs = ps  OBVIOUS
  <1> HIDE DEF qs
  <1>4. CASE "all" \notin DOMAIN qs
    BY <1>1, <1>2, <1>3, <1>4
  <1>5. CASE "all" \in DOMAIN qs
    <2> DEFINE rs == [n \in (DOMAIN qs \ {"all"}) \cup {All} |-> IF n = All THEN qs["all"] ELSE qs[n]]
    <2>1. aliased(ps) = rs  BY <1>2, <1>5
    <2>2. /\ DOMAIN rs = (DOMAIN qs \ {"all"}) \cup {All}
          /\ \A n \in DOMAIN rs : rs[n] = IF n = All THEN qs["all"] ELSE qs[n]
          /\ rs = [n \in DOMAIN rs |-> rs[n]]
      OBVIOUS
    <2> HIDE DEF rs
    <2>3. \A n \in DOMAIN rs : rs[n] \in PathType \cup {Nil} /\ (rs[n] = Nil \/ RawPath(rs[n]))
      BY <1>1, <1>5, <2>2 DEF RawPaths
    <2>4. RawPaths(rs)  BY <2>2, <2>3 DEF RawPaths
    <2>5. DOMAIN rs # {} /\ "all" \notin DOMAIN rs  BY <2>2, AllIsNoAlias
    <2> QED  BY <1>3, <1>5, <2>1, <2>4, <2>5
  <1> QED  BY <1>4, <1>5

LEMMA FillPathsFacts ==
    ASSUME NEW ps, RawPaths(ps)
    PROVE  /\ FullPaths(fillPaths(ps))
           /\ DOMAIN fillPaths(ps) = DOMAIN aliased(ps)
           /\ \A n \in DOMAIN aliased(ps) : fillPaths(ps)[n] = fillPath(n, given(aliased(ps)[n]))
  <1> DEFINE as == aliased(ps)
             fs == fillPaths(ps)
  <1>1. RawPaths(as) /\ DOMAIN as # {} /\ "all" \notin DOMAIN as  BY AliasedFacts
  <1>2. fs = [n \in DOMAIN as |-> fillPath(n, given(as[n]))]  BY DEF fillPaths, given
  <1> HIDE DEF as, fs
  <1>3. DOMAIN fs = DOMAIN as /\ \A n \in DOMAIN as : fs[n] = fillPath(n, given(as[n]))
    BY <1>2
  <1>4. \A n \in DOMAIN as : RawPath(given(as[n]))
    BY <1>1, MissingIsRaw DEF RawPaths, given
  <1>5. \A n \in DOMAIN as : fs[n] \in PathType /\ fillPath(n, rawPath(fs[n])) = fs[n]
    BY <1>3, <1>4, FillPathAgain
  <1>6. fs \in [DOMAIN fs -> PathType]  BY <1>2, <1>3, <1>5
  <1> QED  BY <1>1, <1>3, <1>5, <1>6 DEF FullPaths, as, fs

\* The copy of filled paths, and what filling it gives.
LEMMA RawOfFull ==
    ASSUME NEW ps, FullPaths(ps), NEW rs, rs = [n \in DOMAIN ps |-> rawPath(ps[n])]
    PROVE  /\ RawPaths(rs) /\ DOMAIN rs = DOMAIN ps
           /\ \A n \in DOMAIN ps : RawPath(rs[n]) /\ rs[n] # Nil /\ rs[n] = rawPath(ps[n])
           /\ fillPaths(rs) = ps
  <1>1. DOMAIN rs = DOMAIN ps /\ \A n \in DOMAIN ps : rs[n] = rawPath(ps[n])  OBVIOUS
  <1>2. \A n \in DOMAIN ps : RawPath(rs[n]) /\ rs[n] # Nil
    BY <1>1, RawPathFields, NilAssumption DEF FullPaths, RawPath
  <1>3. rs \in [DOMAIN rs -> PathType \cup {Nil}]  BY <1>1, <1>2 DEF RawPath
  <1>4. RawPaths(rs)  BY <1>1, <1>2, <1>3 DEF RawPaths
  <1>5. aliased(rs) = rs  BY <1>1, <1>4, AliasedFacts DEF FullPaths
  <1>6. DOMAIN fillPaths(rs) = DOMAIN ps /\ fillPaths(rs) \in [DOMAIN ps -> PathType]
    BY <1>1, <1>4, <1>5, FillPathsFacts DEF FullPaths
  <1>7. \A n \in DOMAIN ps : fillPaths(rs)[n] = ps[n]
    BY <1>1, <1>2, <1>4, <1>5, FillPathsFacts DEF FullPaths, given
  <1>8. ps \in [DOMAIN ps -> PathType]  BY DEF FullPaths
  <1> QED  BY <1>1, <1>2, <1>4, <1>6, <1>7, <1>8

-----------------------------------------------------------------------------
(* Configurations. *)

\* A configuration from which nothing has been derived.
RawConf(c) ==
    /\ isConf(c) /\ RawPaths(c.paths)
    /\ c.LogLevelParsed = "" /\ c.LogDestinationsParsed = {} /\ c.ProtocolsParsed = {}
    /\ c.EncryptionParsed = "" /\ c.AuthMethodsParsed = <<>>

\* The default for a list without elements.
orElse(list, default) == IF list = {} THEN default ELSE list
orElseSeq(list, default) == IF list = <<>> THEN default ELSE list

parsedEncryption(e) == IF e \in DOMAIN Encryptions THEN Encryptions[e] ELSE "no"

\* c and d agree on the options that a body of config/set can have.
SameScalars(c, d) ==
    /\ c.logLevel = d.logLevel /\ c.logDestinations = d.logDestinations
    /\ c.protocols = d.protocols /\ c.encryption = d.encryption
    /\ c.authMethods = d.authMethods /\ c.filled = d.filled

LEMMA ConfEqual ==
    ASSUME NEW c, NEW d, isConf(c), isConf(d), SameScalars(c, d), c.paths = d.paths,
           c.LogLevelParsed = d.LogLevelParsed,
           c.LogDestinationsParsed = d.LogDestinationsParsed,
           c.ProtocolsParsed = d.ProtocolsParsed,
           c.EncryptionParsed = d.EncryptionParsed,
           c.AuthMethodsParsed = d.AuthMethodsParsed
    PROVE  c = d
  BY DEF isConf, SameScalars

LEMMA ParsedEncryptionType ==
    ASSUME NEW e
    PROVE  parsedEncryption(e) \in Text
  <1>1. \A x \in DOMAIN Encryptions : Encryptions[x] \in {"no", "optional", "strict"}
    BY DEF Encryptions
  <1>2. "no" \in Text /\ "optional" \in Text /\ "strict" \in Text  BY DEF Text
  <1> QED  BY <1>1, <1>2 DEF parsedEncryption

LEMMA FilledFields ==
    ASSUME NEW c, RawConf(c)
    PROVE  LET f == Filled(c) IN
           /\ isConf(f) /\ FullPaths(f.paths)
           /\ f.logLevel = fill(c.logLevel, "info") /\ f.LogLevelParsed = f.logLevel
           /\ f.logDestinations = orElse(c.logDestinations, {"stdout"})
           /\ f.LogDestinationsParsed = f.logDestinations
           /\ f.protocols = orElse(c.protocols, {"udp", "multicast", "tcp"})
           /\ f.ProtocolsParsed = f.protocols
           /\ f.encryption = fill(c.encryption, "no")
           /\ f.EncryptionParsed = parsedEncryption(f.encryption)
           /\ f.authMethods = orElseSeq(c.authMethods, <<"basic", "digest">>)
           /\ f.AuthMethodsParsed = f.authMethods
           /\ f.filled = fill(c.filled, "default")
           /\ f.paths = fillPaths(c.paths)
  <1> DEFINE lv == fill(c.logLevel, "info")
             ld == orElse(c.logDestinations, {"stdout"})
             pr == orElse(c.protocols, {"udp", "multicast", "tcp"})
             en == fill(c.encryption, "no")
             ep == parsedEncryption(en)
             am == orElseSeq(c.authMethods, <<"basic", "digest">>)
             fi == fill(c.filled, "default")
             ps == fillPaths(c.paths)
             f == [logLevel |-> lv, LogLevelParsed |-> lv, logDestinations |-> ld,
                   LogDestinationsParsed |-> ld, protocols |-> pr, ProtocolsParsed |-> pr,
                   encryption |-> en, EncryptionParsed |-> ep, authMethods |-> am,
                   AuthMethodsParsed |-> am, filled |-> fi, paths |-> ps]
  <1>1. /\ c.logLevel \in Text /\ c.logDestinations \in SUBSET Text /\ c.protocols \in SUBSET Text
        /\ c.encryption \in Text /\ c.authMethods \in Seq(Text) /\ c.filled \in Text
        /\ RawPaths(c.paths) /\ c.AuthMethodsParsed = <<>>
    BY DEF RawConf, isConf
  <1>2. lv \in Text /\ en \in Text /\ fi \in Text  BY <1>1 DEF fill, Text
  <1>3. ld \in SUBSET Text /\ pr \in SUBSET Text  BY <1>1 DEF orElse, Text
  <1>4. am \in Seq(Text)
    <2>1. <<"basic", "digest">> \in Seq(Text)  BY DEF Text
    <2> QED  BY <1>1, <2>1 DEF orElseSeq
  <1>5. <<>> \o am = am  BY <1>4, ConcatEmptySeq
  <1>6. ep \in Text  BY ParsedEncryptionType
  <1>7. FullPaths(ps)  BY <1>1, FillPathsFacts
  <1>8. Filled(c) = f
    <2>1. c.AuthMethodsParsed \o am = am  BY <1>1, <1>5
    <2> QED  BY <2>1 DEF Filled, orElse, orElseSeq, parsedEncryption
  <1> HIDE DEF lv, ld, pr, en, ep, am, fi, ps
  <1>9. isConf(f)
    <2>1. ps \in [DOMAIN ps -> PathType \cup {Nil}]  BY <1>7 DEF FullPaths
    <2> QED  BY <1>2, <1>3, <1>4, <1>6, <2>1 DEF isConf
  <1>10. /\ f.logLevel = lv /\ f.LogLevelParsed = lv /\ f.logDestinations = ld
         /\ f.LogDestinationsParsed = ld /\ f.protocols = pr /\ f.ProtocolsParsed = pr
         /\ f.encryption = en /\ f.EncryptionParsed = ep /\ f.authMethods = am
         /\ f.AuthMethodsParsed = am /\ f.filled = fi /\ f.paths = ps
    OBVIOUS
  <1> HIDE DEF f
  <1>11. /\ f.EncryptionParsed = parsedEncryption(f.encryption)  BY <1>10 DEF ep
  <1> QED  BY <1>7, <1>8, <1>9, <1>10, <1>11 DEF lv, ld, pr, en, am, fi, ps

LEMMA RawFields ==
    ASSUME NEW c, isConf(c), FullPaths(c.paths)
    PROVE  /\ RawConf(raw(c)) /\ SameScalars(c, raw(c))
           /\ raw(c).paths = [n \in DOMAIN c.paths |-> rawPath(c.paths[n])]
  <1> DEFINE ps == [n \in DOMAIN c.paths |-> rawPath(c.paths[n])]
             r == [c EXCEPT !.LogLevelParsed = "", !.LogDestinationsParsed = {},
                            !.ProtocolsParsed = {}, !.EncryptionParsed = "",
                            !.AuthMethodsParsed = <<>>, !.paths = ps]
  <1>1. raw(c) = r  BY DEF raw
  <1>2. RawPaths(ps)  BY RawOfFull
  <1>3. "" \in Text /\ <<>> \in Seq(Text)  BY EmptySeq DEF Text
  <1> DEFINE none == <<>>
  <1>4. /\ r = [c EXCEPT !.LogLevelParsed = "", !.LogDestinationsParsed = {},
                         !.ProtocolsParsed = {}, !.EncryptionParsed = "",
                         !.AuthMethodsParsed = none, !.paths = ps]
        /\ none \in Seq(Text) /\ none = <<>>
    BY <1>3
  <1> HIDE DEF ps, none, r
  <1>5. /\ r.paths = ps /\ r.LogLevelParsed = "" /\ r.LogDestinationsParsed = {}
        /\ r.ProtocolsParsed = {} /\ r.EncryptionParsed = "" /\ r.AuthMethodsParsed = none
        /\ SameScalars(c, r)
    BY <1>4 DEF isConf, SameScalars
  <1>6. isConf(r)
    <2>1. ps \in [DOMAIN ps -> PathType \cup {Nil}]  BY <1>2 DEF RawPaths
    <2> QED  BY <1>3, <1>4, <1>5, <2>1 DEF isConf
  <1> QED  BY <1>1, <1>2, <1>4, <1>5, <1>6 DEF RawConf, ps

\* What the API keeps: a filled configuration whose copy is accepted and filled
\* to the same again.
Full(c) ==
    /\ isConf(c) /\ FullPaths(c.paths)
    /\ Accepted(raw(c)) /\ Filled(raw(c)) = c

LEMMA FilledIsFull ==
    ASSUME NEW c, RawConf(c), Accepted(c)
    PROVE  Full(Filled(c))
  <1> DEFINE f == Filled(c)
             r == raw(f)
             g == Filled(r)
  <1>1. /\ isConf(f) /\ FullPaths(f.paths)
        /\ f.logLevel = fill(c.logLevel, "info") /\ f.LogLevelParsed = f.logLevel
        /\ f.logDestinations = orElse(c.logDestinations, {"stdout"})
        /\ f.LogDestinationsParsed = f.logDestinations
        /\ f.protocols = orElse(c.protocols, {"udp", "multicast", "tcp"})
        /\ f.ProtocolsParsed = f.protocols
        /\ f.encryption = fill(c.encryption, "no")
        /\ f.EncryptionParsed = parsedEncryption(f.encryption)
        /\ f.authMethods = orElseSeq(c.authMethods, <<"basic", "digest">>)
        /\ f.AuthMethodsParsed = f.authMethods
        /\ f.filled = fill(c.filled, "default")
        /\ f.paths = fillPaths(c.paths)
    BY FilledFields
  <1> HIDE DEF f
  <1>2. /\ RawConf(r) /\ SameScalars(f, r)
        /\ r.paths = [n \in DOMAIN f.paths |-> rawPath(f.paths[n])]
    BY <1>1, RawFields
  <1> HIDE DEF r
  <1>3. /\ isConf(g)
        /\ g.logLevel = fill(r.logLevel, "info") /\ g.LogLevelParsed = g.logLevel
        /\ g.logDestinations = orElse(r.logDestinations, {"stdout"})
        /\ g.LogDestinationsParsed = g.logDestinations
        /\ g.protocols = orElse(r.protocols, {"udp", "multicast", "tcp"})
        /\ g.ProtocolsParsed = g.protocols
        /\ g.encryption = fill(r.encryption, "no")
        /\ g.EncryptionParsed = parsedEncryption(g.encryption)
        /\ g.authMethods = orElseSeq(r.authMethods, <<"basic", "digest">>)
        /\ g.AuthMethodsParsed = g.authMethods
        /\ g.filled = fill(r.filled, "default")
        /\ g.paths = fillPaths(r.paths)
    BY <1>2, FilledFields
  <1> HIDE DEF g
  <1>4. SameScalars(g, f)
    <2>1. g.logLevel = f.logLevel /\ g.encryption = f.encryption /\ g.filled = f.filled
      BY <1>1, <1>2, <1>3 DEF SameScalars, fill
    <2>2. g.logDestinations = f.logDestinations /\ g.protocols = f.protocols
      BY <1>1, <1>2, <1>3 DEF SameScalars, orElse
    <2>3. g.authMethods = f.authMethods
      BY <1>1, <1>2, <1>3 DEF SameScalars, orElseSeq
    <2> QED  BY <2>1, <2>2, <2>3 DEF SameScalars
  <1>5. g.paths = f.paths  BY <1>1, <1>2, <1>3, RawOfFull
  <1>6. g = f  BY <1>1, <1>3, <1>4, <1>5, ConfEqual DEF SameScalars
  <1>7. Accepted(r)  BY <1>6 DEF Accepted, f, g
  <1> QED  BY <1>1, <1>6, <1>7 DEF Full, f, g, r

LEMMA FillStructFields ==
    ASSUME NEW dest, NEW in, NEW d, d = fillStruct(dest, in)
    PROVE  /\ DOMAIN d = DOMAIN dest /\ d = [f \in DOMAIN dest |-> d[f]]
           /\ \A f \in DOMAIN dest : f \in DOMAIN in => d[f] = in[f]
           /\ \A f \in DOMAIN dest : f \notin DOMAIN in => d[f] = dest[f]
  BY DEF fillStruct

\* A body of config/set leaves paths and derived values alone.
LEMMA SetIsRaw ==
    ASSUME NEW r, RawConf(r), NEW in \in SetBodies
    PROVE  RawConf(fillStruct(r, in)) /\ fillStruct(r, in).paths = r.paths
  <1> DEFINE d == fillStruct(r, in)
             e == fillStruct(Empty, in)
  <1>1. /\ DOMAIN d = DOMAIN r /\ d = [f \in DOMAIN r |-> d[f]]
        /\ \A f \in DOMAIN r : f \in DOMAIN in => d[f] = in[f]
        /\ \A f \in DOMAIN r : f \notin DOMAIN in => d[f] = r[f]
    BY FillStructFields
  <1>2. /\ DOMAIN e = DOMAIN Empty
        /\ \A f \in DOMAIN Empty : f \in DOMAIN in => e[f] = in[f]
    BY FillStructFields
  <1>3. isConf(e) /\ DOMAIN in \cap (Derived \cup {"paths"}) = {}  BY InputsAssumption
  <1> HIDE DEF d, e
  <1>4. DOMAIN r = DOMAIN Empty /\ DOMAIN r =
          {"logLevel", "LogLevelParsed", "logDestinations", "LogDestinationsParsed",
           "protocols", "ProtocolsParsed", "encryption", "EncryptionParsed", "authMethods",
           "AuthMethodsParsed", "filled", "paths"}
    BY DEF RawConf, isConf, Empty
  <1>5. /\ d.paths = r.paths /\ d.LogLevelParsed = r.LogLevelParsed
        /\ d.LogDestinationsParsed = r.LogDestinationsParsed
        /\ d.ProtocolsParsed = r.ProtocolsParsed /\ d.EncryptionParsed = r.EncryptionParsed
        /\ d.AuthMethodsParsed = r.AuthMethodsParsed
    BY <1>1, <1>3, <1>4 DEF Derived
  <1>6. \A f \in DOMAIN r : d[f] \in {e[f], r[f]}  BY <1>1, <1>2, <1>4
  <1>7. /\ d.logLevel \in Text /\ d.logDestinations \in SUBSET Text /\ d.protocols \in SUBSET Text
        /\ d.encryption \in Text /\ d.authMethods \in Seq(Text) /\ d.filled \in Text
    BY <1>3, <1>4, <1>6 DEF RawConf, isConf
  <1>8. isConf(d)
    <2>1. d \in [logLevel: Text, LogLevelParsed: Text, logDestinations: SUBSET Text,
                 LogDestinationsParsed: SUBSET Text, protocols: SUBSET Text,
                 ProtocolsParsed: SUBSET Text, encryption: Text, EncryptionParsed: Text,
                 authMethods: Seq(Text), AuthMethodsParsed: Seq(Text), filled: Text,
                 paths: {d.paths}]
      BY <1>1, <1>4, <1>5, <1>7 DEF RawConf, isConf
    <2> QED  BY <1>5, <2>1 DEF RawConf, isConf
  <1> QED  BY <1>5, <1>8 DEF RawConf, d

\* A body of config/paths/add or edit leaves derived values alone.
LEMMA BodyIsRaw ==
    ASSUME NEW p, RawPath(p), NEW in \in PathBodies
    PROVE  RawPath(fillStruct(p, in))
  <1> DEFINE d == fillStruct(p, in)
             e == fillStruct(Missing, in)
  <1>1. /\ DOMAIN d = DOMAIN p /\ d = [f \in DOMAIN p |-> d[f]]
        /\ \A f \in DOMAIN p : f \in DOMAIN in => d[f] = in[f]
        /\ \A f \in DOMAIN p : f \notin DOMAIN in => d[f] = p[f]
    BY FillStructFields
  <1>2. /\ DOMAIN e = DOMAIN Missing
        /\ \A f \in DOMAIN Missing : f \in DOMAIN in => e[f] = in[f]
    BY FillStructFields
  <1>3. e \in PathType /\ DOMAIN in \cap Derived = {}  BY InputsAssumption
  <1> HIDE DEF d, e
  <1>4. DOMAIN p = DOMAIN Missing /\ DOMAIN p =
          {"source", "sourceProtocol", "sourceFingerprint", "sourceOnDemand",
           "sourceRedirect", "fallback", "publishUser", "publishPass", "publishIPs",
           "readUser", "readPass", "readIPs", "runOnInit", "runOnDemand", "runOnPublish",
           "timeouts", "Regexp", "SourceProtocolParsed", "PublishIPsParsed", "ReadIPsParsed"}
    BY DEF RawPath, PathType, Missing
  <1>5. /\ d.Regexp = p.Regexp /\ d.SourceProtocolParsed = p.SourceProtocolParsed
        /\ d.PublishIPsParsed = p.PublishIPsParsed /\ d.ReadIPsParsed = p.ReadIPsParsed
    BY <1>1, <1>3, <1>4 DEF Derived
  <1>6. \A f \in DOMAIN p : d[f] \in {e[f], p[f]}  BY <1>1, <1>2, <1>4
  <1>7. /\ d.source \in Text /\ d.sourceProtocol \in Text /\ d.sourceFingerprint \in Text
        /\ d.sourceOnDemand \in Text /\ d.sourceRedirect \in Text /\ d.fallback \in Text
        /\ d.publishUser \in Text /\ d.publishPass \in Text /\ d.publishIPs \in SUBSET Text
        /\ d.readUser \in Text /\ d.readPass \in Text /\ d.readIPs \in SUBSET Text
        /\ d.runOnInit \in Text /\ d.runOnDemand \in Text /\ d.runOnPublish \in Text
        /\ d.timeouts \in Text
    BY <1>3, <1>4, <1>6 DEF RawPath, PathType
  <1>8. d \in PathType
    BY <1>1, <1>4, <1>5, <1>7 DEF RawPath, PathType
  <1> QED  BY <1>5, <1>8 DEF RawPath, d

LEMMA FileIsRaw ==
    ASSUME NEW c \in FileConfs
    PROVE  RawConf(c)
  <1>1. isConf(c) /\ raw(c) = c  BY InputsAssumption
  <1> DEFINE ps == [n \in DOMAIN c.paths |-> rawPath(c.paths[n])]
             none == <<>>
  <1>2. c = [c EXCEPT !.LogLevelParsed = "", !.LogDestinationsParsed = {},
                      !.ProtocolsParsed = {}, !.EncryptionParsed = "",
                      !.AuthMethodsParsed = none, !.paths = ps]
    BY <1>1 DEF raw
  <1>3. none = <<>>  OBVIOUS
  <1> HIDE DEF ps, none
  <1>4. /\ c.LogLevelParsed = "" /\ c.LogDestinationsParsed = {} /\ c.ProtocolsParsed = {}
        /\ c.EncryptionParsed = "" /\ c.AuthMethodsParsed = none /\ c.paths = ps
    BY <1>1, <1>2 DEF isConf
  <1>5. \A n \in DOMAIN c.paths : c.paths[n] = rawPath(c.paths[n])
    BY <1>4 DEF ps
  <1>6. \A n \in DOMAIN c.paths : c.paths[n] = Nil \/ RawPath(c.paths[n])
    <2>1. \A n \in DOMAIN c.paths : c.paths[n] \in PathType \cup {Nil}  BY <1>1 DEF isConf
    <2>2. \A q \in PathType : RawPath(rawPath(q))  BY RawPathFields
    <2> QED  BY <1>5, <2>1, <2>2
  <1> QED  BY <1>1, <1>3, <1>4, <1>6 DEF RawConf, RawPaths, isConf

LEMMA WithPathsFacts ==
    ASSUME Full(conf), NEW ps, RawPaths(ps)
    PROVE  /\ RawConf(withPaths(ps)) /\ withPaths(ps).paths = ps
           /\ SameScalars(raw(conf), withPaths(ps))
  <1> DEFINE r == raw(conf)
             w == [r EXCEPT !.paths = ps]
  <1>1. RawConf(r)  BY RawFields DEF Full
  <1>2. withPaths(ps) = w  BY DEF withPaths, cloneStruct
  <1> HIDE DEF r
  <1>3. w.paths = ps /\ SameScalars(r, w)  BY <1>1 DEF RawConf, isConf, SameScalars
  <1>4. isConf(w)
    <2>1. ps \in [DOMAIN ps -> PathType \cup {Nil}]  BY DEF RawPaths
    <2> QED  BY <1>1, <1>3, <2>1 DEF RawConf, isConf
  <1>5. /\ w.LogLevelParsed = r.LogLevelParsed /\ w.LogDestinationsParsed = r.LogDestinationsParsed
        /\ w.ProtocolsParsed = r.ProtocolsParsed /\ w.EncryptionParsed = r.EncryptionParsed
        /\ w.AuthMethodsParsed = r.AuthMethodsParsed
    BY <1>1 DEF RawConf, isConf
  <1> HIDE DEF w
  <1> QED  BY <1>1, <1>2, <1>3, <1>4, <1>5 DEF RawConf, r

\* The paths of the copy that the handlers start from.
copied == cloneStruct(conf).paths

LEMMA CopiedFacts ==
    ASSUME Full(conf)
    PROVE  /\ RawPaths(copied) /\ DOMAIN copied = DOMAIN conf.paths
           /\ \A n \in DOMAIN conf.paths : RawPath(copied[n]) /\ copied[n] # Nil
                                           /\ copied[n] = rawPath(conf.paths[n])
           /\ "all" \notin DOMAIN copied /\ DOMAIN copied # {}
  <1>1. FullPaths(conf.paths) /\ copied = [n \in DOMAIN conf.paths |-> rawPath(conf.paths[n])]
    BY RawFields DEF Full, copied, cloneStruct
  <1> HIDE DEF copied
  <1> QED  BY <1>1, RawOfFull DEF FullPaths

\* The paths after the three kinds of request, before they are filled.
added(name, in) ==
    [n \in DOMAIN copied \cup {name} |->
        IF n = name THEN fillStruct(Missing, in) ELSE copied[n]]
edited(name, in) ==
    [n \in DOMAIN copied |-> IF n = name THEN fillStruct(copied[n], in) ELSE copied[n]]
removed(name) == [n \in DOMAIN copied \ {name} |-> copied[n]]

LEMMA NewPathsAreRaw ==
    ASSUME Full(conf), NEW name
    PROVE  /\ \A in \in PathBodies : RawPaths(added(name, in)) /\ RawPaths(edited(name, in))
           /\ RawPaths(removed(name))
  <1>1. /\ RawPaths(copied)
        /\ \A n \in DOMAIN copied : RawPath(copied[n]) /\ copied[n] \in PathType
    BY CopiedFacts DEF RawPath
  <1> HIDE DEF copied
  <1>2. ASSUME NEW in \in PathBodies  PROVE RawPaths(added(name, in))
    <2> DEFINE ps == added(name, in)
    <2>1. DOMAIN ps = DOMAIN copied \cup {name} /\ ps = [n \in DOMAIN ps |-> ps[n]]
      BY DEF added
    <2>2. RawPath(fillStruct(Missing, in))  BY MissingIsRaw, BodyIsRaw
    <2>3. \A n \in DOMAIN ps : RawPath(ps[n])  BY <1>1, <2>2 DEF added
    <2> HIDE DEF ps
    <2>4. \A n \in DOMAIN ps : ps[n] \in PathType  BY <2>3 DEF RawPath
    <2>5. RawPaths(ps)  BY <2>1, <2>3, <2>4 DEF RawPaths
    <2> QED  BY <2>5 DEF ps
  <1>3. ASSUME NEW in \in PathBodies  PROVE RawPaths(edited(name, in))
    <2> DEFINE ps == edited(name, in)
    <2>1. DOMAIN ps = DOMAIN copied /\ ps = [n \in DOMAIN ps |-> ps[n]]
      BY DEF edited
    <2>2. \A n \in DOMAIN copied : RawPath(fillStruct(copied[n], in))  BY <1>1, BodyIsRaw
    <2>3. \A n \in DOMAIN ps : RawPath(ps[n])  BY <1>1, <2>2 DEF edited
    <2> HIDE DEF ps
    <2>4. \A n \in DOMAIN ps : ps[n] \in PathType  BY <2>3 DEF RawPath
    <2>5. RawPaths(ps)  BY <2>1, <2>3, <2>4 DEF RawPaths
    <2> QED  BY <2>5 DEF ps
  <1>4. RawPaths(removed(name))
    <2> DEFINE ps == removed(name)
    <2>1. DOMAIN ps = DOMAIN copied \ {name} /\ ps = [n \in DOMAIN ps |-> ps[n]]
      BY DEF removed
    <2>2. \A n \in DOMAIN ps : RawPath(ps[n]) /\ ps[n] \in PathType  BY <1>1 DEF removed
    <2> HIDE DEF ps
    <2>3. RawPaths(ps)  BY <2>1, <2>2 DEF RawPaths
    <2> QED  BY <2>3 DEF ps
  <1> QED  BY <1>2, <1>3, <1>4

\* A step is one of these; each but the last two gives its status.
Answers(op, name, body, refused, c) == RawConf(c) /\ answer(op, name, body, refused, c)

LEMMA Steps ==
    ASSUME Full(conf), [Next]_vars
    PROVE  \/ \E in \in SetBodies : Answers("set", "", in, FALSE, fillStruct(raw(conf), in))
           \/ \E name \in PathNames, in \in PathBodies :
                 Answers("add", name, in, name \in DOMAIN copied, withPaths(added(name, in)))
           \/ \E name \in PathNames, in \in PathBodies :
                 Answers("edit", name, in, name \notin DOMAIN copied, withPaths(edited(name, in)))
           \/ \E name \in PathNames :
                 Answers("remove", name, <<>>, name \notin DOMAIN copied, withPaths(removed(name)))
           \/ \E c \in FileConfs : RawConf(c) /\ OnConfReload(c)
           \/ UNCHANGED vars
  <1>1. ASSUME NEW in \in SetBodies, onConfigSet(in)
        PROVE  Answers("set", "", in, FALSE, fillStruct(raw(conf), in))
    <2>1. RawConf(fillStruct(raw(conf), in))  BY RawFields, SetIsRaw DEF Full
    <2> QED  BY <1>1, <2>1 DEF onConfigSet, cloneStruct, Answers
  <1>2. ASSUME NEW name \in PathNames, NEW in \in PathBodies, onConfigPathsAdd(name, in)
        PROVE  Answers("add", name, in, name \in DOMAIN copied, withPaths(added(name, in)))
    <2>1. RawConf(withPaths(added(name, in)))  BY NewPathsAreRaw, WithPathsFacts
    <2> QED  BY <1>2, <2>1 DEF onConfigPathsAdd, copied, added, Answers
  <1>3. ASSUME NEW name \in PathNames, NEW in \in PathBodies, onConfigPathsEdit(name, in)
        PROVE  Answers("edit", name, in, name \notin DOMAIN copied, withPaths(edited(name, in)))
    <2>1. RawConf(withPaths(edited(name, in)))  BY NewPathsAreRaw, WithPathsFacts
    <2> QED  BY <1>3, <2>1 DEF onConfigPathsEdit, copied, edited, Answers
  <1>4. ASSUME NEW name \in PathNames, onConfigPathsDelete(name)
        PROVE  Answers("remove", name, <<>>, name \notin DOMAIN copied, withPaths(removed(name)))
    <2>1. RawConf(withPaths(removed(name)))  BY NewPathsAreRaw, WithPathsFacts
    <2> QED  BY <1>4, <2>1 DEF onConfigPathsDelete, copied, removed, Answers
  <1>5. ASSUME NEW c \in FileConfs, OnConfReload(c)
        PROVE  RawConf(c) /\ OnConfReload(c)
    BY <1>5, FileIsRaw
  <1> QED  BY <1>1, <1>2, <1>3, <1>4, <1>5 DEF Next

LEMMA AnswerKeeps ==
    ASSUME Full(conf), NEW op, NEW name, NEW body, NEW refused, NEW c,
           Answers(op, name, body, refused, c)
    PROVE  Full(conf')
  BY FilledIsFull DEF Answers, answer

LEMMA NextFull == Full(conf) /\ [Next]_vars => Full(conf')
  <1> SUFFICES ASSUME Full(conf), [Next]_vars PROVE Full(conf')
    OBVIOUS
  <1>1. ASSUME NEW c \in FileConfs, RawConf(c), OnConfReload(c)  PROVE Full(conf')
    BY <1>1, FilledIsFull DEF OnConfReload, Load
  <1>2. CASE UNCHANGED vars
    BY <1>2 DEF vars
  <1> QED  BY <1>1, <1>2, Steps, AnswerKeeps

LEMMA InitFull == Init => Full(conf)
  BY FileIsRaw, FilledIsFull DEF Init

Inv == Full(conf)

\* In every state the configuration of the API has its types, no alias and at
\* least one path, and is what CheckAndFillMissing makes of its own copy: the
\* invariant that the two results below rest on.
THEOREM ConfInvariant == Spec => []Inv
  <1>1. Init => Inv  BY InitFull DEF Inv
  <1>2. Inv /\ [Next]_vars => Inv'  BY NextFull DEF Inv
  <1> QED  BY <1>1, <1>2, PTL DEF Spec

\* After any sequence of requests and reloads, the copy of the configuration
\* that cloneStruct makes is accepted by CheckAndFillMissing and filled to the
\* same configuration again.
THEOREM ConfReloadIsIdentity == Spec => []ReloadIsIdentity
  <1>1. Inv => ReloadIsIdentity  BY DEF Inv, Full, ReloadIsIdentity
  <1> QED  BY <1>1, ConfInvariant, PTL

-----------------------------------------------------------------------------
(* What a request changes. *)

\* Two configurations with the same options and other paths are filled alike.
LEMMA OtherPaths ==
    ASSUME Full(conf), NEW ps, RawPaths(ps)
    PROVE  LET f == Filled(withPaths(ps)) IN
           f.paths = fillPaths(ps) /\ [f EXCEPT !.paths = conf.paths] = conf
  <1> DEFINE r == raw(conf)
             w == withPaths(ps)
             f == Filled(w)
             g == [f EXCEPT !.paths = conf.paths]
  <1>1. RawConf(r) /\ RawConf(w) /\ w.paths = ps /\ SameScalars(r, w)
        /\ conf = Filled(r) /\ isConf(conf)
    BY RawFields, WithPathsFacts DEF Full
  <1> HIDE DEF r, w
  <1>2. /\ isConf(f) /\ f.paths = fillPaths(ps)
        /\ SameScalars(f, conf) /\ f.LogLevelParsed = conf.LogLevelParsed
        /\ f.LogDestinationsParsed = conf.LogDestinationsParsed
        /\ f.ProtocolsParsed = conf.ProtocolsParsed
        /\ f.EncryptionParsed = conf.EncryptionParsed
        /\ f.AuthMethodsParsed = conf.AuthMethodsParsed
    BY <1>1, FilledFields DEF SameScalars
  <1> HIDE DEF f
  <1>3. /\ g.paths = conf.paths /\ SameScalars(g, f) /\ g.LogLevelParsed = f.LogLevelParsed
        /\ g.LogDestinationsParsed = f.LogDestinationsParsed
        /\ g.ProtocolsParsed = f.ProtocolsParsed
        /\ g.EncryptionParsed = f.EncryptionParsed
        /\ g.AuthMethodsParsed = f.AuthMethodsParsed
    BY <1>2 DEF isConf, SameScalars
  <1>4. isConf(g)
    <2>1. conf.paths \in [DOMAIN conf.paths -> PathType \cup {Nil}]  BY <1>1 DEF isConf
    <2> QED  BY <1>2, <1>3, <2>1 DEF isConf
  <1> HIDE DEF g
  <1>5. g = conf  BY <1>1, <1>2, <1>3, <1>4, ConfEqual DEF SameScalars
  <1> QED  BY <1>2, <1>5 DEF f, g, w

\* config/set.
LEMMA SetChanges ==
    ASSUME Full(conf), NEW in \in SetBodies
    PROVE  onlyBody(conf, Filled(fillStruct(raw(conf), in)), in)
  <1> DEFINE r == raw(conf)
             d == fillStruct(r, in)
             f == Filled(d)
  <1>1. /\ RawConf(r) /\ conf = Filled(r) /\ isConf(conf) /\ FullPaths(conf.paths)
        /\ r.paths = [n \in DOMAIN conf.paths |-> rawPath(conf.paths[n])]
    BY RawFields DEF Full
  <1> HIDE DEF r
  <1>2. RawConf(d) /\ d.paths = r.paths  BY <1>1, SetIsRaw
  <1>3. \A x \in DOMAIN r : x \notin DOMAIN in => d[x] = r[x]  BY FillStructFields
  <1> HIDE DEF d
  <1>4. DOMAIN r = {"logLevel", "LogLevelParsed", "logDestinations", "LogDestinationsParsed",
           "protocols", "ProtocolsParsed", "encryption", "EncryptionParsed", "authMethods",
           "AuthMethodsParsed", "filled", "paths"} /\ DOMAIN conf = DOMAIN r
    BY <1>1 DEF RawConf, isConf
  <1>5. /\ "logLevel" \notin DOMAIN in => d.logLevel = r.logLevel
        /\ "logDestinations" \notin DOMAIN in => d.logDestinations = r.logDestinations
        /\ "protocols" \notin DOMAIN in => d.protocols = r.protocols
        /\ "encryption" \notin DOMAIN in => d.encryption = r.encryption
        /\ "authMethods" \notin DOMAIN in => d.authMethods = r.authMethods
        /\ "filled" \notin DOMAIN in => d.filled = r.filled
    BY <1>3, <1>4
  <1>6. /\ "logLevel" \notin DOMAIN in => f.logLevel = conf.logLevel
        /\ "logDestinations" \notin DOMAIN in => f.logDestinations = conf.logDestinations
        /\ "protocols" \notin DOMAIN in => f.protocols = conf.protocols
        /\ "encryption" \notin DOMAIN in => f.encryption = conf.encryption
        /\ "authMethods" \notin DOMAIN in => f.authMethods = conf.authMethods
        /\ "filled" \notin DOMAIN in => f.filled = conf.filled
        /\ f.paths = conf.paths
    BY <1>1, <1>2, <1>5, FilledFields
  <1> HIDE DEF f
  <1>7. \A x \in DOMAIN conf \ (DOMAIN in \cup Derived) : f[x] = conf[x]
    BY <1>4, <1>6 DEF Derived
  <1> QED  BY <1>7 DEF onlyBody, f, d, r

\* Paths that no request names keep every value.
LEMMA OthersKept ==
    ASSUME Full(conf), NEW ps, RawPaths(ps), NEW n \in DOMAIN conf.paths,
           n \in DOMAIN aliased(ps), aliased(ps)[n] = copied[n]
    PROVE  fillPaths(ps)[n] = conf.paths[n]
  <1>1. copied[n] # Nil /\ copied[n] = rawPath(conf.paths[n])  BY CopiedFacts
  <1>2. fillPaths(ps)[n] = fillPath(n, copied[n])
    BY <1>1, FillPathsFacts DEF given
  <1> QED  BY <1>1, <1>2 DEF Full, FullPaths

LEMMA AddChanges ==
    ASSUME Full(conf), NEW name, NEW in \in PathBodies, name \notin DOMAIN copied
    PROVE  LET fs == fillPaths(added(name, in))
               other == DOMAIN conf.paths \ {name}
           IN  /\ DOMAIN fs \ {name} = other \/ name = "all"
               /\ \A n \in other : (n = All /\ name = "all") \/ fs[n] = conf.paths[n]
  <1> DEFINE ps == added(name, in)
             fs == fillPaths(ps)
             other == DOMAIN conf.paths \ {name}
  <1>1. /\ RawPaths(ps) /\ DOMAIN copied = DOMAIN conf.paths
        /\ "all" \notin DOMAIN copied /\ DOMAIN copied # {}
    BY NewPathsAreRaw, CopiedFacts
  <1>2. /\ DOMAIN ps = DOMAIN copied \cup {name}
        /\ \A n \in DOMAIN copied : ps[n] = copied[n]
    BY DEF added
  <1> HIDE DEF ps, copied
  <1>3. DOMAIN fs = DOMAIN aliased(ps)  BY <1>1, FillPathsFacts
  <1>4. CASE name # "all"
    <2>1. aliased(ps) = ps  BY <1>1, <1>2, <1>4, AliasedFacts
    <2>2. DOMAIN fs \ {name} = other  BY <1>1, <1>2, <1>3, <2>1
    <2>3. \A n \in other : fs[n] = conf.paths[n]  BY <1>1, <1>2, <2>1, OthersKept
    <2> QED  BY <2>2, <2>3 DEF ps
  <1>5. CASE name = "all"
    <2> DEFINE as == [n \in (DOMAIN ps \ {"all"}) \cup {All} |-> IF n = All THEN ps["all"] ELSE ps[n]]
    <2>1. aliased(ps) = as  BY <1>2, <1>5 DEF aliased
    <2>2. \A n \in other : n = All \/ (n \in DOMAIN as /\ as[n] = copied[n])
      BY <1>1, <1>2, <1>5
    <2> HIDE DEF as
    <2>3. \A n \in other : n = All \/ fs[n] = conf.paths[n]
      BY <1>1, <2>1, <2>2, OthersKept
    <2> QED  BY <1>5, <2>3 DEF ps
  <1> QED  BY <1>4, <1>5

LEMMA RemoveChanges ==
    ASSUME Full(conf), NEW name, name \in DOMAIN copied
    PROVE  LET fs == fillPaths(removed(name))
               other == DOMAIN conf.paths \ {name}
           IN  /\ DOMAIN fs \ {name} = other \/ other = {}
               /\ \A n \in other : fs[n] = conf.paths[n]
  <1> DEFINE ps == removed(name)
             fs == fillPaths(ps)
             other == DOMAIN conf.paths \ {name}
  <1>1. /\ RawPaths(ps) /\ DOMAIN copied = DOMAIN conf.paths /\ "all" \notin DOMAIN copied
    BY NewPathsAreRaw, CopiedFacts
  <1>2. DOMAIN ps = DOMAIN copied \ {name} /\ \A n \in DOMAIN ps : ps[n] = copied[n]
    BY DEF removed
  <1> HIDE DEF ps, copied
  <1>3. DOMAIN fs = DOMAIN aliased(ps)  BY <1>1, FillPathsFacts
  <1>4. CASE other = {}
    BY <1>4 DEF ps
  <1>5. CASE other # {}
    <2>1. aliased(ps) = ps  BY <1>1, <1>2, <1>5, AliasedFacts
    <2>2. DOMAIN fs \ {name} = other  BY <1>1, <1>2, <1>3, <2>1
    <2>3. \A n \in other : fs[n] = conf.paths[n]  BY <1>1, <1>2, <2>1, OthersKept
    <2> QED  BY <2>2, <2>3 DEF ps
  <1> QED  BY <1>4, <1>5

LEMMA EditChanges ==
    ASSUME Full(conf), NEW name, NEW in \in PathBodies, name \in DOMAIN copied
    PROVE  LET fs == fillPaths(edited(name, in))
               other == DOMAIN conf.paths \ {name}
           IN  /\ DOMAIN fs \ {name} = other
               /\ \A n \in other : fs[n] = conf.paths[n]
               /\ onlyBody(conf.paths[name], fs[name], in)
  <1> DEFINE ps == edited(name, in)
             fs == fillPaths(ps)
             other == DOMAIN conf.paths \ {name}
             p == conf.paths[name]
             r == copied[name]
             d == fillStruct(r, in)
             q == fillPath(name, d)
  <1>1. /\ RawPaths(ps) /\ DOMAIN copied = DOMAIN conf.paths
        /\ "all" \notin DOMAIN copied /\ DOMAIN copied # {}
        /\ RawPath(r) /\ r = rawPath(p) /\ p \in PathType /\ fillPath(name, r) = p
    BY NewPathsAreRaw, CopiedFacts DEF Full, FullPaths
  <1>2. /\ DOMAIN ps = DOMAIN copied /\ \A n \in DOMAIN copied : n # name => ps[n] = copied[n]
        /\ ps[name] = d
    BY DEF edited
  <1>3. RawPath(d) /\ d # Nil  BY <1>1, BodyIsRaw, NilAssumption DEF RawPath
  <1>4. \A x \in DOMAIN r : x \notin DOMAIN in => d[x] = r[x]  BY FillStructFields
  <1> HIDE DEF ps, copied, d, r
  <1>5. aliased(ps) = ps  BY <1>1, <1>2, AliasedFacts
  <1>6. DOMAIN fs = DOMAIN ps /\ fs[name] = q
    BY <1>1, <1>2, <1>3, <1>5, FillPathsFacts DEF given
  <1>7. DOMAIN fs \ {name} = other /\ \A n \in other : fs[n] = conf.paths[n]
    BY <1>1, <1>2, <1>5, <1>6, OthersKept
  <1>8. onlyBody(p, q, in)
    <2>1. DOMAIN r = DOMAIN p /\ DOMAIN r =
            {"source", "sourceProtocol", "sourceFingerprint", "sourceOnDemand",
             "sourceRedirect", "fallback", "publishUser", "publishPass", "publishIPs",
             "readUser", "readPass", "readIPs", "runOnInit", "runOnDemand", "runOnPublish",
             "timeouts", "Regexp", "SourceProtocolParsed", "PublishIPsParsed", "ReadIPsParsed"}
      BY <1>1 DEF RawPath, PathType
    <2>2. /\ SameOptions(r, p) /\ p.source = r.source /\ p.sourceProtocol = r.sourceProtocol
          /\ p.timeouts = r.timeouts
      <3> HIDE DEF p
      <3>1. LET k == rawPath(p) IN
            /\ SameOptions(p, k) /\ k.source = p.source /\ k.sourceProtocol = p.sourceProtocol
            /\ k.timeouts = p.timeouts
        BY <1>1, RawPathFields
      <3> QED  BY <1>1, <3>1 DEF SameOptions
    <2>3. p.source # "" /\ p.timeouts # ""
      <3> HIDE DEF p
      <3>1. p.source = fill(r.source, "publisher") /\ p.timeouts = fill(r.timeouts, "default")
        <4>1. /\ fillPath(name, r).source = fill(r.source, "publisher")
              /\ fillPath(name, r).timeouts = fill(r.timeouts, "default")
          BY <1>1, FillPathFields
        <4> QED  BY <1>1, <4>1
      <3> QED  BY <3>1 DEF fill
    <2>4. /\ SameOptions(d, q) /\ q.source = fill(d.source, "publisher")
          /\ q.sourceProtocol \in {d.sourceProtocol, fill(d.sourceProtocol, "automatic")}
          /\ q.timeouts = fill(d.timeouts, "default")
      BY <1>3, FillPathFields DEF protocolOf
    <2> HIDE DEF p, q
    <2>5. /\ "source" \notin DOMAIN in => q.source = p.source
          /\ "timeouts" \notin DOMAIN in => q.timeouts = p.timeouts
          /\ "sourceProtocol" \notin DOMAIN in =>
                q.sourceProtocol = p.sourceProtocol \/ p.sourceProtocol = ""
      BY <1>4, <2>1, <2>2, <2>3, <2>4 DEF fill
    <2>6. \A x \in {"sourceFingerprint", "sourceOnDemand", "sourceRedirect", "fallback",
                    "publishUser", "publishPass", "publishIPs", "readUser", "readPass",
                    "readIPs", "runOnInit", "runOnDemand", "runOnPublish"} :
             q[x] = d[x] /\ r[x] = p[x]
      BY <2>2, <2>4 DEF SameOptions
    <2>7. \A x \in DOMAIN p \ (DOMAIN in \cup Derived) :
             q[x] = p[x] \/ (x = "sourceProtocol" /\ p[x] = "")
      <3> SUFFICES ASSUME NEW x \in DOMAIN p \ (DOMAIN in \cup Derived)
                   PROVE  q[x] = p[x] \/ (x = "sourceProtocol" /\ p[x] = "")
        OBVIOUS
      <3>1. CASE x \in {"source", "timeouts", "sourceProtocol"}
        BY <2>5, <3>1
      <3>2. CASE x \in {"sourceFingerprint", "sourceOnDemand", "sourceRedirect", "fallback",
                        "publishUser", "publishPass", "publishIPs", "readUser", "readPass",
                        "readIPs", "runOnInit", "runOnDemand", "runOnPublish"}
        <4>1. q[x] = d[x] /\ r[x] = p[x]  BY <2>6, <3>2
        <4>2. d[x] = r[x]  BY <1>4, <2>1
        <4> QED  BY <4>1, <4>2
      <3> QED  BY <2>1, <3>1, <3>2 DEF Derived
    <2> QED  BY <2>7 DEF onlyBody
  <1> QED  BY <1>6, <1>7, <1>8 DEF ps

LEMMA StepIsNamed ==
    ASSUME Full(conf), [Next]_vars
    PROVE  [last'.op \in {"set", "add", "edit", "remove"} => onlyNamed]_vars
  <1>1. ASSUME NEW in \in SetBodies, Answers("set", "", in, FALSE, fillStruct(raw(conf), in))
        PROVE  onlyNamed
    <2>1. /\ last'.op = "set" /\ last'.body = in
          /\ \/ last'.status = 200 /\ conf' = Filled(fillStruct(raw(conf), in))
             \/ last'.status = 400 /\ conf' = conf
      <3> DEFINE d == fillStruct(raw(conf), in)
      <3>1. answer("set", "", in, FALSE, d)  BY <1>1 DEF Answers
      <3> HIDE DEF d
      <3>2. CASE conf' = Filled(d) /\ last' = [op |-> "set", name |-> "", body |-> in, status |-> 200]
        <4>1. last'.op = "set" /\ last'.body = in /\ last'.status = 200  BY <3>2
        <4> QED  BY <3>2, <4>1 DEF d
      <3>3. CASE conf' = conf /\ last' = [op |-> "set", name |-> "", body |-> in, status |-> 400]
        <4>1. last'.op = "set" /\ last'.body = in /\ last'.status = 400  BY <3>3
        <4> QED  BY <3>3, <4>1
      <3> QED  BY <3>1, <3>2, <3>3 DEF answer
    <2>2. onlyBody(conf, Filled(fillStruct(raw(conf), in)), in)  BY SetChanges
    <2> QED  BY <2>1, <2>2 DEF onlyNamed
  <1>2. ASSUME NEW name \in PathNames, NEW in \in PathBodies,
               Answers("add", name, in, name \in DOMAIN copied, withPaths(added(name, in)))
        PROVE  onlyNamed
    <2>1. /\ last'.op = "add" /\ last'.name = name /\ last'.body = in
          /\ \/ /\ last'.status = 200 /\ name \notin DOMAIN copied
                /\ conf' = Filled(withPaths(added(name, in)))
             \/ last'.status = 400 /\ conf' = conf
      BY <1>2 DEF Answers, answer
    <2>2. CASE last'.status = 400
      BY <2>1, <2>2 DEF onlyNamed
    <2>3. CASE last'.status = 200
      <3>1. /\ conf' = Filled(withPaths(added(name, in))) /\ name \notin DOMAIN copied
            /\ DOMAIN copied = DOMAIN conf.paths
        BY <2>1, <2>3, CopiedFacts
      <3>2. /\ conf'.paths = fillPaths(added(name, in))
            /\ [conf' EXCEPT !.paths = conf.paths] = conf
        BY <3>1, NewPathsAreRaw, OtherPaths
      <3>3. /\ \/ DOMAIN fillPaths(added(name, in)) \ {name} = DOMAIN conf.paths \ {name}
               \/ name = "all"
            /\ \A n \in DOMAIN conf.paths \ {name} :
                  (n = All /\ name = "all") \/ fillPaths(added(name, in))[n] = conf.paths[n]
        BY <3>1, AddChanges
      <3> HIDE DEF added, copied
      <3> QED  BY <2>1, <2>3, <3>1, <3>2, <3>3 DEF onlyNamed
    <2> QED  BY <2>1, <2>2, <2>3
  <1>3. ASSUME NEW name \in PathNames, NEW in \in PathBodies,
               Answers("edit", name, in, name \notin DOMAIN copied, withPaths(edited(name, in)))
        PROVE  onlyNamed
    <2>1. /\ last'.op = "edit" /\ last'.name = name /\ last'.body = in
          /\ \/ /\ last'.status = 200 /\ name \in DOMAIN copied
                /\ conf' = Filled(withPaths(edited(name, in)))
             \/ last'.status = 400 /\ conf' = conf
      BY <1>3 DEF Answers, answer
    <2>2. CASE last'.status = 400
      BY <2>1, <2>2 DEF onlyNamed
    <2>3. CASE last'.status = 200
      <3>1. /\ conf' = Filled(withPaths(edited(name, in))) /\ name \in DOMAIN copied
        BY <2>1, <2>3
      <3>2. /\ conf'.paths = fillPaths(edited(name, in))
            /\ [conf' EXCEPT !.paths = conf.paths] = conf
        BY <3>1, NewPathsAreRaw, OtherPaths
      <3>3. /\ DOMAIN fillPaths(edited(name, in)) \ {name} = DOMAIN conf.paths \ {name}
            /\ \A n \in DOMAIN conf.paths \ {name} :
                  fillPaths(edited(name, in))[n] = conf.paths[n]
            /\ onlyBody(conf.paths[name], fillPaths(edited(name, in))[name], in)
        BY <3>1, EditChanges
      <3> HIDE DEF edited, copied
      <3> QED  BY <2>1, <2>3, <3>1, <3>2, <3>3 DEF onlyNamed
    <2> QED  BY <2>1, <2>2, <2>3
  <1>4. ASSUME NEW name \in PathNames,
               Answers("remove", name, <<>>, name \notin DOMAIN copied, withPaths(removed(name)))
        PROVE  onlyNamed
    <2>1. /\ last'.op = "remove" /\ last'.name = name
          /\ \/ /\ last'.status = 200 /\ name \in DOMAIN copied
                /\ conf' = Filled(withPaths(removed(name)))
             \/ last'.status = 400 /\ conf' = conf
      BY <1>4 DEF Answers, answer
    <2>2. CASE last'.status = 400
      BY <2>1, <2>2 DEF onlyNamed
    <2>3. CASE last'.status = 200
      <3>1. /\ conf' = Filled(withPaths(removed(name))) /\ name \in DOMAIN copied
        BY <2>1, <2>3
      <3>2. /\ conf'.paths = fillPaths(removed(name))
            /\ [conf' EXCEPT !.paths = conf.paths] = conf
        BY <3>1, NewPathsAreRaw, OtherPaths
      <3>3. /\ \/ DOMAIN fillPaths(removed(name)) \ {name} = DOMAIN conf.paths \ {name}
               \/ DOMAIN conf.paths \ {name} = {}
            /\ \A n \in DOMAIN conf.paths \ {name} : fillPaths(removed(name))[n] = conf.paths[n]
        BY <3>1, RemoveChanges
      <3> HIDE DEF removed, copied
      <3> QED  BY <2>1, <2>3, <3>1, <3>2, <3>3 DEF onlyNamed
    <2> QED  BY <2>1, <2>2, <2>3
  <1>5. ASSUME NEW c \in FileConfs, OnConfReload(c)
        PROVE  last'.op \notin {"set", "add", "edit", "remove"}
    BY <1>5 DEF OnConfReload
  <1> QED  BY <1>1, <1>2, <1>3, <1>4, <1>5, Steps

\* A request changes what it names and nothing else, whatever was set, added,
\* edited or removed before it: what was filled in once is not filled differently
\* by the CheckAndFillMissing of a later request.
THEOREM ConfChangesOnlyWhatIsNamed == Spec => ChangesOnlyWhatIsNamed
  <1>1. Inv /\ [Next]_vars => [last'.op \in {"set", "add", "edit", "remove"} => onlyNamed]_vars
    BY StepIsNamed DEF Inv
  <1> QED  BY <1>1, ConfInvariant, PTL DEF Spec, ChangesOnlyWhatIsNamed

=============================================================================
