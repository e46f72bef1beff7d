--------------------------- MODULE SettingsProofs ----------------------------
(***************************************************************************)
(* What the handlers make of the options of a tunnel, for every set of     *)
(* ports and of attribute values.  No handler changes the options, so all  *)
(* that it made is a function of them: Result.                             *)
(***************************************************************************)
EXTENDS Settings, TLAPS

\* What handler h makes of the options.
Result(h) ==
  CASE h = "tcp"   -> Tunnel(ParseURLs(dest, pom), getTLSConfigCLI(tls))
    [] h = "udp"   -> Tunnel(ParseURLs(dest, None), getTLSConfigCLI(tls))
    [] h = "api"   -> Tunnel(ParseURLs(dest, pom), getTLSConfigAPI(tls))
    [] h = "proxy" -> Tunnel(newTCPTunnel(dest, pom), getTLSConfigCLI(tls))

OptionsOK == /\ dest \in Hosts \cup DestURLs \cup {Bad}
             /\ pom \in PomeriumURLs \cup {None, Bad}
             /\ tls \in TLSOptions

MadeInv == /\ OptionsOK
           /\ DOMAIN made = Handlers
           /\ \A h \in Handlers : made[h] \in {None, Result(h)}
           /\ made["api"] # None => Expressible(tls)

\* No two handlers write the same entry, and none touches the options.
LEMMA MadeStep == ASSUME MadeInv, [Next]_vars PROVE MadeInv'
<1>1. ASSUME NEW h \in Handlers, Make(h, Result(h)), h = "api" => Expressible(tls)
      PROVE  MadeInv'
  <2>1. /\ made' = [made EXCEPT ![h] = Result(h)]
        /\ UNCHANGED <<dest, pom, tls, supported>>
    BY <1>1 DEF Make
  <2>2. OptionsOK' /\ Expressible(tls)' = Expressible(tls) /\ \A g \in Handlers : Result(g)' = Result(g)
    BY <2>1 DEF MadeInv, OptionsOK, Result, Tunnel, ParseURLs, newTCPTunnel, getTLSConfigCLI,
                getTLSConfigAPI, StoreFails, Expressible
  <2>q. QED
    BY <1>1, <2>1, <2>2 DEF MadeInv
<1>2. CASE TcpCmd
  <2>1. "tcp" \in Handlers /\ Make("tcp", Result("tcp"))
    BY <1>2 DEF TcpCmd, Result, Handlers
  <2>q. QED
    BY <1>1, <2>1
<1>3. CASE UdpCmd
  <2>1. "udp" \in Handlers /\ Make("udp", Result("udp"))
    BY <1>3 DEF UdpCmd, Result, Handlers
  <2>q. QED
    BY <1>1, <2>1
<1>4. CASE newTunnel
  <2>1. "api" \in Handlers /\ Make("api", Result("api")) /\ Expressible(tls)
    BY <1>4 DEF newTunnel, Result, Handlers
  <2>q. QED
    BY <1>1, <2>1
<1>5. CASE hijackProxyConnect
  <2>1. "proxy" \in Handlers /\ Make("proxy", Result("proxy"))
    BY <1>5 DEF hijackProxyConnect, Result, Handlers
  <2>q. QED
    BY <1>1, <2>1
<1>6. CASE UNCHANGED vars
  <2>1. UNCHANGED <<dest, pom, tls, supported, made>>
    BY <1>6 DEF vars
  <2>2. OptionsOK' /\ Expressible(tls)' = Expressible(tls) /\ \A g \in Handlers : Result(g)' = Result(g)
    BY <2>1 DEF MadeInv, OptionsOK, Result, Tunnel, ParseURLs, newTCPTunnel, getTLSConfigCLI,
                getTLSConfigAPI, StoreFails, Expressible
  <2>q. QED
    BY <2>1, <2>2 DEF MadeInv
<1>q. QED
  BY <1>2, <1>3, <1>4, <1>5, <1>6 DEF Next

\* Both ways to choose the options are of the right type.
LEMMA MadeInit == ASSUME Init PROVE MadeInv
<1>1. OptionsOK
  <2>1. CASE Addresses
    <3>1. NoTLS \in TLSOptions
      BY DEF NoTLS, TLSOptions, Conditions
    <3>q. QED
      BY <2>1, <3>1 DEF Addresses, OptionsOK
  <2>2. CASE Certificates
    <3>1. [name |-> "h", port |-> "443"] \in Hosts
      BY DEF Hosts, Names, AllPorts
    <3>2. [name |-> "h", port |-> "none"] \in Hosts
      BY DEF Hosts, Names, AllPorts
    <3>3. [scheme |-> "http", host |-> [name |-> "h", port |-> "none"]] \in PomeriumURLs
      BY <3>2 DEF PomeriumURLs
    <3>q. QED
      BY <2>2, <3>1, <3>3 DEF Certificates, OptionsOK
  <2>q. QED
    BY <2>1, <2>2 DEF Init
<1>q. QED
  BY <1>1 DEF Init, MadeInv, Handlers

-----------------------------------------------------------------------------
(***************************************************************************)
(* Certificates: each of the two functions that read the options refuses   *)
(* the bad ones, and what it lets through is what was asked for.           *)
(***************************************************************************)
\* A condition that parses selects the names it is about, in either case.
LEMMA ConditionMatches ==
  ASSUME NEW c \in Conditions, ~parseFails(c), NEW name \in [cn : Values, o : SUBSET Values]
  PROVE  (c # None => c.value \in attributeLookup(name, ToLower(c.attr))) <=> Matches(name, c)
<1>1. CASE c = None
  BY <1>1 DEF Matches
<1>2. CASE c # None
  <2>1. c \in [attr : {"CN", "cn", "O", "X"}, value : Values] /\ ToLower(c.attr) \in {"cn", "o"}
    BY <1>2 DEF Conditions, parseFails
  <2>2. \/ c.attr \in {"CN", "cn"} /\ ToLower(c.attr) = "cn"
        \/ c.attr = "O" /\ ToLower(c.attr) = "o"
    BY <2>1 DEF ToLower
  <2>q. QED
    BY <1>2, <2>2 DEF attributeLookup, Matches
<1>q. QED
  BY <1>1, <1>2

\* What a configuration should hold.
Fits(c) == /\ c.insecure = tls.insecure
           /\ tls.ca # "none" => c.roots = "flag" /\ tls.ca = "good"
           /\ tls.ca = "none" /\ tls.caPath # "none" => c.roots = "file" /\ tls.caPath = "good"
           /\ tls.cert # "none" => c.cert
           /\ IF tls.fromStore
              THEN c.store = {cert \in Certs : /\ Matches(cert.issuer, tls.issuer)
                                               /\ Matches(cert.subject, tls.subject)}
              ELSE c.store = None

\* What is left after the refusals fits.
LEMMA ConfigFits ==
  ASSUME tls \in TLSOptions,
         GetCertPool(tls).text # "bad",
         tls.cert \notin {"bad", "certOnly", "keyOnly"},
         tls.fromStore => ~StoreFails(tls)
  PROVE  Fits(Config(tls))
<1>1. ASSUME tls.fromStore
      PROVE  filterCallback(tls.issuer, tls.subject) =
               {cert \in Certs : /\ Matches(cert.issuer, tls.issuer)
                                 /\ Matches(cert.subject, tls.subject)}
  <2>1. /\ tls.issuer \in Conditions /\ tls.subject \in Conditions
        /\ ~parseFails(tls.issuer) /\ ~parseFails(tls.subject)
    BY <1>1 DEF TLSOptions, StoreFails
  <2>2. \A cert \in Certs : /\ cert.issuer \in [cn : Values, o : SUBSET Values]
                            /\ cert.subject \in [cn : Values, o : SUBSET Values]
    BY DEF Certs
  <2>3. \A cert \in Certs :
          /\ (tls.issuer # None
                => tls.issuer.value \in attributeLookup(cert.issuer, ToLower(tls.issuer.attr)))
             <=> Matches(cert.issuer, tls.issuer)
          /\ (tls.subject # None
                => tls.subject.value \in attributeLookup(cert.subject, ToLower(tls.subject.attr)))
             <=> Matches(cert.subject, tls.subject)
    BY <2>1, <2>2, ConditionMatches
  <2>q. QED
    BY <2>3 DEF filterCallback
<1>2. /\ Config(tls).insecure = tls.insecure
      /\ Config(tls).roots = GetCertPool(tls).from
      /\ Config(tls).cert = (tls.cert = "good")
      /\ Config(tls).store = IF tls.fromStore THEN filterCallback(tls.issuer, tls.subject) ELSE None
  BY DEF Config
<1>3. /\ tls.ca # "none" => GetCertPool(tls).from = "flag" /\ tls.ca = "good"
      /\ tls.ca = "none" /\ tls.caPath # "none" => GetCertPool(tls).from = "file" /\ tls.caPath = "good"
  <2>1. tls.ca \in {"none", "good", "bad"} /\ tls.caPath \in {"none", "good", "bad"}
    BY DEF TLSOptions
  <2>2. CASE tls.ca # "none"
    <3>1. GetCertPool(tls) = [from |-> "flag", text |-> tls.ca]
      BY <2>2 DEF GetCertPool
    <3>q. QED
      BY <2>1, <2>2, <3>1
  <2>3. CASE tls.ca = "none" /\ tls.caPath # "none"
    <3>1. GetCertPool(tls) = [from |-> "file", text |-> tls.caPath]
      BY <2>3 DEF GetCertPool
    <3>q. QED
      BY <2>1, <2>3, <3>1
  <2>q. QED
    BY <2>2, <2>3
<1>4. tls.cert # "none" => tls.cert = "good"
  BY DEF TLSOptions
<1>5. tls.cert # "none" => Config(tls).cert
  BY <1>2, <1>4, Zenon
<1>q. QED
  BY <1>1, <1>2, <1>3, <1>5 DEF Fits

\* The command line refuses all that is bad.
LEMMA CLIFits ==
  ASSUME OptionsOK, getTLSConfigCLI(tls) # Bad
  PROVE  Fits(getTLSConfigCLI(tls))
<1>1. /\ GetCertPool(tls).text # "bad" /\ tls.cert \notin {"bad", "certOnly", "keyOnly"}
      /\ tls.fromStore => ~StoreFails(tls)
      /\ getTLSConfigCLI(tls) = Config(tls)
  BY DEF getTLSConfigCLI
<1>q. QED
  BY <1>1, ConfigFits DEF OptionsOK

\* So does the API, of what can be said to it.
LEMMA APIFits ==
  ASSUME OptionsOK, Expressible(tls), getTLSConfigAPI(tls) # Bad
  PROVE  Fits(getTLSConfigAPI(tls))
<1>1. /\ tls.ca # "bad" /\ tls.cert \notin {"bad", "certOnly", "keyOnly"}
      /\ tls.fromStore => ~StoreFails(tls)
      /\ getTLSConfigAPI(tls) = Config(tls)
  BY DEF getTLSConfigAPI
<1>2. GetCertPool(tls).text # "bad"
  <2>1. CASE tls.ca # "none"
    <3>1. GetCertPool(tls) = [from |-> "flag", text |-> tls.ca]
      BY <2>1 DEF GetCertPool
    <3>q. QED
      BY <1>1, <3>1
  <2>2. CASE tls.ca = "none"
    <3>1. GetCertPool(tls) = [from |-> "system", text |-> "good"]
      BY <2>2 DEF GetCertPool, Expressible
    <3>q. QED
      BY <3>1
  <2>q. QED
    BY <2>1, <2>2
<1>q. QED
  BY <1>1, <1>2, ConfigFits DEF OptionsOK

\* The tunnel of a handler is made of its parsed URLs and of the TLS options.
LEMMA ResultTLS ==
  ASSUME NEW p, NEW c, Tunnel(p, c) # Bad, Tunnel(p, c).tls # None
  PROVE  Tunnel(p, c).tls = c /\ c # Bad
<1>1. Tunnel(p, c) = [addr |-> p.addr, host |-> p.proxy.host,
                      tls |-> IF p.proxy.scheme = "https" THEN c ELSE None]
  BY DEF Tunnel
<1>2. p.proxy.scheme = "https"
  BY <1>1
<1>q. QED
  BY <1>1, <1>2 DEF Tunnel

LEMMA MadeTLS == ASSUME MadeInv PROVE TLSAsAsked
<1>1. ASSUME NEW t \in Tunnels, t.tls # None
      PROVE  Fits(t.tls)
  <2>1. PICK h \in Handlers : /\ t = Result(h) /\ t # Bad
                              /\ h = "api" => Expressible(tls)
    BY <1>1 DEF Tunnels, Done, MadeInv
  <2>2. CASE h = "api"
    <3>1. t = Tunnel(ParseURLs(dest, pom), getTLSConfigAPI(tls))
      BY <2>1, <2>2 DEF Result
    <3>q. QED
      BY <1>1, <2>1, <2>2, <3>1, ResultTLS, APIFits DEF MadeInv
  <2>3. CASE h # "api"
    <3>1. PICK p : t = Tunnel(p, getTLSConfigCLI(tls))
      BY <2>1, <2>3 DEF Result, Handlers
    <3>q. QED
      BY <1>1, <2>1, <3>1, ResultTLS, CLIFits DEF MadeInv
  <2>q. QED
    BY <2>2, <2>3
<1>q. QED
  BY <1>1 DEF TLSAsAsked, Fits

-----------------------------------------------------------------------------
(***************************************************************************)
(* Addresses.  WithPort gives a URL whose host has no literal the port it  *)
(* needs, and changes nothing else.                                        *)
(***************************************************************************)
LEMMA WithPortType ==
  ASSUME NEW url \in PomeriumURLs
  PROVE  /\ WithPort(url).scheme = url.scheme
         /\ WithPort(url).host \in Hosts
         /\ WithPort(url).host.name = url.host.name
         /\ ~Bare(url) => WithPort(url).host = [name |-> url.host.name, port |-> EffectivePort(url)]
<1>1. CASE HasColon(url.host)
  <2>1. WithPort(url) = url
    BY <1>1 DEF WithPort
  <2>q. QED
    BY <1>1, <2>1 DEF HasColon, Bare, EffectivePort, PomeriumURLs, Hosts
<1>2. CASE ~HasColon(url.host)
  <2>1. /\ WithPort(url).scheme = url.scheme
        /\ WithPort(url).host = [url.host EXCEPT !.port = DefaultPort(url.scheme)]
    BY <1>2 DEF WithPort, PomeriumURLs
  <2>2. url.host \in Hosts /\ url.host.port = "none"
    BY <1>2 DEF PomeriumURLs, HasColon
  <2>3. DefaultPort(url.scheme) \in AllPorts /\ DefaultPort(url.scheme) # "none"
    BY DEF DefaultPort, AllPorts
  <2>q. QED
    BY <2>1, <2>2, <2>3 DEF Hosts, EffectivePort
<1>q. QED
  BY <1>1, <1>2

\* A destination with a scheme is not one without.
LEMMA DestURLNotHost == ASSUME NEW d \in DestURLs PROVE d \notin Hosts
<1>1. DOMAIN d = {"scheme", "host", "path"} /\ "scheme" \in DOMAIN d
  BY DEF DestURLs
<1>2. \A e \in Hosts : "scheme" \notin DOMAIN e
  BY DEF Hosts
<1>q. QED
  BY <1>1, <1>2

\* The proxy that a destination names has a URL.
LEMMA DestinationProxyType ==
  ASSUME NEW d \in Hosts \cup DestURLs
  PROVE  DestinationProxy(d) \in PomeriumURLs
<1>1. CASE d \in Hosts
  <2> DEFINE host == [d EXCEPT !.port = "none"]
  <2>1. DestinationProxy(d) = [scheme |-> "https", host |-> host]
    BY <1>1, DestURLNotHost DEF DestinationProxy
  <2>2. host \in Hosts
    BY <1>1 DEF Hosts, AllPorts
  <2> HIDE DEF host
  <2>q. QED
    BY <2>1, <2>2 DEF PomeriumURLs
<1>2. CASE d \in DestURLs
  <2>0. d \notin Hosts /\ d.host \in Hosts
    BY <1>2, DestURLNotHost DEF DestURLs
  <2>1. TrimPrefix(d.scheme) \in {"https", "http"}
    BY <1>2 DEF DestURLs, TrimPrefix
  <2> DEFINE host == [d.host EXCEPT !.port = "none"]
  <2>2. host \in Hosts
    BY <2>0 DEF Hosts, AllPorts
  <2>3. DestinationProxy(d) \in {[scheme |-> TrimPrefix(d.scheme), host |-> host],
                                 [scheme |-> TrimPrefix(d.scheme), host |-> d.host]}
    BY <1>2, <2>0 DEF DestinationProxy
  <2> HIDE DEF host
  <2>4. \A x \in {host, d.host} : [scheme |-> TrimPrefix(d.scheme), host |-> x] \in PomeriumURLs
    BY <2>0, <2>1, <2>2 DEF PomeriumURLs
  <2>q. QED
    BY <2>3, <2>4
<1>q. QED
  BY <1>1, <1>2

\* What parsed URLs are when url names the server: at its host and at a port.
At(parsed, url) ==
  /\ url \in PomeriumURLs
  /\ parsed.proxy.host \in Hosts
  /\ parsed.proxy.scheme = url.scheme
  /\ ~Bare(url) => parsed.proxy.host = [name |-> url.host.name, port |-> EffectivePort(url)]
  /\ parsed.addr.name = DestinationAddr(dest).name

LEMMA ParsedProxy ==
  ASSUME OptionsOK, NEW p \in {pom, None}, ParseURLs(dest, p) # Bad
  PROVE  At(ParseURLs(dest, p), IF p = None THEN DestinationProxy(dest) ELSE p)
<1> DEFINE url == IF p = None THEN DestinationProxy(dest) ELSE p
<1>1. /\ dest # Bad /\ p # Bad
      /\ ParseURLs(dest, p) = [addr |-> DestinationAddr(dest), proxy |-> WithPort(url)]
  BY DEF ParseURLs, SplitFails
<1>2. dest \in Hosts \cup DestURLs /\ p \in PomeriumURLs \cup {None}
  BY <1>1 DEF OptionsOK
<1>3. url \in PomeriumURLs
  BY <1>2, DestinationProxyType
<1> HIDE DEF url
<1>4. At(ParseURLs(dest, p), url)
  BY <1>1, <1>3, WithPortType DEF At
<1>q. QED
  BY <1>4 DEF url

\* The same of the proxy command.
LEMMA BrowserProxy ==
  ASSUME OptionsOK, newTCPTunnel(dest, pom) # Bad
  PROVE  At(newTCPTunnel(dest, pom), IF pom = None THEN DestinationProxy(dest) ELSE pom)
<1>1. /\ dest \in Hosts /\ pom # Bad
      /\ newTCPTunnel(dest, pom) =
           [addr  |-> IF dest.port = "443" THEN [dest EXCEPT !.port = "8000"] ELSE dest,
            proxy |-> IF pom = None
                      THEN [scheme |-> "https", host |-> [dest EXCEPT !.port = "443"]]
                      ELSE WithPort(pom)]
  BY DEF newTCPTunnel
<1>2. newTCPTunnel(dest, pom).addr.name = DestinationAddr(dest).name
  <2>1. DestinationAddr(dest) = dest
    BY <1>1, DestURLNotHost DEF DestinationAddr
  <2>2. [dest EXCEPT !.port = "8000"].name = dest.name
    BY <1>1 DEF Hosts
  <2>q. QED
    BY <1>1, <2>1, <2>2
<1>3. CASE pom = None
  <2> DEFINE url == [scheme |-> "https", host |-> [dest EXCEPT !.port = "none"]]
             host == [dest EXCEPT !.port = "443"]
  <2>1. DestinationProxy(dest) = url
    BY <1>1, DestURLNotHost DEF DestinationProxy
  <2>2. /\ host \in Hosts /\ host = [name |-> dest.name, port |-> "443"]
        /\ [dest EXCEPT !.port = "none"] = [name |-> dest.name, port |-> "none"]
    BY <1>1 DEF Hosts, AllPorts
  <2>3. url.host.name = dest.name /\ EffectivePort(url) = "443" /\ url.scheme = "https"
    BY <2>2 DEF EffectivePort, DefaultPort
  <2>4. newTCPTunnel(dest, pom).proxy = [scheme |-> "https", host |-> host]
    BY <1>1, <1>3
  <2>5. url \in PomeriumURLs
    BY <1>1, <2>1, DestinationProxyType
  <2> HIDE DEF url, host
  <2>6. At(newTCPTunnel(dest, pom), url)
    BY <1>2, <2>2, <2>3, <2>4, <2>5 DEF At
  <2>q. QED
    BY <1>3, <2>1, <2>6
<1>4. CASE pom # None
  <2>1. pom \in PomeriumURLs
    BY <1>1, <1>4 DEF OptionsOK
  <2>2. newTCPTunnel(dest, pom).proxy = WithPort(pom)
    BY <1>1, <1>4
  <2>q. QED
    BY <1>2, <1>4, <2>1, <2>2, WithPortType DEF At
<1>q. QED
  BY <1>3, <1>4

\* A tunnel is dialled at the host of the parsed proxy.
LEMMA TunnelHost ==
  ASSUME NEW p, NEW c, Tunnel(p, c) # Bad
  PROVE  /\ p # Bad /\ Tunnel(p, c).host = p.proxy.host /\ Tunnel(p, c).addr = p.addr
         /\ Tunnel(p, c).tls = IF p.proxy.scheme = "https" THEN c ELSE None
  BY DEF Tunnel

\* What each handler makes is at the server it is asked for.
LEMMA ResultHost ==
  ASSUME OptionsOK, NEW h \in Handlers, Result(h) # Bad, getTLSConfigCLI(tls) # None,
         getTLSConfigAPI(tls) # None
  PROVE  /\ Result(h).host \in Hosts
         /\ ~Bare(Asked(h))
              => Result(h).host = [name |-> Asked(h).host.name, port |-> EffectivePort(Asked(h))]
         /\ Result(h).tls = None <=> Asked(h).scheme # "https"
         /\ Result(h).addr.name = DestinationAddr(dest).name
<1>1. ASSUME NEW p, NEW c, Result(h) = Tunnel(p, c), c # None, p # Bad => At(p, Asked(h))
      PROVE  /\ Result(h).host \in Hosts
             /\ ~Bare(Asked(h))
                  => Result(h).host = [name |-> Asked(h).host.name, port |-> EffectivePort(Asked(h))]
             /\ Result(h).tls = None <=> Asked(h).scheme # "https"
             /\ Result(h).addr.name = DestinationAddr(dest).name
  BY <1>1, TunnelHost DEF At
<1>2. CASE h = "tcp"
  <2>1. Asked(h) = IF pom = None THEN DestinationProxy(dest) ELSE pom
    BY <1>2 DEF Asked
  <2>q. QED
    BY <1>1, <1>2, <2>1, ParsedProxy DEF Result
<1>3. CASE h = "udp"
  <2>1. Asked(h) = DestinationProxy(dest)
    BY <1>3 DEF Asked
  <2>2. ParseURLs(dest, None) # Bad => At(ParseURLs(dest, None), DestinationProxy(dest))
    BY ParsedProxy
  <2>q. QED
    BY <1>1, <1>3, <2>1, <2>2 DEF Result
<1>4. CASE h = "api"
  <2>1. Asked(h) = IF pom = None THEN DestinationProxy(dest) ELSE pom
    BY <1>4 DEF Asked
  <2>q. QED
    BY <1>1, <1>4, <2>1, ParsedProxy DEF Result
<1>5. CASE h = "proxy"
  <2>1. Asked(h) = IF pom = None THEN DestinationProxy(dest) ELSE pom
    BY <1>5 DEF Asked
  <2>q. QED
    BY <1>1, <1>5, <2>1, BrowserProxy DEF Result
<1>q. QED
  BY <1>2, <1>3, <1>4, <1>5 DEF Handlers

\* A configuration, or an error, is not nothing.
LEMMA ConfigNotNone ==
  ASSUME OptionsOK
  PROVE  getTLSConfigCLI(tls) # None /\ getTLSConfigAPI(tls) # None
<1>1. tls \in TLSOptions
  BY DEF OptionsOK
<1>2. GetCertPool(tls).from \in {"system", "flag", "file"}
  BY DEF GetCertPool
<1>3. filterCallback(tls.issuer, tls.subject) \in SUBSET Certs
  BY DEF filterCallback
<1>4. tls.insecure \in BOOLEAN /\ (tls.cert = "good") \in BOOLEAN
  BY <1>1 DEF TLSOptions
<1>5. (IF tls.fromStore THEN filterCallback(tls.issuer, tls.subject) ELSE None) \in (SUBSET Certs) \cup {None}
  <2>1. CASE tls.fromStore
    BY <1>3, <2>1, Zenon
  <2>2. CASE ~tls.fromStore
    BY <2>2
  <2>q. QED
    BY <2>1, <2>2
<1>6. Config(tls) \in TLSConfigs
  BY <1>2, <1>4, <1>5, Zenon DEF Config, TLSConfigs
<1>q. QED
  BY <1>6, SettingsAssumption DEF getTLSConfigCLI, getTLSConfigAPI

\* Leaving the default port out of the URL of the login does not change where
\* it leads.
LEMMA BrowserPort ==
  ASSUME NEW url \in PomeriumURLs
  PROVE  /\ getBrowserURL(url).host.name = url.host.name
         /\ EffectivePort(getBrowserURL(url)) = EffectivePort(url)
<1>1. CASE getBrowserURL(url) = url
  BY <1>1
<1>2. CASE getBrowserURL(url) # url
  <2>1. /\ \/ url.scheme = "http" /\ url.host.port = "80"
           \/ url.scheme = "https" /\ url.host.port = "443"
        /\ getBrowserURL(url) = [url EXCEPT !.host.port = "none"]
    BY <1>2 DEF getBrowserURL
  <2>2. /\ getBrowserURL(url).scheme = url.scheme
        /\ getBrowserURL(url).host = [url.host EXCEPT !.port = "none"]
        /\ url.host \in Hosts
    BY <2>1 DEF PomeriumURLs
  <2>3. [url.host EXCEPT !.port = "none"].port = "none" /\ [url.host EXCEPT !.port = "none"].name = url.host.name
    BY <2>2 DEF Hosts
  <2>q. QED
    BY <2>1, <2>2, <2>3 DEF EffectivePort, DefaultPort
<1>q. QED
  BY <1>1, <1>2

LEMMA MadeAddresses == ASSUME MadeInv PROVE AddressesAgree
<1>0. OptionsOK
  BY DEF MadeInv
<1>1. \A h \in Handlers : Done(h) => made[h] = Result(h) /\ Result(h) # Bad
  BY DEF Done, MadeInv
<1>2. \A t \in Tunnels : \E h \in Handlers : t = Result(h) /\ Result(h) # Bad
  BY <1>1 DEF Tunnels
<1>3. BrowserSameOrigin
  <2> SUFFICES ASSUME NEW t \in Tunnels
               PROVE  /\ getBrowserURL(ServerURL(t)).host.name = t.host.name
                      /\ EffectivePort(getBrowserURL(ServerURL(t))) = EffectivePort(ServerURL(t))
    BY DEF BrowserSameOrigin
  <2>1. t.host \in Hosts
    BY <1>0, <1>2, ConfigNotNone, ResultHost
  <2>2. ServerURL(t) \in PomeriumURLs /\ ServerURL(t).host = t.host
    BY <2>1 DEF ServerURL, PomeriumURLs
  <2>q. QED
    BY <2>2, BrowserPort
<1>4. ProxyHasPort
  BY <1>0, <1>1, ConfigNotNone, ResultHost DEF ProxyHasPort
<1>5. SameServer
  BY <1>0, <1>1, ConfigNotNone, ResultHost DEF SameServer
<1>q. QED
  BY <1>3, <1>4, <1>5 DEF AddressesAgree

-----------------------------------------------------------------------------
(***************************************************************************)
(* Whatever the addresses are and in whatever order the handlers run, a    *)
(* tunnel leads through the server whose URL its handler reads, at a port  *)
(* unless that URL has a bare IPv6 literal, and the login goes there too.  *)
(* For the udp command that URL is the destination's, never the one of its *)
(* --pomerium-url.                                                         *)
(***************************************************************************)
THEOREM AddressesAlwaysAgree == Spec => []AddressesAgree
<1>1. Init => MadeInv
  BY MadeInit
<1>2. MadeInv /\ [Next]_vars => MadeInv'
  BY MadeStep
<1>3. MadeInv => AddressesAgree
  BY MadeAddresses
<1>q. QED
  BY <1>1, <1>2, <1>3, PTL DEF Spec

(***************************************************************************)
(* A tunnel over TLS uses the authority, the certificate and, if it is to  *)
(* take one from the store, the filter that it was given, or is not made,  *)
(* for all options that the command line or the API can be given; a filter *)
(* without the request for the store is ignored.                           *)
(***************************************************************************)
THEOREM TLSAlwaysAsAsked == Spec => []TLSAsAsked
<1>1. Init => MadeInv
  BY MadeInit
<1>2. MadeInv /\ [Next]_vars => MadeInv'
  BY MadeStep
<1>3. MadeInv => TLSAsAsked
  BY MadeTLS
<1>q. QED
  BY <1>1, <1>2, <1>3, PTL DEF Spec
=============================================================================
