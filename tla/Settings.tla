------------------------------ MODULE Settings ------------------------------
(***************************************************************************)
(* What becomes of the options of a tunnel: the destination, the Pomerium  *)
(* URL and the TLS options, on their way through ParseURLs                 *)
(* (tunnel/urls.go), the commands tcp, udp and proxy (cmd/pomerium-cli),   *)
(* newTunnel and getTLSConfig of the API (api/tunnel.go, api/server.go)    *)
(* and the filter of the certificate store (certstore/certstore.go).       *)
(*                                                                         *)
(* The same options are given to all of them, in any order, so that what   *)
(* they make of them can be compared.  A host is a name and a port; the    *)
(* name "v6" stands for an IPv6 literal, whose text has colons of its own, *)
(* "" for none.  Text that url.Parse refuses is Bad.                       *)
(***************************************************************************)
CONSTANTS Ports,   \* ports other than 80, 443 and 8000
          Values,  \* values of the attributes of certificates
          None,    \* what is left out
          Bad      \* what cannot be parsed, and an error

Names == {"h", "v6", ""}
AllPorts == Ports \cup {"none", "80", "443"}
Hosts == [name : Names, port : AllPorts]

\* A destination with a scheme; its path may be left out, or name a host.
DestURLs == [scheme : {"https", "http", "tcp+https", "udp+https", "tcp+http"},
             host   : Hosts,
             path   : {None} \cup [name : {"h", ""}, port : Ports \cup {"none"}]]

PomeriumURLs == [scheme : {"https", "http", ""}, host : Hosts]

\* One condition of a filter: left out, without a "=", or an attribute and a value.
Conditions == {None, Bad} \cup [attr : {"CN", "cn", "O", "X"}, value : Values]

Certs == [issuer : [cn : Values, o : SUBSET Values], subject : [cn : Values, o : SUBSET Values]]

TLSOptions == [insecure  : BOOLEAN,
               ca        : {"none", "good", "bad"},   \* --ca-cert
               caPath    : {"none", "good", "bad"},   \* --alternate-ca-path
               cert      : {"none", "good", "bad", "certOnly", "keyOnly"},
               fromStore : BOOLEAN,
               issuer    : Conditions,
               subject   : Conditions]

NoTLS == [insecure |-> FALSE, ca |-> "none", caPath |-> "none", cert |-> "none",
          fromStore |-> FALSE, issuer |-> None, subject |-> None]

Handlers == {"tcp", "udp", "api", "proxy"}

\* What is made of them; the store yields the certificates that its filter lets through.
TLSConfigs == [insecure : BOOLEAN,
               roots    : {"system", "flag", "file"},
               cert     : BOOLEAN,
               store    : (SUBSET Certs) \cup {None}]

\* What is left out is no URL, no configuration and no error.
ASSUME SettingsAssumption == None \notin PomeriumURLs \cup TLSConfigs \cup {Bad}

VARIABLES dest,       \* the destination
          pom,        \* the Pomerium URL, None when it is left out
          tls,        \* the TLS options
          supported,  \* whether this build has a certificate store
          made        \* what each handler has made of them: None, Bad, or a tunnel

vars == <<dest, pom, tls, supported, made>>

Addresses == /\ dest \in Hosts \cup DestURLs \cup {Bad}
             /\ pom \in PomeriumURLs \cup {None, Bad}
             /\ tls = NoTLS

\* The TLS options matter whatever the addresses are.
Certificates == /\ dest = [name |-> "h", port |-> "443"]
                /\ pom \in {None, [scheme |-> "http", host |-> [name |-> "h", port |-> "none"]]}
                /\ tls \in TLSOptions

Init == /\ Addresses \/ Certificates
        /\ supported \in BOOLEAN
        /\ made = [h \in Handlers |-> None]

-----------------------------------------------------------------------------
(***************************************************************************)
(* Addresses.                                                              *)
(***************************************************************************)
\* Whether the text of a host has a colon.
HasColon(host) == host.port # "none" \/ host.name = "v6"

DefaultPort(scheme) == IF scheme = "https" THEN "443" ELSE "80"

\* A mutant: the port does not look at the scheme.
WithPort_443(url) ==
  IF HasColon(url.host) THEN url ELSE [url EXCEPT !.host.port = "443"]

WithPort(url) ==
  IF HasColon(url.host) THEN url ELSE [url EXCEPT !.host.port = DefaultPort(url.scheme)]

TrimPrefix(scheme) == CASE scheme \in {"tcp+https", "udp+https"} -> "https"
                        [] scheme = "tcp+http" -> "http"
                        [] OTHER -> scheme

NoHost == [name |-> "", port |-> "none"]

\* net.SplitHostPort takes an empty host and an empty port, but not a missing one.
SplitFails(d) == d = Bad \/ (d \in Hosts /\ d.port = "none")

\* The proxy that the destination itself names.
DestinationProxy(d) ==
  CASE d \in Hosts ->
         [scheme |-> "https", host |-> [d EXCEPT !.port = "none"]]
    [] d \in DestURLs /\ d.path = None ->
         [scheme |-> TrimPrefix(d.scheme), host |-> [d.host EXCEPT !.port = "none"]]
    [] d \in DestURLs /\ d.path # None ->
         [scheme |-> TrimPrefix(d.scheme), host |-> d.host]

DestinationAddr(d) ==
  CASE d \in Hosts                     -> d
    [] d \in DestURLs /\ d.path = None -> d.host
    [] d \in DestURLs /\ d.path # None -> d.path

\* The address and the proxy, or an error.
ParseURLs(d, p) ==
  IF SplitFails(d) \/ p = Bad \/ (p \in PomeriumURLs /\ p.host = NoHost)
  THEN Bad
  ELSE [addr  |-> DestinationAddr(d),
        proxy |-> WithPort(IF p = None THEN DestinationProxy(d) ELSE p)]

\* The same for a destination that a browser gives to the proxy command.  Port
\* 443 is rewritten, and a Pomerium URL without a host is accepted.
newTCPTunnel(d, p) ==
  IF SplitFails(d) \/ d \notin Hosts \/ p = Bad
  THEN Bad
  ELSE [addr  |-> IF d.port = "443" THEN [d EXCEPT !.port = "8000"] ELSE d,
        proxy |-> IF p = None
                  THEN [scheme |-> "https", host |-> [d EXCEPT !.port = "443"]]
                  ELSE WithPort(p)]

\* The URL of the browser leaves out the default port, but not after an IPv6 literal.
getBrowserURL(url) ==
  IF /\ url.host.name # "v6"
     /\ <<url.scheme, url.host.port>> \in {<<"http", "80">>, <<"https", "443">>}
  THEN [url EXCEPT !.host.port = "none"]
  ELSE url

-----------------------------------------------------------------------------
(***************************************************************************)
(* Certificates.                                                           *)
(***************************************************************************)
ToLower(attr) == CASE attr = "CN" -> "cn" [] attr = "O" -> "o" [] attr = "X" -> "x" [] OTHER -> attr

\* The values of an attribute, already in lower case, of a name.
attributeLookup(name, attr) ==
  CASE attr = "cn" -> {name.cn}
    [] attr = "o"  -> name.o

parseFails(c) == c = Bad \/ (c # None /\ ToLower(c.attr) \notin {"cn", "o"})

\* A mutant: the subject's condition looks at the issuer.
filterCallback_issuer(issuer, subject) ==
  {cert \in Certs :
     /\ issuer # None => issuer.value \in attributeLookup(cert.issuer, ToLower(issuer.attr))
     /\ subject # None => subject.value \in attributeLookup(cert.issuer, ToLower(subject.attr))}

\* The certificates that the filter lets through.
filterCallback(issuer, subject) ==
  {cert \in Certs :
     /\ issuer # None => issuer.value \in attributeLookup(cert.issuer, ToLower(issuer.attr))
     /\ subject # None => subject.value \in attributeLookup(cert.subject, ToLower(subject.attr))}

\* GetClientCertificateFunc.
StoreFails(o) == ~supported \/ parseFails(o.issuer) \/ parseFails(o.subject)

\* GetCertPool: the text of the flag, if there is one, or else the file's.
GetCertPool(o) == CASE o.ca # "none"                        -> [from |-> "flag", text |-> o.ca]
                    [] o.ca = "none" /\ o.caPath # "none" -> [from |-> "file", text |-> o.caPath]
                    [] OTHER                                -> [from |-> "system", text |-> "good"]

Config(o) == [insecure |-> o.insecure,
              roots    |-> GetCertPool(o).from,
              cert     |-> o.cert = "good",
              store    |-> IF o.fromStore THEN filterCallback(o.issuer, o.subject) ELSE None]

\* Of the command line: cmd/pomerium-cli/main.go.
getTLSConfigCLI(o) ==
  IF \/ GetCertPool(o).text = "bad"
     \/ o.cert \in {"bad", "certOnly", "keyOnly"}   \* LoadX509KeyPair
     \/ o.fromStore /\ StoreFails(o)
  THEN Bad
  ELSE Config(o)

\* A build without a certificate store has no flags for it.
KnownFlags(o) == supported \/ (~o.fromStore /\ o.issuer = None /\ o.subject = None)

\* Of the API: api/server.go.
getTLSConfigAPI(o) ==
  IF \/ o.cert \in {"certOnly", "keyOnly"}
     \/ o.cert = "bad"
     \/ o.fromStore /\ StoreFails(o)
     \/ o.ca = "bad"
  THEN Bad
  ELSE Config(o)

\* What a Connection can say: the authority is given by its text and not together
\* with an order not to verify, and the filters belong to the request for the store.
Expressible(o) == /\ o.caPath = "none"
                  /\ ~(o.insecure /\ o.ca # "none")
                  /\ o.fromStore \/ (o.issuer = None /\ o.subject = None)

-----------------------------------------------------------------------------
(***************************************************************************)
(* The handlers.                                                           *)
(***************************************************************************)
\* A tunnel is made of the parsed URLs; TLS is for an https proxy only.
Tunnel(parsed, config) ==
  IF parsed = Bad \/ (parsed.proxy.scheme = "https" /\ config = Bad)
  THEN Bad
  ELSE [addr  |-> parsed.addr,
        host  |-> parsed.proxy.host,
        tls   |-> IF parsed.proxy.scheme = "https" THEN config ELSE None]

Make(h, result) == /\ made[h] = None
                   /\ made' = [made EXCEPT ![h] = result]
                   /\ UNCHANGED <<dest, pom, tls, supported>>

TcpCmd == /\ KnownFlags(tls)
          /\ Make("tcp", Tunnel(ParseURLs(dest, pom), getTLSConfigCLI(tls)))

\* The flag of this command is parsed into udpCmdOptions; the one that is read
\* is the other command's, which nobody sets.
UdpCmd == /\ KnownFlags(tls)
          /\ Make("udp", Tunnel(ParseURLs(dest, None), getTLSConfigCLI(tls)))

newTunnel == /\ Expressible(tls)
             /\ Make("api", Tunnel(ParseURLs(dest, pom), getTLSConfigAPI(tls)))

hijackProxyConnect == /\ KnownFlags(tls)
                      /\ Make("proxy", Tunnel(newTCPTunnel(dest, pom), getTLSConfigCLI(tls)))

Next == TcpCmd \/ UdpCmd \/ newTunnel \/ hijackProxyConnect

Spec == Init /\ [][Next]_vars

-----------------------------------------------------------------------------
(***************************************************************************)
(* Properties.                                                             *)
(***************************************************************************)
Done(h) == made[h] \notin {None, Bad}

Tunnels == {made[h] : h \in {g \in Handlers : Done(g)}}

\* The URL that names the server to handler h.  The udp command does not read the
\* Pomerium URL it is given: see UdpFollowsURL.
Asked(h) == IF pom = None \/ h = "udp" THEN DestinationProxy(dest) ELSE pom

\* An IPv6 literal without a port may be left without one: its colons pass for a port's.
Bare(url) == url.host.name = "v6" /\ url.host.port = "none"

\* The URL of the server as runWithJWT makes it for the login.
ServerURL(t) == [scheme |-> IF t.tls = None THEN "http" ELSE "https", host |-> t.host]

EffectivePort(url) == IF url.host.port = "none" THEN DefaultPort(url.scheme) ELSE url.host.port

\* The login in the browser goes to the host and the port of the proxy.
BrowserSameOrigin ==
  \A t \in Tunnels : LET u == getBrowserURL(ServerURL(t)) IN
                       /\ u.host.name = t.host.name
                       /\ EffectivePort(u) = EffectivePort(ServerURL(t))

\* Every proxy is at the host that was asked for, and has a port to dial, the
\* default one of its scheme if none was given.
ProxyHasPort ==
  \A h \in Handlers :
    Done(h) /\ ~Bare(Asked(h))
      => made[h].host = [name |-> Asked(h).host.name, port |-> EffectivePort(Asked(h))]

\* Handlers that are asked for the same server reach the same destination through
\* it, over TLS or not.
SameServer ==
  \A g, h \in Handlers :
    Done(g) /\ Done(h) /\ Asked(g) = Asked(h)
      => /\ made[g].tls = None <=> made[h].tls = None
         /\ made[g].addr.name = made[h].addr.name

(***************************************************************************)
(* Whichever way a tunnel is made, it leads through the server whose URL   *)
(* the code reads, that of --pomerium-url or of the destination, and for   *)
(* udp that of the destination always; it does so at a port, unless the    *)
(* URL has a bare IPv6 literal; and the login of its user goes there too   *)
(* (urls.go:41-57, proxy.go:115-131, udp.go:26, authclient.go:153-165).    *)
(***************************************************************************)
AddressesAgree == BrowserSameOrigin /\ ProxyHasPort /\ SameServer

(***************************************************************************)
(* What the help of the udp command says of --pomerium-url, "the URL of    *)
(* the pomerium server to connect to" (udp.go:78-79): the tunnel leads     *)
(* there.  The code does not do so.                                        *)
(***************************************************************************)
UdpFollowsURL ==
  Done("udp") /\ pom \in PomeriumURLs /\ pom.host.name # "" =>
    made["udp"].host.name = pom.host.name

\* What a user asks for, read off the options alone.
Matches(name, c) == \/ c = None
                    \/ c.attr \in {"CN", "cn"} /\ c.value = name.cn
                    \/ c.attr = "O" /\ c.value \in name.o

(***************************************************************************)
(* A tunnel over TLS verifies with the authority it was given, the text's  *)
(* before the file's, and presents the certificate it was given or, when   *)
(* it is to take one from the store, one that both conditions select; if   *)
(* one of these cannot be had the tunnel is not made.  Conditions without  *)
(* a request for the store are dropped, also when they do not parse: no    *)
(* certificate of the store is presented (main.go:96-124,                  *)
(* server.go:161-201, certstore.go:56-128).                                *)
(***************************************************************************)
TLSAsAsked ==
  \A t \in Tunnels :
    t.tls # None =>
      /\ t.tls.insecure = tls.insecure
      /\ tls.ca # "none" => t.tls.roots = "flag" /\ tls.ca = "good"
      /\ tls.ca = "none" /\ tls.caPath # "none" => t.tls.roots = "file" /\ tls.caPath = "good"
      /\ tls.cert # "none" => t.tls.cert
      /\ IF tls.fromStore
         THEN t.tls.store = {cert \in Certs : /\ Matches(cert.issuer, tls.issuer)
                                              /\ Matches(cert.subject, tls.subject)}
         ELSE t.tls.store = None
=============================================================================
