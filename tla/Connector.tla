----------------------------- MODULE Connector -----------------------------
(***************************************************************************)
(* The connector service (src/conn/connector.rs): connection attempts that *)
(* choose a route, dial, pass a proxy (CONNECT tunnel, src/conn/proxy/     *)
(* tunnel.rs; SOCKS, src/conn/proxy/socks.rs; Unix socket) and set up TLS  *)
(* with their target (src/tls/conn), all under one timer                   *)
(* (src/conn/timeout.rs).  The attempts of a client share its TLS session  *)
(* cache, the module SessionCache, whose connections they are.             *)
(*                                                                         *)
(* Peers are external: they accept or refuse, answer a CONNECT in pieces,  *)
(* resolve a name, complete a handshake, or do nothing.                    *)
(***************************************************************************)
EXTENDS FiniteSets, SessionCache, Proxy

CONSTANTS
    Scenarios       \* configurations of a client, and what it is asked for

\* Mutant: connections through different proxies share an identity.
IdOf_NoProxy(d) ==
    [group |-> d.group, uri |-> d.uri, version |-> d.version, bind |-> d.bind]

\* ConnectionDescriptor::new: all that a connection's identity is made of; the
\* TLS options are part of it through the group of their emulation.
IdOf(d) ==
    [group |-> d.group, uri |-> d.uri, version |-> d.version, proxy |-> d.proxy, bind |-> d.bind]

\* Building the connector fails if the request's TLS options are unusable.
Unusable(d) == d.tls = "bad"

\* A client has a sequence of matchers, Nagle's algorithm off or on, a local
\* address, TLS session resumption on or off, a connect timeout, and the HTTP
\* version of http1_only or http2_only, or the default.
ClientOK(c) ==
    /\ c.pref \in {"HTTP_11", "HTTP_2", "default"}
    /\ c.timeout \in Nat \cup {None}
    /\ c.nodelay \in BOOLEAN
    /\ c.proxies \in Seq(Range(c.proxies))
    /\ \A m \in Range(c.proxies) : m # None => MatcherOK(m)

\* A descriptor has a URI, whose scheme ConfigService has checked, a group, a
\* matcher, a version, TLS options and a local address of its own.
DescriptorOK(d) ==
    /\ d.uri.scheme \in Httpish /\ HostOK(d.uri.host)
    /\ d.proxy # None => MatcherOK(d.proxy)
    /\ d.version \in {"HTTP_11", "HTTP_2", None}
    /\ IdOf(d) \in Keys

\* The hosts that a client may have TLS with, and the state of such a session.
HostsOf(sc) ==
    {d.uri.host : d \in sc.wanted} \cup
    {i.uri.host : i \in (UNION {{m.http, m.https} :
        m \in ({d.proxy : d \in sc.wanted} \cup Range(sc.client.proxies)) \ {None}}) \ {None}}

TlsStates(sc) ==
    [ with : HostsOf(sc), opts : {d.tls : d \in sc.wanted} \cup {"client"},
      alpn : {"HTTP_11", "HTTP_2", "default", None}, h2 : BOOLEAN ]

\* An absent value is none of the present ones, and the group of an identity is that
\* of the emulation which brings the TLS options.
ASSUME ConnectorAssumption ==
    /\ None \notin Keys \cup Sessions
    /\ None \notin {"HTTP_2", "default"}
    /\ \A sc \in Scenarios :
          /\ ClientOK(sc.client)
          /\ \A d \in sc.wanted : DescriptorOK(d)
          /\ \A d, e \in sc.wanted :
                IdOf(d) = IdOf(e) /\ ~Unusable(d) /\ ~Unusable(e) => d.tls = e.tls
          /\ None \notin TlsStates(sc)

VARIABLES
    client, \* the client's configuration
    wanted, \* the descriptors of the requests it gets
    at,     \* attempt -> its state
    issuer  \* session -> who issued it last

connectorVars == <<client, wanted, at, issuer, capacity, lists, reverse, ckey, resumed>>

\* What has been read of a proxy's answer: its status, once the status line has
\* been, and whether that was the whole head.  407 stands for any refusal.
Nothing == [status |-> None, whole |-> FALSE]
Opened == [status |-> 200, whole |-> TRUE]
Heads == [status : {None, 200, 407}, whole : BOOLEAN]

Idle ==
    [ phase |-> "idle", desc |-> None, via |-> None, sock |-> None, heard |-> Nothing,
      tls |-> None, told |-> {}, age |-> 0, blamed |-> None ]

ConnectorInit ==
    /\ Init
    /\ \E sc \in Scenarios : client = sc.client /\ wanted = sc.wanted
    /\ at = [h \in Connections |-> Idle]
    /\ issuer = [s \in Sessions |-> None]

Active(h) ==
    at[h].phase \in {"dial", "proxyTls", "connect", "reply", "resolve", "socks", "socksReply", "handshake"}
-----------------------------------------------------------------------------
(* Routes.                                                                 *)

\* connect_auto: the request's proxy, then the first of the client's that
\* intercepts the URI.
Route(d) ==
    LET ms == <<d.proxy>> \o client.proxies
        hits == {i \in DOMAIN ms : ms[i] # None /\ Intercept(ms[i], d.uri) # None}
    IN  IF hits = {} THEN None ELSE Intercept(ms[CHOOSE i \in hits : \A j \in hits : i <= j], d.uri)

\* connect_via_proxy: the ways to the target.
Way(d, via) ==
    CASE via = None -> "direct"
      [] via # None /\ via.kind = "unix" ->
            IF d.uri.scheme = "https" THEN "unixTunnel" ELSE "unix"
      [] via # None /\ via.kind = "proxy" /\ via.proxy.uri.scheme \in Socks -> "socks"
      [] OTHER -> IF d.uri.scheme = "https" THEN "tunnel" ELSE "forward"

WayOf(h) == Way(at[h].desc, at[h].via)

\* Mutant: the handshake is with the proxy on every way.
EndUri_Proxy(d, via) == IF via # None /\ via.kind = "proxy" THEN via.proxy.uri ELSE d.uri

\* The URI that the last TLS handshake is for: that of the proxy if requests are
\* forwarded to it (`*descriptor.uri_mut() = proxy_uri'), else the target's.
EndUri(d, via) == IF Way(d, via) = "forward" THEN via.proxy.uri ELSE d.uri

\* The local addresses of the socket, see build_https_connector; the SOCKS
\* connector is given the client's plain connector.
BindOf(d, way) == IF way # "socks" /\ d.bind # None THEN d.bind ELSE client.bind

\* The socket that is dialled.  Nagle's algorithm is off for the time of a
\* handshake.
SocketOf(d, via) ==
    LET way == Way(d, via) IN
    IF via # None /\ via.kind = "unix"
    THEN [to |-> via.path, port |-> None, bind |-> None, nodelay |-> client.nodelay]
    ELSE LET u == IF via = None THEN d.uri ELSE via.proxy.uri IN
         [ to |-> u.host, port |-> PortOrDefault(u), bind |-> BindOf(d, way),
           nodelay |-> client.nodelay \/ (way # "socks" /\ EndUri(d, via).scheme = "https") ]

Resolver == [kind |-> "resolver"]

Told(to, what) == IF what = None THEN {} ELSE {[to |-> to, what |-> what]}

\* A name that is dialled is resolved here.
Looked(host) == Told(Resolver, IF host.kind = "name" THEN host ELSE None)

\* Mutant: whatever fails behind a proxy is the proxy's fault.
Blame_Anywhere(h) == IF WayOf(h) \in {"direct", "unix"} THEN "connect" ELSE "proxy"

\* A connection fails with the kind that Error::new finds in its error: a
\* TunnelError, a SocksError, or what connect_auto_proxy wraps as ProxyConnect.
Blame(h) ==
    CASE WayOf(h) = "forward" -> "proxy"
      [] WayOf(h) \in {"socks", "tunnel", "unixTunnel"} /\ at[h].phase # "handshake" -> "proxy"
      [] OTHER -> "connect"

\* A connection that is dropped leaves the session cache's connections.
Dropped(h) == IF ckey[h] = NoKey THEN UNCHANGED vars ELSE Disconnect(h)

Fails(h, kind, head) ==
    /\ at' = [at EXCEPT ![h].phase = "failed", ![h].sock = None, ![h].tls = None, ![h].age = 0,
                        ![h].told = {}, ![h].heard = head, ![h].blamed = kind]
    /\ Dropped(h)

\* connect_auto: choose the route and dial; where the HTTPS connector is built
\* first, its failure comes first.
Start(h, d) ==
    /\ at[h].phase = "idle"
    /\ LET via == Route(d)
           way == Way(d, via)
       IN  at' = [at EXCEPT ![h] =
                     IF Unusable(d) /\ way \in {"direct", "forward", "tunnel"}
                     THEN [Idle EXCEPT !.phase = "failed", !.desc = d, !.via = via,
                                       !.blamed = IF way = "forward" THEN "proxy" ELSE "connect"]
                     ELSE [Idle EXCEPT !.phase = "dial", !.desc = d, !.via = via,
                                       !.sock = SocketOf(d, via),
                                       !.told = Looked(SocketOf(d, via).to)]]
    /\ UNCHANGED <<client, wanted, issuer, vars>>
-----------------------------------------------------------------------------
(* TLS with the target, or with the proxy that requests are forwarded to.  *)

\* The TLS options in use: the request's, unless the way is a Unix socket.
OptionsOf(d, way) == IF d.tls # None /\ way \notin {"unix", "unixTunnel"} THEN d.tls ELSE "client"

\* Mutant: ALPN is offered to proxies too.
Alpn_Always(d, way) == IF d.version # None THEN d.version ELSE client.pref

\* setup_ssl2: a version that the request demands is offered alone; otherwise
\* what the connector is set to, nothing after no_alpn.
Alpn(d, way) ==
    IF d.version # None THEN d.version ELSE IF way = "forward" THEN None ELSE client.pref

\* Sessions are kept only if the TLS options ask for it.
Resumes(d, way) == IF OptionsOf(d, way) = "client" THEN client.psk ELSE TRUE

\* Mutant: the session is offered and not taken out of the cache.
Offered_Peeked(h, k) ==
    /\ ckey[h] = NoKey
    /\ ckey' = [ckey EXCEPT ![h] = k]
    /\ resumed' = [resumed EXCEPT ![h] = IF lists[k] = <<>> THEN NoSession ELSE lists[k][1]]
    /\ UNCHANGED <<capacity, lists, reverse>>

\* setup_ssl2: the session of the connection's identity is taken and offered.
Offered(h, k) == Connect(h, k)

\* setup_ssl2 and the start of the handshake.
EnterHandshake(h, head) ==
    LET d == at[h].desc
        way == WayOf(h)
    IN  /\ at' = [at EXCEPT ![h].phase = "handshake", ![h].heard = head,
                            ![h].tls = [ with |-> EndUri(d, at[h].via).host,
                                         opts |-> OptionsOf(d, way),
                                         alpn |-> Alpn(d, way), h2 |-> FALSE ]]
        /\ IF Resumes(d, way) THEN Offered(h, IdOf(d)) ELSE UNCHANGED vars

\* HttpsConnector: TLS unless the scheme is http.
Established(h) ==
    IF EndUri(at[h].desc, at[h].via).scheme = "http"
    THEN /\ at' = [at EXCEPT ![h].phase = "ready"]
         /\ UNCHANGED vars
    ELSE EnterHandshake(h, at[h].heard)

\* Mutant: Nagle's algorithm stays off.
Restored_Not(h) == at[h].sock

\* Nagle's algorithm is on again unless the client wants it off.
Restored(h) ==
    IF WayOf(h) # "unixTunnel" /\ ~client.nodelay THEN [at[h].sock EXCEPT !.nodelay = FALSE]
    ELSE at[h].sock

HandshakeDone(h) ==
    /\ at[h].phase = "handshake"
    /\ \E h2 \in {b \in BOOLEAN : b => at[h].tls.alpn \in {"HTTP_2", "default"}} :
          at' = [at EXCEPT ![h].phase = "ready", ![h].sock = Restored(h), ![h].tls.h2 = h2]
    /\ UNCHANGED <<client, wanted, issuer, vars>>

\* The new-session callback, during the handshake or later.
TicketArrives(h, s) ==
    /\ at[h].phase \in {"handshake", "ready"}
    /\ NewSession(h, s)
    /\ issuer' = [issuer EXCEPT ![s] = at[h].tls.with]
    /\ UNCHANGED <<client, wanted, at>>
-----------------------------------------------------------------------------
(* The way to the target.                                                  *)

\* The schemes that leave the resolution of the target's name to the proxy.
RemoteNames == {"socks4a", "socks5h"}

\* The socket is connected.
Dialled(h) ==
    /\ at[h].phase = "dial"
    /\ UNCHANGED <<client, wanted, issuer>>
    /\ LET way == WayOf(h)
           proxy == at[h].via.proxy.uri
           goto(p) == at' = [at EXCEPT ![h].phase = p] /\ UNCHANGED vars
       IN  CASE way \in {"direct", "forward", "unix"} -> Established(h)
             [] way = "unixTunnel" -> goto("connect")
             [] way = "tunnel" -> goto(IF proxy.scheme = "https" THEN "proxyTls" ELSE "connect")
             [] way = "socks" -> goto(IF proxy.scheme \in RemoteNames THEN "socks" ELSE "resolve")

\* The handshake with an HTTPS proxy (setup_ssl): no ALPN, no session.
ProxySealed(h) ==
    /\ at[h].phase = "proxyTls"
    /\ at' = [at EXCEPT ![h].phase = "connect"]
    /\ UNCHANGED <<client, wanted, issuer, vars>>

\* tunnel: write the CONNECT request, with the proxy's authorization.
Commands(h) ==
    /\ at[h].phase = "connect"
    /\ at' = [at EXCEPT ![h].phase = "reply",
                        ![h].told = @ \cup (IF WayOf(h) = "unixTunnel" THEN {}
                                            ELSE Told(at[h].sock.to, ProxyAuthorization(at[h].via.proxy)))]
    /\ UNCHANGED <<client, wanted, issuer, vars>>

\* The answers that a read may make of what was read so far.
Longer(head) ==
    {g \in Heads : /\ g # head /\ ~head.whole
                   /\ head.status # None => g.status = head.status
                   /\ g.whole => g.status # None}

\* Mutant: the status line decides, before the rest of the head is there.
Verdict_Early(head) ==
    IF head.status = None THEN "more" ELSE IF head.status = 200 THEN "open" ELSE "refused"

\* tunnel: what a head makes of the attempt, see the loop's match.
Verdict(head) == IF ~head.whole THEN "more" ELSE IF head.status = 200 THEN "open" ELSE "refused"

\* tunnel: a read brings a part of the answer.
HearsPart(h) ==
    /\ at[h].phase = "reply"
    /\ \E head \in Longer(at[h].heard) :
          Verdict(head) = "more" /\ at' = [at EXCEPT ![h].heard = head]
    /\ UNCHANGED <<client, wanted, issuer, vars>>

\* tunnel: the answer is there and its status is 200.
TunnelOpens(h) ==
    /\ at[h].phase = "reply"
    /\ \E head \in Longer(at[h].heard) : Verdict(head) = "open" /\ EnterHandshake(h, head)
    /\ UNCHANGED <<client, wanted, issuer>>

\* tunnel: ProxyAuthRequired or TunnelUnsuccessful.
TunnelRefused(h) ==
    /\ at[h].phase = "reply"
    /\ \E head \in Longer(at[h].heard) : Verdict(head) = "refused" /\ Fails(h, "proxy", head)
    /\ UNCHANGED <<client, wanted, issuer>>

\* SOCKS: the target's name is resolved here.
Resolves(h) ==
    /\ at[h].phase = "resolve"
    /\ at' = [at EXCEPT ![h].phase = "socks", ![h].told = @ \cup Looked(at[h].desc.uri.host)]
    /\ UNCHANGED <<client, wanted, issuer, vars>>

\* SOCKS: ask for the target; only version 5 sends the credentials.
SocksCommands(h) ==
    LET i == at[h].via.proxy IN
    /\ at[h].phase = "socks"
    /\ at' = [at EXCEPT ![h].phase = "socksReply",
                        ![h].told = @ \cup (IF i.uri.scheme \in {"socks5", "socks5h"}
                                            THEN Told(at[h].sock.to, RawAuthOf(i)) ELSE {})]
    /\ UNCHANGED <<client, wanted, issuer, vars>>

\* SOCKS: the proxy agrees; only then is the HTTPS connector built.
SocksAgrees(h) ==
    /\ at[h].phase = "socksReply"
    /\ IF Unusable(at[h].desc) THEN Fails(h, "connect", at[h].heard) ELSE Established(h)
    /\ UNCHANGED <<client, wanted, issuer>>

\* A refusal, an error, an end of file or nonsense at any point.
PeerFails(h) ==
    /\ Active(h)
    /\ Fails(h, Blame(h), at[h].heard)
    /\ UNCHANGED <<client, wanted, issuer>>
-----------------------------------------------------------------------------
(* Time, and the use of the connection.                                    *)

Pending(h) == Active(h) /\ client.timeout # None

Tick ==
    /\ \E h \in Connections : Pending(h) /\ at[h].age < client.timeout
    /\ at' = [h \in Connections |->
                 IF Pending(h) /\ at[h].age < client.timeout THEN [at[h] EXCEPT !.age = @ + 1]
                 ELSE at[h]]
    /\ UNCHANGED <<client, wanted, issuer, vars>>

\* Mutant: the timer covers the TCP connection only.
Expired_Dialling(h) == Pending(h) /\ at[h].age >= client.timeout /\ at[h].phase = "dial"

\* TimeoutFuture: one sleep from the call to the result, whatever the layers
\* inside are doing.
Expired(h) == Pending(h) /\ at[h].age >= client.timeout

TimesOut(h) ==
    /\ Expired(h)
    /\ Fails(h, "timeout", at[h].heard)
    /\ UNCHANGED <<client, wanted, issuer>>

\* Mutant: the authorization is also sent through a tunnel.
Forwarded_Always(h) == at[h].via # None /\ at[h].via.kind = "proxy"

\* conn_from_stream, tunnel_conn_from_stream: only a connection to a proxy that
\* forwards requests is known as proxied.
Forwarded(h) == WayOf(h) = "forward"

\* connect_to: the connection is driven as HTTP/2 if the request demands it or
\* the client is http2_only, whatever was negotiated, and else if ALPN chose it.
IsH2(h) ==
    \/ at[h].desc.version = "HTTP_2"
    \/ client.pref = "HTTP_2"
    \/ at[h].tls # None /\ at[h].tls.h2

\* try_send_request: the first request of a forwarding connection, unless it is
\* a CONNECT, carries the proxy's authorization if the connection is HTTP/1.
Sends(h) ==
    /\ at[h].phase = "ready"
    /\ at' = [at EXCEPT ![h].phase = "used",
                        ![h].told = @ \cup
                            (IF Forwarded(h) /\ ~IsH2(h)
                             THEN Told(EndUri(at[h].desc, at[h].via).host,
                                       ProxyAuthorization(at[h].via.proxy))
                             ELSE {})]
    /\ UNCHANGED <<client, wanted, issuer, vars>>

Close(h) ==
    /\ at[h].phase \in {"ready", "used", "failed"}
    /\ at' = [at EXCEPT ![h] = Idle]
    /\ Dropped(h)
    /\ UNCHANGED <<client, wanted, issuer>>

ConnectorNext ==
    \/ Tick
    \/ \E h \in Connections :
          \/ \E d \in wanted : Start(h, d)
          \/ Dialled(h) \/ ProxySealed(h) \/ Commands(h) \/ HearsPart(h)
          \/ TunnelOpens(h) \/ TunnelRefused(h) \/ Resolves(h) \/ SocksCommands(h) \/ SocksAgrees(h)
          \/ HandshakeDone(h) \/ PeerFails(h) \/ TimesOut(h) \/ Sends(h) \/ Close(h)
          \/ \E s \in Sessions : TicketArrives(h, s)

\* The runtime's timers fire and wake the task they belong to; peers owe nothing.
ConnectorSpec ==
    /\ ConnectorInit /\ [][ConnectorNext]_connectorVars
    /\ WF_connectorVars(Tick)
    /\ \A h \in Connections : WF_connectorVars(TimesOut(h))
-----------------------------------------------------------------------------
Usable(h) == at[h].phase \in {"ready", "used"}

\* Whatever the way, a connection for an https URI ends in TLS with the host of
\* the URI, and one for an http URI has TLS with nobody but the proxy it is
\* forwarded to, with the port and the host of that proxy dialled.
TargetSealed ==
    \A h \in Connections : Usable(h) =>
        LET d == at[h].desc
            end == IF at[h].tls = None THEN None ELSE at[h].tls.with
        IN  IF d.uri.scheme = "https" THEN end = d.uri.host
            ELSE end # None => /\ at[h].via.proxy.uri.scheme = "https"
                               /\ end = at[h].via.proxy.uri.host
                               /\ at[h].sock.to = end

\* Nothing is told to the wrong party: a credential reaches only the proxy it
\* was configured for, never the target of a tunnel; and the name of a target
\* is resolved here only if it is dialled directly, is itself the proxy, or
\* is asked of a SOCKS proxy whose scheme resolves names locally.
SecretsKept ==
    \A h \in Connections : \A t \in at[h].told :
        IF t.to = Resolver
        THEN \/ at[h].via = None /\ t.what = at[h].desc.uri.host
             \/ /\ at[h].via # None /\ at[h].via.kind = "proxy"
                /\ \/ t.what = at[h].via.proxy.uri.host
                   \/ at[h].via.proxy.uri.scheme \in {"socks4", "socks5"}
        ELSE t.to = at[h].via.proxy.uri.host

\* A proxy that has credentials gets the same ones whether it tunnels or
\* forwards: an HTTP proxy is never used without them, unless it forwards over
\* HTTP/2, demanded, configured or negotiated, and the custom headers have the
\* last word.
ProxyAuthorized ==
    \A h \in Connections :
        /\ at[h].phase = "used" /\ WayOf(h) \in {"forward", "tunnel"}
        /\ ~(WayOf(h) = "forward" /\ IsH2(h))
        => LET extra == at[h].via.proxy.extra
               creds == {t.what : t \in {u \in at[h].told : u.to # Resolver}}
           IN  /\ Cardinality(creds) <= 1
               /\ extra.auth # None => creds # {}
               /\ extra.misc # None /\ extra.misc.auth # None => creds = {extra.misc.auth}

\* An excluded host is never reached through the proxy it is excluded from: some
\* matcher of the request or the client that has the proxy does not exclude it.
BypassHonoured ==
    \A h \in Connections : at[h].via # None /\ at[h].via.kind = "proxy" =>
        \E m \in {at[h].desc.proxy} \cup Range(client.proxies) :
            /\ m # None /\ at[h].via.proxy \in {m.http, m.https}
            /\ LET host == at[h].desc.uri.host IN
               \A e \in m.no :
                   CASE e.kind = "network" -> host.kind = "ip" => host.addr \notin e.addrs
                     [] e.kind = "wildcard" -> host.kind = "ip"
                     [] OTHER -> host.kind = "name" =>
                            \A i \in DOMAIN host.labels :
                                SubSeq(host.labels, i, Len(host.labels)) # e.labels

\* "Connections with the same ID are considered equivalent and can be reused."
\* Two connections of one identity go to the same place in the same way, with
\* the same TLS options, and a request sent on either tells the same secrets.
Interchangeable ==
    \A g, h \in Connections :
        Usable(g) /\ Usable(h) /\ IdOf(at[g].desc) = IdOf(at[h].desc) =>
            /\ at[g].via = at[h].via
            /\ at[g].sock = at[h].sock
            /\ (at[g].tls = None) = (at[h].tls = None)
            /\ at[g].tls # None => [at[g].tls EXCEPT !.h2 = FALSE] = [at[h].tls EXCEPT !.h2 = FALSE]

\* Once a connection is handed out Nagle's algorithm is as the client wants it,
\* although a handshake turned it off.
NagleRestored ==
    \A h \in Connections : Usable(h) => at[h].sock.nodelay = client.nodelay

\* A proxy is offered ALPN only for the version that the request demands, so one
\* that forwards does not switch a request to HTTP/2 by itself.
ProxyKeepsVersion ==
    \A h \in Connections :
        Usable(h) /\ WayOf(h) = "forward" /\ at[h].tls # None /\ at[h].tls.h2 =>
            at[h].desc.version = "HTTP_2"

\* A connection that is handed out is the one that was asked for, whatever was
\* changed for one of its legs on the way: whom TLS is with, Nagle's algorithm,
\* the version (connect_auto_proxy, connect_via_proxy).
HandedOutRight == TargetSealed /\ NagleRestored /\ ProxyKeepsVersion

\* Credentials reach the proxy they are for on every way, and nobody else.
CredentialsPlaced == SecretsKept /\ ProxyAuthorized

\* A tunnel is the target's once the proxy has said so to the end, however its
\* answer is cut into reads: TLS with the target begins, and a session is spent
\* on it, only after the whole head of a 200, a failure after it is not put down
\* to the proxy, and a refusal ends the attempt as the proxy's.
TunnelEarned ==
    \A h \in Connections : WayOf(h) \in {"tunnel", "unixTunnel"} =>
        LET opened == at[h].heard = Opened
            failed == at[h].phase = "failed"
        IN  /\ at[h].tls # None \/ ckey[h] # NoKey => opened
            /\ failed /\ opened => at[h].blamed # "proxy"
            /\ at[h].heard.whole /\ ~opened => failed /\ at[h].blamed = "proxy"

\* A session is offered only to the peer that issued it.
SessionsGoHome ==
    [][\A h \in Connections :
          resumed'[h] # resumed[h] /\ resumed'[h] # NoSession =>
              issuer[resumed'[h]] = at'[h].tls.with]_connectorVars

\* An identity tells connections apart where it matters: those it equates can
\* replace each other, and their sessions go back only to who issued them
\* (ConnectionDescriptor::new; the pool and the session cache use it as key).
IdentityHolds == []Interchangeable /\ SessionsGoHome

\* The connector uses the session cache as SessionCache says, so what is proved
\* there holds here.
CacheUsed == Spec

\* With a connect timeout every attempt ends, wherever its peer leaves it.
AttemptsEnd ==
    client.timeout # None =>
        \A h \in Connections : Active(h) ~> ~Active(h)

=============================================================================
