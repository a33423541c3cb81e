------------------------------- MODULE Proxy -------------------------------
(***************************************************************************)
(* Proxies: their configuration (src/proxy.rs) and the matchers that       *)
(* decide which one intercepts a destination (src/proxy/matcher.rs).       *)
(*                                                                         *)
(* A URI is [scheme, host, port, user].  A host is a name, the sequence of *)
(* its labels, or an IP address.  `user' stands for the decoded user name  *)
(* and password of the authority; a credential is such a value or that of  *)
(* an explicit header.                                                     *)
(***************************************************************************)
EXTENDS Integers, Sequences, SequencesExt

CONSTANT None       \* an absent optional value

Socks == {"socks4", "socks4a", "socks5", "socks5h"}
Httpish == {"http", "https"}

Name(labels) == [kind |-> "name", labels |-> labels]
Ip(addr) == [kind |-> "ip", addr |-> addr]
Uri(scheme, host, port, user) ==
    [scheme |-> scheme, host |-> host, port |-> port, user |-> user]

\* UriExt::port_or_default: 443 for https and 80 for every other scheme.
PortOrDefault(u) ==
    IF u.port # None THEN u.port ELSE IF u.scheme = "https" THEN 443 ELSE 80

\* What a proxy is given on top of its URI: a header value, and headers, of
\* which only the Proxy-Authorization they may contain is kept.
NoExtra == [auth |-> None, misc |-> None]
-----------------------------------------------------------------------------
(* Proxy: http, https, all, unix and the calls that refine them.           *)

\* Proxy::new: no credentials, no headers and no exclusions yet.
NewProxy(traffic, uri) ==
    [traffic |-> traffic, uri |-> uri, extra |-> NoExtra, no |-> None]

\* Proxy::basic_auth: the credentials go into the URI and into the header;
\* a Unix socket has neither.
BasicAuth(p, cred) ==
    IF p.traffic = "unix" THEN p
    ELSE [p EXCEPT !.uri.user = cred, !.extra.auth = cred]

\* Proxy::custom_http_auth: the header alone.
CustomHttpAuth(p, cred) == [p EXCEPT !.extra.auth = cred]

\* Proxy::custom_http_headers, with the Proxy-Authorization among them.
CustomHttpHeaders(p, inner) ==
    IF p.traffic = "unix" THEN p ELSE [p EXCEPT !.extra.misc = [auth |-> inner]]

\* Proxy::no_proxy.
WithNoProxy(p, entries) == [p EXCEPT !.no = entries]
-----------------------------------------------------------------------------
(* NoProxy: networks and addresses are sets of addresses, domains label    *)
(* sequences; a leading dot of an entry makes no difference.               *)

Domain(labels) == [kind |-> "domain", labels |-> labels]
Network(addrs) == [kind |-> "network", addrs |-> addrs]
Wildcard == [kind |-> "wildcard"]

\* DomainMatcher::contains: the domain itself, a subdomain, or any name.
DomainMatches(entry, host) ==
    \/ entry.kind = "domain" /\ IsSuffix(entry.labels, host.labels)
    \/ entry.kind = "wildcard"

\* IpMatcher::contains.
IpMatches(entry, host) == entry.kind = "network" /\ host.addr \in entry.addrs

\* Mutant: only the domain itself is excluded, not its subdomains.
NoProxyContains_Exact(no, host) ==
    \E entry \in no :
        IF host.kind = "ip" THEN IpMatches(entry, host)
        ELSE entry = Domain(host.labels) \/ entry.kind = "wildcard"

\* NoProxy::contains: an address is looked up among the networks only, a name
\* among the domains only, so the wildcard covers names alone.
NoProxyContains(no, host) ==
    \E entry \in no :
        IF host.kind = "ip" THEN IpMatches(entry, host) ELSE DomainMatches(entry, host)
-----------------------------------------------------------------------------
(* Builder and Matcher.                                                    *)

\* parse_env_uri: no proxy if the scheme is unknown; http if it has none; the
\* credentials leave the URI, for SOCKS as they are and otherwise as a header.
ParseEnvUri(u) ==
    IF u = None \/ (u # None /\ u.scheme \notin Socks \cup Httpish \cup {None}) THEN None
    ELSE [ uri |-> Uri(IF u.scheme = None THEN "http" ELSE u.scheme, u.host,
                       IF u.scheme \in Socks /\ u.port = None THEN 1080 ELSE u.port, None),
           auth |-> [kind |-> CASE u.user = None -> "Empty"
                                [] u.user # None /\ u.scheme \in Socks -> "Raw"
                                [] OTHER -> "Basic",
                     cred |-> u.user],
           extra |-> NoExtra ]

WithExtra(i, extra) == IF i = None THEN None ELSE [i EXCEPT !.extra = extra]
OrElse(i, j) == IF i # None THEN i ELSE j

\* Builder::build: nothing is proxied in a CGI program; a proxy for all
\* traffic serves the schemes that have none of their own.
Build(b, extra) ==
    IF b.cgi THEN [http |-> None, https |-> None, no |-> {}, unix |-> None]
    ELSE [ http |-> OrElse(WithExtra(ParseEnvUri(b.http), extra), WithExtra(ParseEnvUri(b.all), extra)),
           https |-> OrElse(WithExtra(ParseEnvUri(b.https), extra), WithExtra(ParseEnvUri(b.all), extra)),
           no |-> b.no, unix |-> b.unix ]

EmptyBuilder ==
    [cgi |-> FALSE, all |-> None, http |-> None, https |-> None, no |-> {}, unix |-> None]

\* Proxy::into_matcher.
IntoMatcher(p) ==
    Build([EmptyBuilder EXCEPT
              !.all = IF p.traffic = "all" THEN p.uri ELSE None,
              !.http = IF p.traffic = "http" THEN p.uri ELSE None,
              !.https = IF p.traffic = "https" THEN p.uri ELSE None,
              !.unix = IF p.traffic = "unix" THEN p.uri ELSE None,
              !.no = IF p.no = None THEN {} ELSE p.no],
          p.extra)

\* Matcher::from_system: what the environment of the process says.
FromSystem(env) == Build(env, NoExtra)

\* A host has labels or an address.
HostOK(host) ==
    /\ host.kind \in {"name", "ip"}
    /\ host.kind = "name" => host.labels \in Seq(STRING)

\* What every matcher is that Build makes of well-formed URIs and exclusions.
MatcherOK(m) ==
    /\ m.unix # None => m.unix.kind = "path"
    /\ \A i \in {m.http, m.https} \ {None} :
          i.uri.scheme \in Socks \cup Httpish /\ HostOK(i.uri.host)
    /\ \A entry \in m.no : entry.kind \in {"domain", "network", "wildcard"}

ViaUnix(path) == [kind |-> "unix", path |-> path]
ViaProxy(i) == [kind |-> "proxy", proxy |-> i]

\* Matcher::intercept: a Unix socket takes everything, then the exclusions,
\* then the proxy of the destination's scheme.
Intercept(m, dst) ==
    IF m.unix # None THEN ViaUnix(m.unix)
    ELSE IF NoProxyContains(m.no, dst.host) THEN None
    ELSE LET i == CASE dst.scheme = "http" -> m.http
                    [] dst.scheme = "https" -> m.https
                    [] OTHER -> None
         IN  IF i = None THEN None ELSE ViaProxy(i)

\* Intercept::basic_auth: an explicit header wins over the URI's credentials.
BasicAuthOf(i) ==
    CASE i.extra.auth # None -> i.extra.auth
      [] i.extra.auth = None /\ i.auth.kind = "Basic" -> i.auth.cred
      [] OTHER -> None

\* Intercept::raw_auth.
RawAuthOf(i) == IF i.auth.kind = "Raw" THEN i.auth.cred ELSE None

\* Mutant: the header is written and the custom headers are dropped.
ProxyAuthorization_HeaderOnly(i) == BasicAuthOf(i)

\* The Proxy-Authorization that reaches an HTTP proxy.  In a CONNECT request it
\* is inserted unless the custom headers have one (TunnelConnector::with_auth,
\* with_headers); in a forwarded request the custom headers replace it
\* (try_send_request, replace_headers).  Both come to the same.
ProxyAuthorization(i) ==
    IF i.extra.misc # None /\ i.extra.misc.auth # None THEN i.extra.misc.auth
    ELSE BasicAuthOf(i)
=============================================================================
