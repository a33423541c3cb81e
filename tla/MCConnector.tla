---------------------------- MODULE MCConnector ----------------------------
(***************************************************************************)
(* Instances of Connector for TLC.                                         *)
(***************************************************************************)
EXTENDS Connector

Cred(of) == [kind |-> "cred", of |-> of]
A == Name(<<"a">>)
SubA == Name(<<"www", "a">>)
B == Name(<<"b">>)
P == Name(<<"p">>)
Q == Name(<<"q">>)
Addr == Ip("i1")

Web(scheme, host) == Uri(scheme, host, None, None)

Squid(scheme) == Uri(scheme, P, 3128, Cred("url"))
Sock == [kind |-> "path", path |-> "sock"]

\* Every kind of proxy.
Forwarding == NewProxy("http", Squid("http"))
Sealed == CustomHttpHeaders(NewProxy("all", Squid("https")), Cred("misc"))
Resealed == NewProxy("all", Uri("https", Q, None, None))
Tunnelling == BasicAuth(NewProxy("https", Uri(None, P, None, None)), Cred("basic"))
Socks5(scheme) == NewProxy("all", Uri(scheme, P, None, Cred("url")))
Choosy(entries) == WithNoProxy(CustomHttpAuth(Forwarding, Cred("own")), entries)
Local == BasicAuth(CustomHttpHeaders(NewProxy("unix", Sock), Cred("misc")), Cred("basic"))
Env == [EmptyBuilder EXCEPT !.all = Uri("https", P, 8080, None), !.http = Uri("ftp", P, None, None),
                            !.no = {Domain(<<"a">>), Network({"i1"})}]

Client(ms, nodelay, bind, psk, timeout, pref) ==
    [proxies |-> ms, nodelay |-> nodelay, bind |-> bind, psk |-> psk, timeout |-> timeout, pref |-> pref]

Desc(group, uri, proxy, version, tls, bind) ==
    [group |-> group, uri |-> uri, proxy |-> proxy, version |-> version, tls |-> tls, bind |-> bind]

Plain(scheme, host) == Desc(None, Web(scheme, host), None, None, None, None)
By(d, proxy) == [d EXCEPT !.proxy = IntoMatcher(proxy)]

\* One host on three ways and through two proxies, with TLS, and sessions to confuse.
ManyWays ==
    [ client |-> Client(<<>>, FALSE, None, TRUE, None, "default"),
      wanted |-> { Plain("https", A), By(Plain("http", A), Sealed), By(Plain("http", A), Resealed),
                   By(Desc("e", Web("https", A), None, None, "e", None), Tunnelling) } ]

\* Matchers of the client, one of them from the environment, and exclusions.
ManyMatchers ==
    [ client |-> Client(<<IntoMatcher(Choosy({Domain(<<"a">>), Wildcard})), FromSystem(Env)>>,
                        TRUE, None, FALSE, None, "default"),
      wanted |-> { Plain("https", A), Desc(None, Web("http", SubA), None, "HTTP_2", None, "l2"),
                   Plain("http", Addr), Plain("http", B), Plain("https", B),
                   By(Plain("https", SubA), Tunnelling) } ]

\* SOCKS and Unix sockets, a proxy for the rest, and a timer.
ManyPeers ==
    [ client |-> Client(<<FromSystem([Env EXCEPT !.cgi = TRUE]), IntoMatcher(Sealed)>>,
                        FALSE, "l1", FALSE, 1, "HTTP_11"),
      wanted |-> { By(Plain("https", A), Local), By(Plain("http", A), Local),
                   By([Plain("https", A) EXCEPT !.tls = "bad"], Socks5("socks5")),
                   By([Plain("https", A) EXCEPT !.bind = "l2", !.group = "e", !.tls = "e"], Socks5("socks4a")),
                   By([Plain("http", A) EXCEPT !.version = "HTTP_11"], Socks5("socks5h")),
                   [Plain("http", A) EXCEPT !.version = "HTTP_2"], Plain("http", B),
                   [Plain("https", B) EXCEPT !.tls = "bad"] } ]

\* A client that is http2_only, and proxies with credentials that forward.
OnlyH2 ==
    [ client |-> Client(<<IntoMatcher(Forwarding), IntoMatcher(Sealed)>>, TRUE, None, FALSE, None, "HTTP_2"),
      wanted |-> { Plain("http", A), Plain("https", A),
                   By([Plain("http", B) EXCEPT !.version = "HTTP_11"], Sealed) } ]

MCScenarios == {ManyWays, ManyMatchers, ManyPeers, OnlyH2}

MCKeys == UNION {{IdOf(d) : d \in sc.wanted} : sc \in MCScenarios}
=============================================================================
