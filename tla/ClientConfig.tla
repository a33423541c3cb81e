---------------------------- MODULE ClientConfig ----------------------------
(***************************************************************************)
(* How a client is configured and built (src/client.rs), as operators on   *)
(* its builder, and what a built client makes of a request that it         *)
(* executes: the services ConfigService (src/client/layer/config.rs),      *)
(* Decompression (src/client/layer/decoder.rs) and HttpClient::request     *)
(* (src/client/layer/client.rs) up to the connection that is asked for.    *)
(***************************************************************************)
EXTENDS Request

\* Client::builder: the settings that a call overwrites and nothing else reads.
\* Durations are in seconds, None is no limit.
HttpSettings ==
    [ cookie_store |-> None, redirect |-> "none", referer |-> TRUE, retry |-> "default",
      timeout |-> None, read_timeout |-> None, connect_timeout |-> None, connection_verbose |-> FALSE,
      pool_idle_timeout |-> 90, pool_max_idle_per_host |-> None, pool_max_size |-> None ]

TcpSettings ==
    [ tcp_nodelay |-> TRUE, tcp_keepalive |-> 15, tcp_keepalive_interval |-> 15,
      tcp_keepalive_retries |-> 3, tcp_user_timeout |-> 30, tcp_reuse_address |-> FALSE,
      tcp_linger |-> None, tcp_send_buffer_size |-> None, tcp_recv_buffer_size |-> None,
      tcp_happy_eyeballs_timeout |-> 1 ]

TlsSettings ==
    [ tls_identity |-> None, tls_cert_store |-> None, tls_cert_verification |-> TRUE,
      tls_verify_hostname |-> TRUE, tls_sni |-> TRUE, tls_keylog |-> None, tls_min_version |-> None,
      tls_max_version |-> None, tls_info |-> FALSE, tls_session_cache |-> None ]

\* A new builder.  `options' stands for the TLS, HTTP/1 and HTTP/2 options.
NewBuilder ==
    [ error |-> None, headers |-> NoHeaders, orig |-> <<>>, accept |-> Encodings,
      settings |-> Over(HttpSettings, Over(TcpSettings, TlsSettings)), bind |-> Bind(None, "v4", None),
      proxies |-> <<>>, auto |-> TRUE, hickory |-> TRUE, overrides |-> <<>>, resolver |-> None,
      pref |-> "all", httpsOnly |-> FALSE, layers |-> <<>>, connectorLayers |-> <<>>, options |-> None ]

UserAgent(b, value) ==
    IF value = Bad THEN [b EXCEPT !.error = "header"]
    ELSE [b EXCEPT !.headers = HeaderInsert(@, "user-agent", value)]

\* emulation(): the options are the profile's, also where it has none.
EmulatedClient(b, e) ==
    [b EXCEPT !.options = e.options, !.headers = ReplaceHeaders(@, e.headers), !.orig = @ \o e.orig]

\* Mutant: a limit of 0 connections is one.
SettingOf_Zero(field, value) == value

\* A limit of 0 connections is no limit.
SettingOf(field, value) == IF field = "pool_max_size" /\ value = 0 THEN None ELSE value

\* A call of a ClientBuilder.  It has its effect also after a call that failed.
BuilderCalled(b, c) ==
    CASE c.op = "user_agent"    -> UserAgent(b, c.value)
      [] c.op = "headers"       -> [b EXCEPT !.headers = ReplaceHeaders(@, c.map)]
      [] c.op = "orig"          -> [b EXCEPT !.orig = @ \o c.value]
      [] c.op = "encoding"      -> [b EXCEPT !.accept = Encoding(@, c.which, c.on)]
      [] c.op = "set"           -> [b EXCEPT !.settings[c.field] = SettingOf(c.field, c.value)]
      [] c.op = "bind"          -> [b EXCEPT !.bind = Bind(@, c.field, c.value)]
      [] c.op = "proxy"         -> [b EXCEPT !.proxies = Append(@, c.value), !.auto = FALSE]
      [] c.op = "no_proxy"      -> [b EXCEPT !.proxies = <<>>, !.auto = FALSE]
      [] c.op = "http_only"     -> [b EXCEPT !.pref = c.value]
      [] c.op = "https_only"    -> [b EXCEPT !.httpsOnly = c.value]
      [] c.op = "options"       -> [b EXCEPT !.options = c.value]
      [] c.op = "hickory_off"   -> [b EXCEPT !.hickory = FALSE]
      [] c.op = "resolve"       -> [b EXCEPT !.overrides = Put(@, c.name, c.value)]
      [] c.op = "dns_resolver"  -> [b EXCEPT !.resolver = c.value]
      [] c.op = "layer"         -> [b EXCEPT !.layers = Append(@, c.value)]
      [] c.op = "connector_layer" -> [b EXCEPT !.connectorLayers = Append(@, c.value)]
      [] c.op = "emulation"     -> EmulatedClient(b, c.emulation)

\* The services of a client, from the outermost.
ServiceStack(b) ==
    <<"timeout">> \o Reverse(b.layers) \o <<"config", "decompression", "retry", "redirect", "client">>

\* The services of its connector, see ConnectorBuilder::build.
ConnectorStack(b) == <<"connect_timeout">> \o Reverse(b.connectorLayers) \o <<"connector">>

\* The resolver that is asked for a name that has no override.
BaseResolver(b) ==
    IF b.resolver # None THEN b.resolver ELSE IF b.hickory THEN "hickory" ELSE "gai"

\* The protocols offered in a TLS handshake.
AlpnOf(pref) == CASE pref = "all" -> None [] pref = "http2" -> "h2" [] OTHER -> "http/1.1"

System == "system"

\* Mutant: the system's proxy is added to the caller's.
ProxiesOf_System(b) == Append(b.proxies, System)

\* The system's proxy is used if the caller says nothing of proxies.
ProxiesOf(b) == IF b.auto THEN Append(b.proxies, System) ELSE b.proxies

\* Mutant: an error of the builder is forgotten.
BuildError_Forgiving(b) == IF b.options = Bad THEN "tls" ELSE None

\* build() fails with the error of a call, or with that of the TLS library.
BuildError(b) == IF b.error # None THEN b.error ELSE IF b.options = Bad THEN "tls" ELSE None

\* ClientBuilder::build.
Build(b) ==
    [ error |-> BuildError(b), proxies |-> ProxiesOf(b),
      resolver |-> BaseResolver(b), overrides |-> b.overrides, alpn |-> AlpnOf(b.pref),
      options |-> b.options, bind |-> b.bind, settings |-> b.settings, headers |-> b.headers,
      orig |-> IF b.orig = <<>> THEN None ELSE b.orig, httpsOnly |-> b.httpsOnly, accept |-> b.accept,
      services |-> ServiceStack(b), connectors |-> ConnectorStack(b) ]

\* Mutant: a resolver of the caller's is asked before the overrides.
Resolved_Base(cl, name) ==
    IF cl.resolver \in {"hickory", "gai"} /\ name \in DOMAIN cl.overrides THEN cl.overrides[name] ELSE cl.resolver

\* DnsResolverWithOverrides::resolve.
Resolved(cl, name) == IF name \in DOMAIN cl.overrides THEN cl.overrides[name] ELSE cl.resolver
-----------------------------------------------------------------------------
(* What a client sends.                                                    *)

BadScheme(cl, uri) == uri.scheme \notin {"http", "https"} \/ (cl.httpsOnly /\ uri.scheme # "https")

\* RequestConfig::fetch.
Fetch(mine, clients) == IF mine = None THEN clients ELSE mine

\* ConfigService::call: the defaults, and over them the request's headers.
Merged(cl, r) == IF Fetch(r.defaults, TRUE) THEN ReplaceHeaders(cl.headers, r.headers) ELSE r.headers

\* Decompression::call: a range is asked for in its own encoding.  The header is
\* otherwise the library's, which leaves the caller's alone.
Offered(accept, h) ==
    IF accept = {} THEN h
    ELSE IF "range" \in DOMAIN h THEN HeaderInsert(h, "accept-encoding", {})
    ELSE HeaderOrInsert(h, "accept-encoding", accept)

\* HttpClient::request: a connection is for a scheme and an authority.
BaseUri(uri) == [scheme |-> uri.scheme, host |-> uri.host]

\* Client::execute of a request: what is sent, and over which connection.
Execute(cl, r) ==
    IF r.error # None \/ BadScheme(cl, r.uri)
    THEN [error |-> IF r.error # None THEN r.error ELSE "scheme"]
    ELSE LET accept == Fetch(r.accept, cl.accept) IN
         [ error |-> None, method |-> r.method, query |-> r.uri.query, body |-> r.body,
           headers |-> Offered(accept, Merged(cl, r)), orig |-> Fetch(r.orig, cl.orig),
           accept |-> accept, cookies |-> Fetch(r.cookies, cl.settings.cookie_store),
           redirect |-> Fetch(r.redirect, cl.settings.redirect),
           id |-> Identity(BaseUri(r.uri), r.group, r.proxy, r.version, r.bind),
           asked |-> [ uri |-> BaseUri(r.uri), proxy |-> r.proxy, version |-> r.version, bind |-> r.bind,
                       options |-> r.options ] ]
=============================================================================
