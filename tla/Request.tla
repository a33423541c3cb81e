------------------------------ MODULE Request ------------------------------
(***************************************************************************)
(* What a request is before it is sent: the RequestBuilder's calls         *)
(* (src/client/request.rs), the group that becomes a connection's identity *)
(* (src/group.rs, src/conn/descriptor.rs), multipart forms                 *)
(* (src/client/multipart.rs) and the WebSocket handshake                   *)
(* (src/client/ws.rs), as operators on a request.                          *)
(*                                                                         *)
(* A header map is a function from the names it has to their sequences of  *)
(* values, a group one from its keys.  An invalid name, value or document  *)
(* is Bad.                                                                 *)
(***************************************************************************)
EXTENDS Naturals, Sequences, SequencesExt, FiniteSetsExt, Functions

CONSTANTS None, Bad

NoHeaders == <<>>

Values(h, n) == IF n \in DOMAIN h THEN h[n] ELSE <<>>

\* A map with a key set, and a map over another.
Put(map, key, v) == [k \in DOMAIN map \cup {key} |-> IF k = key THEN v ELSE map[k]]
Over(top, map) == [k \in DOMAIN top \cup DOMAIN map |-> IF k \in DOMAIN top THEN top[k] ELSE map[k]]

\* HeaderMap::append, insert and entry().or_insert().
HeaderAppend(h, n, v) == Put(h, n, Append(Values(h, n), v))
HeaderInsert(h, n, v) == Put(h, n, <<v>>)
HeaderOrInsert(h, n, v) == IF n \in DOMAIN h THEN h ELSE Put(h, n, <<v>>)

\* Mutant: the values are added to those of the same name.
ReplaceHeaders_Added(dst, src) ==
    [n \in DOMAIN dst \cup DOMAIN src |-> Values(dst, n) \o Values(src, n)]

\* replace_headers: all values of a name that src has are replaced by src's.
ReplaceHeaders(dst, src) == Over(src, dst)
-----------------------------------------------------------------------------
(* Groups and identities.                                                  *)

\* Group::extend: an absent entry leaves the group as it is.
Extended(g, key, entry) == IF entry = None THEN g ELSE Put(g, key, entry)

\* Group::new.
Named(name) == [named |-> name]

\* Mutant: the group of a request takes the place of its other entries.
GroupRequest_Whole(g, group) == group

\* Group::request: the caller's group is nested.
GroupRequest(g, group) == Extended(g, "request", group)

\* Group::emulate.
GroupEmulate(g, group) == Extended(g, "emulate", group)

\* ConnectionDescriptor::new: the bind options are an entry even when absent.
Identity(uri, group, proxy, version, bind) ==
    Put(Extended(Extended(Extended(group, "uri", uri), "version", version), "proxy", proxy), "bind", bind)

\* EmulationBuilder::build.
EmulationOf(name, options, headers, orig) ==
    [ group |-> GroupEmulate(<<>>, Named(name)), options |-> options, headers |-> headers,
      orig |-> orig ]
-----------------------------------------------------------------------------
(* Multipart forms.  Headers are encoded when the length is computed and   *)
(* again when the form is streamed, with the encoding the form has then.   *)

\* A part: the lengths of its encoded headers and of its value, and the length
\* that it tells of its value (None if it is a stream that tells none).
FormNew(boundary, size) == [boundary |-> boundary, size |-> size, fields |-> <<>>, encoding |-> "path"]

FormPart(f, part) == [f EXCEPT !.fields = Append(@, part)]

PercentEncode(f, encoding) == [f EXCEPT !.encoding = encoding]

\* part_stream: "--" boundary CRLF, headers, CRLF CRLF, value, CRLF.
StreamedPart(f, i) ==
    (2 + f.size + 2) + (f.fields[i].head[f.encoding] + 4) + f.fields[i].len + 2

\* into_stream: the parts, then "--" boundary "--" CRLF, if there is a part.
StreamLength(f) ==
    IF f.fields = <<>> THEN 0
    ELSE SumFunction([i \in DOMAIN f.fields |-> StreamedPart(f, i)]) + 2 + f.size + 4

\* The length that a part tells, with its boundary and its headers.
ToldPart(f, i) == 2 + f.size + 2 + f.fields[i].head[f.encoding] + 4 + f.fields[i].told + 2

\* Mutant: the boundary that ends the form is not counted.
ComputeLength_NoEnd(f) ==
    IF f.fields = <<>> THEN 0
    ELSE IF \E i \in DOMAIN f.fields : f.fields[i].told = None THEN None
    ELSE SumFunction([i \in DOMAIN f.fields |-> ToldPart(f, i)])

\* compute_length.
ComputeLength(f) ==
    IF f.fields = <<>> THEN 0
    ELSE IF \E i \in DOMAIN f.fields : f.fields[i].told = None THEN None
    ELSE SumFunction([i \in DOMAIN f.fields |-> ToldPart(f, i)]) + 2 + f.size + 4
-----------------------------------------------------------------------------
(* Requests.                                                               *)

Bytes(type, len) == [type |-> type, len |-> len, reusable |-> TRUE]
Streamed(type, len) == [type |-> type, len |-> len, reusable |-> FALSE]

Fail(r, why) == [r EXCEPT !.error = why]

\* header_sensitive, and header(), auth(), basic_auth() and bearer_auth().
Header(r, name, value) ==
    IF Bad \in {name, value} THEN Fail(r, "header") ELSE [r EXCEPT !.headers = HeaderAppend(@, name, value)]

\* Request::new for a URI that into_uri accepts.
RequestNew(method, uri) ==
    [ error |-> IF None \in {uri.scheme, uri.host} THEN "uri" ELSE None,
      method |-> method, uri |-> [uri EXCEPT !.user = None], headers |-> NoHeaders, body |-> None,
      group |-> <<>>, proxy |-> None, version |-> None, options |-> None, bind |-> None,
      defaults |-> None, orig |-> None, accept |-> None, timeout |-> None, read |-> None,
      redirect |-> None, cookies |-> None, ws |-> None ]

\* Client::request and RequestBuilder::new: user information in the URI becomes
\* an Authorization header.
Requested(method, uri) ==
    LET r == RequestNew(method, uri) IN
    IF r.error # None \/ uri.user = None THEN r ELSE Header(r, "authorization", uri.user)

\* Client::websocket and WebSocketRequestBuilder::new.
WebSocketRequested(uri) ==
    [Requested("GET", uri) EXCEPT !.version = IF Requested("GET", uri).error = None THEN "1.1" ELSE None,
                                  !.ws = [key |-> None, protocols |-> None]]

\* query(): the URI must parse, the query must serialize.
Query(r, q) == IF q = Bad THEN Fail(r, "query") ELSE [r EXCEPT !.uri.query = Append(@, q)]

\* form() and json(): the content type is the caller's if there is one.
Document(r, type, len) ==
    IF len = Bad THEN Fail(r, "document")
    ELSE [r EXCEPT !.headers = HeaderOrInsert(@, "content-type", type), !.body = Bytes(type, len)]

Multipart(r, f) ==
    LET length == ComputeLength(f)
        typed == HeaderOrInsert(r.headers, "content-type", f.boundary)
    IN  [r EXCEPT !.headers = IF length = None THEN typed ELSE HeaderOrInsert(typed, "content-length", length),
                  !.body = IF f.fields = <<>> THEN Bytes(None, 0) ELSE Streamed(f.boundary, StreamLength(f))]

\* SocketBindOptions: an absent address leaves the one there is.
Bind(b, field, value) ==
    LET opts == IF b = None THEN [interface |-> None, v4 |-> None, v6 |-> None] ELSE b
    IN  IF value = None THEN opts ELSE [opts EXCEPT ![field] = value]

Encodings == {"gzip", "br", "deflate", "zstd"}

\* gzip(), brotli(), deflate() and zstd().
Encoding(accept, which, on) == IF on THEN accept \cup {which} ELSE accept \ {which}

\* emulation(): the profile's group, options and headers.
Emulated(r, e) ==
    [r EXCEPT !.group = GroupEmulate(@, e.group), !.options = e.options,
              !.headers = ReplaceHeaders(@, e.headers), !.orig = e.orig]

\* The calls that set one field: version(), proxy(), default_headers(),
\* orig_headers(), body(), timeout(), read_timeout(), redirect() and
\* cookie_provider().
Fields == {"version", "proxy", "defaults", "orig", "body", "timeout", "read", "redirect", "cookies"}

\* A call of a RequestBuilder.  A builder that failed ignores it.
Called(r, c) ==
    IF r.error # None THEN r ELSE
    CASE c.op = "header"    -> Header(r, c.name, c.value)
      [] c.op = "headers"   -> [r EXCEPT !.headers = ReplaceHeaders(@, c.map)]
      [] c.op \in Fields    -> [r EXCEPT ![c.op] = c.value]
      [] c.op = "query"     -> Query(r, c.value)
      [] c.op = "document"  -> Document(r, c.type, c.len)
      [] c.op = "multipart" -> Multipart(r, c.form)
      [] c.op = "bind"      -> [r EXCEPT !.bind = Bind(@, c.field, c.value)]
      [] c.op = "encoding"  ->
            [r EXCEPT !.accept = Encoding(IF @ = None THEN Encodings ELSE @, c.which, c.on)]
      [] c.op = "emulation" -> Emulated(r, c.emulation)
      [] c.op = "group"     -> [r EXCEPT !.group = GroupRequest(@, c.group)]

\* accept_key() and protocols() of a WebSocketRequestBuilder.
WebSocketCalled(r, c) == [r EXCEPT !.ws[c.op] = c.value]

\* Mutant: the clone has no extensions.
TryClone_Bare(r) ==
    IF r.error # None \/ (r.body # None /\ ~r.body.reusable) THEN None
    ELSE [RequestNew(r.method, r.uri) EXCEPT !.headers = r.headers, !.body = r.body, !.version = r.version]

\* try_clone(): no clone of a failed builder, nor of one whose body is a stream.
TryClone(r) ==
    IF r.error # None \/ (r.body # None /\ ~r.body.reusable) THEN None ELSE r
-----------------------------------------------------------------------------
(* WebSocket handshakes.                                                   *)

Generated == "generated"

\* WebSocketRequestBuilder::send: the key, if the handshake has one.
Nonce(r) ==
    IF r.version \notin {"1.0", "1.1"} THEN None ELSE IF r.ws.key = None THEN Generated ELSE r.ws.key

Protocols(r) == IF r.ws.protocols = None THEN <<>> ELSE r.ws.protocols

HttpScheme(s) == CASE s = "ws" -> "http" [] s = "wss" -> "https" [] OTHER -> s

\* The protocols are joined to one header value.
HandshakeHeaders(r) ==
    LET versioned == HeaderInsert(r.headers, "sec-websocket-version", "13")
        upgrade ==
            IF Nonce(r) = None THEN versioned
            ELSE HeaderInsert(HeaderInsert(HeaderInsert(versioned, "upgrade", "websocket"),
                                           "connection", "upgrade"),
                              "sec-websocket-key", Nonce(r))
    IN  IF Protocols(r) = <<>> THEN upgrade ELSE HeaderInsert(upgrade, "sec-websocket-protocol", Protocols(r))

\* WebSocketRequestBuilder::send, up to execute().
Handshake(r) ==
    IF r.error # None THEN r
    ELSE IF r.version \notin {"1.0", "1.1", "2"} THEN Fail(r, "upgrade")
    ELSE IF Nonce(r) = Bad THEN Fail(r, "key")
    ELSE IF \E i \in DOMAIN Protocols(r) : Protocols(r)[i] = Bad THEN Fail(r, "protocols")
    ELSE [r EXCEPT !.uri.scheme = HttpScheme(@), !.headers = HandshakeHeaders(r),
                   !.method = IF Nonce(r) = None THEN "CONNECT" ELSE "GET",
                   !.version = IF Nonce(r) = None THEN "2" ELSE "1.1"]

\* Mutant: the key is compared only if the answer has one.
AcceptOK_IfAny(nonce, accept) == accept = None \/ accept = nonce

\* The answer's key must be the one derived from the nonce.
AcceptOK(nonce, accept) == nonce # None /\ accept = nonce

\* The answer's protocol must be one of those requested, and there must be one.
ProtocolOK(r, protocol) ==
    IF Protocols(r) = <<>> THEN protocol = None ELSE \E i \in DOMAIN Protocols(r) : Protocols(r)[i] = protocol

\* into_websocket: what the answer must have.  An answer's connection header
\* contains "upgrade" and its upgrade header is "websocket" if it `upgrades';
\* `upgradable' is whether the connection can be taken over.
IntoWebSocket(r, a, upgradable) ==
    /\ CASE a.version \in {"1.0", "1.1"} ->
               a.status = 101 /\ a.upgrades /\ AcceptOK(Nonce(r), a.accept)
         [] a.version = "2" -> a.status = 200
         [] OTHER -> FALSE
    /\ ProtocolOK(r, a.protocol)
    /\ upgradable
=============================================================================
