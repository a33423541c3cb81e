------------------------------- MODULE Setup -------------------------------
(***************************************************************************)
(* A caller sets up a client, builds it, sets up requests and WebSocket    *)
(* handshakes, clones and sends them; servers answer the handshakes; and   *)
(* threads of the pool hash the identities of the requests' connections.   *)
(* The operations are those of Request and ClientConfig; the variables     *)
(* told and asked are the calls that were made, which the properties       *)
(* compare with what is sent.                                              *)
(***************************************************************************)
EXTENDS ClientConfig, Retain, FiniteSets

CONSTANTS
    Scenarios,      \* a caller's name -> what it may do: the calls, and how many
    Requests,       \* the names of a caller's requests
    HashOne(_)      \* DefaultHasher's hash of a group, 0 included

Texts == STRING \cup {Bad}

\* A name of a header map has a value.
HeadersOK(map) == \A n \in DOMAIN map : map[n] \in Seq(Texts) /\ map[n] # <<>>

\* A part that tells a length tells that of its value.
FormOK(f) ==
    /\ f.size \in Nat
    /\ \A i \in DOMAIN f.fields :
        /\ f.fields[i].head[f.encoding] \in Nat /\ f.fields[i].len \in Nat
        /\ f.fields[i].told \in {None, f.fields[i].len}

ClientOps ==
    { "user_agent", "headers", "orig", "encoding", "set", "bind", "proxy", "no_proxy", "http_only",
      "https_only", "options", "hickory_off", "resolve", "dns_resolver", "layer", "connector_layer",
      "emulation" }

\* The calls that the types of the builders' methods allow.
ClientCallOK(c) ==
    /\ c.op \in ClientOps
    /\ c.op = "user_agent" => c.value \in Texts
    /\ c.op = "headers" => HeadersOK(c.map)
    /\ c.op = "emulation" => HeadersOK(c.emulation.headers)
    /\ c.op = "set" /\ c.field = "pool_max_size" => c.value \in Nat
    /\ c.op = "dns_resolver" => c.value # None

RequestOps ==
    {"header", "headers", "query", "document", "multipart", "bind", "encoding", "emulation", "group"} \cup Fields

RequestCallOK(c, handshake) ==
    /\ c.op \in RequestOps \/ (handshake /\ c.op \in {"key", "protocols"})
    /\ c.op = "header" => c.value \in Texts
    /\ c.op = "headers" => HeadersOK(c.map)
    /\ c.op = "emulation" => HeadersOK(c.emulation.headers) /\ c.emulation.group # None
    /\ c.op = "multipart" => FormOK(c.form)
    /\ c.op = "group" => c.group # None
    /\ c.op = "defaults" => c.value \in BOOLEAN
    /\ c.op = "protocols" => c.value # None

\* Callers name their profiles apart: the group is all the pool knows of one.
ScenarioOK(s) ==
    /\ s.maxClient \in Nat /\ s.maxRequest \in Nat
    /\ \A c \in s.clientCalls : ClientCallOK(c)
    /\ \A c \in s.requestCalls : RequestCallOK(c, s.handshake)
    /\ \A c, d \in {e \in s.requestCalls : e.op = "emulation"} :
        c.emulation.group = d.emulation.group => c.emulation.options = d.emulation.options
    /\ \A uri \in s.uris : uri.user \in Texts \cup {None}
    /\ None \notin s.uris /\ None \notin s.answers

ASSUME SetupAssumption ==
    /\ None \notin {"uri", "header", "query", "document", "upgrade", "key", "protocols", "scheme", "tls"}
    /\ None \notin BOOLEAN /\ None \notin Nat
    /\ \A sc \in DOMAIN Scenarios : ScenarioOK(Scenarios[sc])

VARIABLES
    scenario,
    told,       \* the calls of the client's builder
    builder,    \* the builder
    client,     \* the client, None until it is built
    asked,      \* request -> its URI and the calls of its builder
    request,    \* request -> its builder, None if there is none
    sent,       \* request -> what Client::execute makes of it, None before
    answer,     \* handshake -> its answer, None before
    opened,     \* the handshakes that became WebSockets
    cell,       \* request -> the cached hash of its ConnectionId, 0 if none
    hasher      \* thread -> the identity that it hashes, and its hash

setupVars ==
    <<scenario, told, builder, client, asked, request, sent, answer, opened, cell, hasher>>

\* What this caller may do.
May == Scenarios[scenario]

Waiting == [of |-> None, hash |-> None]

SetupInit ==
    /\ scenario \in DOMAIN Scenarios
    /\ told = <<>> /\ builder = NewBuilder /\ client = None
    /\ asked = [i \in Requests |-> [uri |-> None, calls |-> <<>>]]
    /\ request = [i \in Requests |-> None]
    /\ sent = [i \in Requests |-> None]
    /\ answer = [i \in Requests |-> None]
    /\ opened = {}
    /\ cell = [i \in Requests |-> 0]
    /\ hasher = [t \in May.hashers |-> Waiting]

Live == client # None /\ client.error = None

\* A request has its URI from the start.
Started(i) == asked[i].uri # None

Pending(i) == Started(i) /\ sent[i] = None

CallBuilder(c) ==
    /\ client = None /\ Len(told) < May.maxClient
    /\ builder' = BuilderCalled(builder, c)
    /\ told' = Append(told, c)
    /\ UNCHANGED <<scenario, client, asked, request, sent, answer, opened, cell, hasher>>

BuildClient ==
    /\ client = None
    /\ client' = Build(builder)
    /\ UNCHANGED <<scenario, told, builder, asked, request, sent, answer, opened, cell, hasher>>

\* A request for a URI, or a handshake with it.
StartRequest(i, uri) ==
    /\ Live /\ i \in May.requests /\ ~Started(i)
    /\ request' = [request EXCEPT ![i] =
           IF May.handshake THEN WebSocketRequested(uri) ELSE Requested("GET", uri)]
    /\ asked' = [asked EXCEPT ![i].uri = uri]
    /\ UNCHANGED <<scenario, told, builder, client, sent, answer, opened, cell, hasher>>

CallRequest(i, c) ==
    /\ Pending(i) /\ Len(asked[i].calls) < May.maxRequest
    /\ request' = [request EXCEPT ![i] =
           IF c.op \in {"key", "protocols"} THEN WebSocketCalled(@, c) ELSE Called(@, c)]
    /\ asked' = [asked EXCEPT ![i].calls = Append(@, c)]
    /\ UNCHANGED <<scenario, told, builder, client, sent, answer, opened, cell, hasher>>

CloneRequest(i, j) ==
    /\ Pending(i) /\ ~May.handshake
    /\ j \in May.requests /\ ~Started(j)
    /\ TryClone(request[i]) # None
    /\ request' = [request EXCEPT ![j] = TryClone(request[i])]
    /\ asked' = [asked EXCEPT ![j] = asked[i]]
    /\ UNCHANGED <<scenario, told, builder, client, sent, answer, opened, cell, hasher>>

Send(i) ==
    /\ Pending(i)
    /\ sent' = [sent EXCEPT ![i] =
           Execute(client, IF May.handshake THEN Handshake(request[i]) ELSE request[i])]
    /\ UNCHANGED <<scenario, told, builder, client, asked, request, answer, opened, cell, hasher>>

Sent(i) == sent[i] # None /\ sent[i].error = None

\* A connection can be taken over after a 101 of HTTP/1, or after an extended
\* CONNECT of HTTP/2.
Upgradable(i, a) ==
    \/ a.version # "2" /\ a.status = 101
    \/ a.version = "2" /\ a.status = 200 /\ sent[i].method = "CONNECT"

\* A server answers, and the caller asks for the WebSocket.
Answered(i, a) ==
    /\ May.handshake /\ Sent(i) /\ answer[i] = None
    /\ answer' = [answer EXCEPT ![i] = a]
    /\ opened' = IF IntoWebSocket(request[i], a, Upgradable(i, a))
                 THEN opened \cup {i} ELSE opened
    /\ UNCHANGED <<scenario, told, builder, client, asked, request, sent, cell, hasher>>
-----------------------------------------------------------------------------
(* Hashing: threads that hold clones of one ConnectionId share its cell.   *)

Computed(i) == IF HashOne(sent[i].id) = 0 THEN 1 ELSE HashOne(sent[i].id)

\* ConnectionId::hash: the cached hash, if there is one.
HashLoad(t, i) ==
    /\ hasher[t].of = None /\ Sent(i)
    /\ hasher' = [hasher EXCEPT ![t] = [of |-> i, hash |-> IF cell[i] = 0 THEN None ELSE cell[i]]]
    /\ UNCHANGED <<scenario, told, builder, client, asked, request, sent, answer, opened, cell>>

\* Mutant: the hash that is written is the one found in the cell.
Written_Found(i) == cell[i]

\* The hash that is written is the one computed, whoever published it.
Written(i) == Computed(i)

\* It is computed, published if the cell is still empty, and written.
HashPublish(t) ==
    /\ hasher[t].of # None /\ hasher[t].hash = None
    /\ LET i == hasher[t].of IN
       /\ cell' = [cell EXCEPT ![i] = IF @ = 0 THEN Computed(i) ELSE @]
       /\ hasher' = [hasher EXCEPT ![t].hash = Written(i)]
    /\ UNCHANGED <<scenario, told, builder, client, asked, request, sent, answer, opened>>

SetupNext ==
    \/ \E c \in May.clientCalls : CallBuilder(c)
    \/ BuildClient
    \/ \E i \in Requests :
        \/ \E uri \in May.uris : StartRequest(i, uri)
        \/ \E c \in May.requestCalls : CallRequest(i, c)
        \/ \E j \in Requests : CloneRequest(i, j)
        \/ Send(i)
        \/ \E a \in May.answers : Answered(i, a)
        \/ \E t \in May.hashers : HashLoad(t, i)
    \/ \E t \in May.hashers : HashPublish(t)

SetupSpec == SetupInit /\ [][SetupNext]_setupVars
-----------------------------------------------------------------------------
(* Properties.                                                             *)

\* Headers have values, a pool is limited to one connection or more, and a cell
\* holds no 0 once it is published.
SetupTypeOK ==
    /\ builder.settings.pool_max_size \in (Nat \ {0}) \cup {None}
    /\ \A n \in DOMAIN builder.headers : builder.headers[n] # <<>>
    /\ \A i \in Requests :
        /\ request[i] # None => \A n \in DOMAIN request[i].headers : request[i].headers[n] # <<>>
        /\ asked[i].calls \in Seq(May.requestCalls)
    /\ \A t \in DOMAIN hasher : hasher[t].hash # 0
    /\ opened \subseteq {i \in Requests : answer[i] # None}

\* The last of some positions, 0 if there is none.
Latest(at) == IF at = {} THEN 0 ELSE Max(at)

\* The positions of the calls of a kind.
Made(calls, op) == {k \in DOMAIN calls : calls[k].op = op}

\* The value of the last call of a kind, d if there is none.
LastOf(calls, op, d) ==
    LET last == Latest(Made(calls, op)) IN IF last = 0 THEN d ELSE calls[last].value

\* The values of the calls at some positions, in order.
Picked(calls, at) ==
    LET order == Enumeration(at, Len(calls)) IN [k \in DOMAIN order |-> calls[order[k]].value]

Mapped(c) == CASE c.op = "headers" -> c.map [] c.op = "emulation" -> c.emulation.headers
               [] c.op = "user_agent" /\ c.value # Bad -> Put(NoHeaders, "user-agent", <<c.value>>)
               [] OTHER -> NoHeaders

\* What the calls give a header: the last map that has it, and the values added
\* after that.
GivenBy(calls, n) ==
    LET last == Latest({k \in DOMAIN calls : n \in DOMAIN Mapped(calls[k])})
        added == {k \in Made(calls, "header") : k > last /\ calls[k].name = n}
    IN  (IF last = 0 THEN <<>> ELSE Mapped(calls[last])[n]) \o Picked(calls, added)

UserInfo(i) ==
    IF asked[i].uri.user = None THEN <<>>
    ELSE <<[op |-> "header", name |-> "authorization", value |-> asked[i].uri.user]>>

\* A value of a header is added to one that is there and that no later map
\* replaces.  header_sensitive appends it; the documentation of header() has it
\* replace the other.
Contested(calls, n) ==
    \E k \in Made(calls, "header") :
        /\ calls[k].name = n
        /\ \A j \in DOMAIN calls : n \in DOMAIN Mapped(calls[j]) => j < k
        /\ \E j \in 1..(k - 1) :
             n \in DOMAIN Mapped(calls[j]) \/ (calls[j].op = "header" /\ calls[j].name = n)

\* A header is sent with the values that the request's calls give it, else with
\* the client's defaults, unless the request declined them: the order of
\* user_agent(), default_headers(), emulation(), header() and headers() decides,
\* and a map replaces what was there (replace_headers, ConfigService::call).
\* What a header() for a name that has a value does is left out.
HeadersMerged ==
    \A i \in Requests : Sent(i) =>
        \A n \in {"x", "user-agent", "authorization"} :
            LET calls == UserInfo(i) \o asked[i].calls
                own   == GivenBy(calls, n)
            IN  ~Contested(calls, n) =>
                    Values(sent[i].headers, n) =
                        IF own # <<>> THEN own
                        ELSE IF LastOf(asked[i].calls, "defaults", TRUE) THEN GivenBy(told, n) ELSE <<>>

Profile(i) ==
    LET last == Latest(Made(asked[i].calls, "emulation"))
    IN  IF last = 0 THEN None ELSE asked[i].calls[last].emulation.options

GroupAsked(i) ==
    LET last == Latest(Made(asked[i].calls, "group"))
    IN  IF last = 0 THEN None ELSE asked[i].calls[last].group

\* Requests share connections only if their callers asked for the same origin,
\* proxy, version, socket binding, emulation and group, whatever the order of the
\* calls (Group::extend, ConnectionDescriptor::new).
IdentityTells ==
    \A i, j \in Requests : Sent(i) /\ Sent(j) /\ sent[i].id = sent[j].id =>
        /\ sent[i].asked = sent[j].asked
        /\ Profile(i) = Profile(j) /\ GroupAsked(i) = GroupAsked(j)
        /\ \A op \in {"proxy", "version"} :
            ~May.handshake => LastOf(asked[i].calls, op, None) = LastOf(asked[j].calls, op, None)

Faulty(c) ==
    \/ c.op = "header" /\ Bad \in {c.name, c.value}
    \/ c.op = "query" /\ c.value = Bad
    \/ c.op = "document" /\ c.len = Bad

\* Nothing is sent of a request one of whose calls failed, nor by a client whose
\* builder saw an invalid value: the calls after it do not heal it
\* (RequestBuilder::send, ClientBuilder::build).
ErrorsStick ==
    /\ Live => \A k \in DOMAIN told : ~(told[k].op = "user_agent" /\ told[k].value = Bad)
    /\ \A i \in Requests : Sent(i) => \A k \in DOMAIN asked[i].calls : ~Faulty(asked[i].calls[k])

SameCalls(i, j) == asked[i] = asked[j]

\* A clone is sent like its original, with the options kept in the extensions
\* (Request::try_clone).
ClonesAgree ==
    \A i, j \in Requests : sent[i] # None /\ sent[j] # None /\ SameCalls(i, j) => sent[i] = sent[j]

\* The body calls of a request.
BodyCalls(i) ==
    {k \in DOMAIN asked[i].calls : asked[i].calls[k].op \in {"body", "document", "multipart"}}

NoneOf(i, ops) == \A k \in DOMAIN asked[i].calls : asked[i].calls[k].op \notin ops

\* A request whose body is set once, with no content headers of the caller, has
\* the content type of that body, and a length only if it is the number of bytes
\* that are streamed (multipart(), Form::compute_length, Form::into_stream).
LengthTells ==
    \A i \in Requests : \A k \in DOMAIN asked[i].calls :
        /\ Sent(i)
        /\ BodyCalls(i) = {k} /\ asked[i].calls[k].op # "body"
        /\ NoneOf(i, {"header", "headers", "emulation"})
        /\ {"content-type", "content-length"} \cap DOMAIN client.headers = {}
        =>
            /\ sent[i].body.type \in {None} \cup {Values(sent[i].headers, "content-type")[1]}
            /\ Values(sent[i].headers, "content-length") \in {<<>>, <<sent[i].body.len>>}

\* A WebSocket is opened only if its server proved that it read the key that was
\* sent (HTTP/1.1), or accepted an extended CONNECT (HTTP/2), and chose a
\* protocol if and only if some were sent (into_websocket).
UpgradeVerified ==
    \A i \in opened :
        LET h == sent[i].headers IN
        /\ Values(h, "sec-websocket-version") = <<"13">>
        /\ IF answer[i].version = "2" THEN sent[i].method = "CONNECT"
           ELSE Values(h, "sec-websocket-key") = <<answer[i].accept>> /\ Values(h, "upgrade") = <<"websocket">>
        /\ LET offered == LastOf(asked[i].calls, "protocols", <<>>) IN
           IF offered = <<>> THEN answer[i].protocol = None
           ELSE \E k \in DOMAIN offered : answer[i].protocol = offered[k]

\* The client's proxies are those added since the last no_proxy(), in order; the
\* system's is used if and only if the caller never spoke of proxies
\* (ClientBuilder::proxy, no_proxy, build).
ProxiesTold ==
    client # None =>
        LET cleared == Latest(Made(told, "no_proxy"))
            added == {k \in Made(told, "proxy") : k > cleared}
        IN  client.proxies = IF cleared = 0 /\ added = {} THEN <<System>> ELSE Picked(told, added)

\* A name with an override has the address of the last one, in whatever order the
\* overrides and the resolver were set; any other name is for the caller's
\* resolver, or for the default one (ClientBuilder::resolve_to_addrs, dns_resolver,
\* no_hickory_dns, DnsResolverWithOverrides::resolve).
NamesResolved ==
    client # None =>
        \A name \in {"a", "b"} :
            LET last == Latest({k \in Made(told, "resolve") : told[k].name = name})
                default == IF Made(told, "hickory_off") # {} THEN "gai" ELSE "hickory"
            IN  Resolved(client, name) = IF last # 0 THEN told[last].value
                                         ELSE LastOf(told, "dns_resolver", default)

\* What is sent is what the calls on the builders say, and nothing if one of them
\* failed: headers, proxies, names, body and its length, for a clone as for its original.
CallsHonoured ==
    SetupTypeOK /\ HeadersMerged /\ ProxiesTold /\ NamesResolved /\ ErrorsStick /\ ClonesAgree /\ LengthTells

\* Whoever hashes a connection's identity, at whatever moment of the race to
\* cache its hash, gets the same number, and so does an equal identity
\* (ConnectionId::hash).
HashAgrees ==
    \A t, u \in DOMAIN hasher :
        hasher[t].hash # None /\ hasher[u].hash # None =>
            (sent[hasher[t].of].id = sent[hasher[u].of].id => hasher[t].hash = hasher[u].hash)

=============================================================================
