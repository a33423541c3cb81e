------------------------------ MODULE MCSetup ------------------------------
(* Instances of Setup: one scenario for each group of calls that interact. *)
EXTENDS Setup

Uri(scheme, host, user) == [scheme |-> scheme, host |-> host, user |-> user, query |-> <<>>]
HttpsA == Uri("https", "a", None)
HttpsB == Uri("https", "b", None)

Call(op, value) == [op |-> op, value |-> value]
HeaderCall(name, value) == [op |-> "header", name |-> name, value |-> value]
HeadersCall(map) == [op |-> "headers", map |-> map]
EmulationCall(e) == [op |-> "emulation", emulation |-> e]
DocumentCall(type, len) == [op |-> "document", type |-> type, len |-> len]
MultipartCall(f) == [op |-> "multipart", form |-> f]

Firefox == EmulationOf("firefox", "ff", "user-agent" :> <<"firefox">>, <<"UA">>)
Chrome == EmulationOf("chrome", "ch", "user-agent" :> <<"chrome">> @@ "x" :> <<"c1", "c2">>, <<>>)

Heads(a, b) == [path |-> a, noop |-> b]
TextPart == [head |-> Heads(10, 12), len |-> 3, told |-> 3]
FilePart == [head |-> Heads(20, 20), len |-> 5, told |-> 5]
StreamPart == [head |-> Heads(10, 10), len |-> 4, told |-> None]

Forms ==
    { FormNew("b1", 6),
      FormPart(FormNew("b2", 6), TextPart),
      PercentEncode(FormPart(FormPart(FormNew("b3", 6), TextPart), FilePart), "noop"),
      FormPart(FormPart(FormNew("b4", 6), FilePart), StreamPart) }

Basic ==
    [ clientCalls |-> {}, maxClient |-> 0, requestCalls |-> {}, maxRequest |-> 0, uris |-> {HttpsA},
      requests |-> {"r1"}, handshake |-> FALSE, answers |-> {}, hashers |-> {} ]

HeaderScenario ==
    [Basic EXCEPT
        !.clientCalls = {Call("user_agent", "me"), Call("user_agent", Bad), EmulationCall(Chrome),
                         HeadersCall("x" :> <<"d">>), Call("orig", <<"X">>)},
        !.maxClient = 2,
        !.uris = {HttpsA, Uri("https", "a", "user"), Uri("https", None, None), Uri("ftp", "a", None)},
        !.requestCalls = {HeaderCall("x", "1"), HeaderCall("x", "2"), HeaderCall("x", Bad),
                          HeadersCall("x" :> <<"3", "4">>), EmulationCall(Firefox),
                          Call("defaults", FALSE), Call("defaults", TRUE), HeaderCall("authorization", "token"),
                          Call("orig", <<"x">>)},
        !.maxRequest = 3]

IdentityScenario ==
    [Basic EXCEPT
        !.requests = {"r1", "r2"},
        !.uris = {HttpsA, HttpsB},
        !.requestCalls = {Call("version", "2"), Call("proxy", "p"), EmulationCall(Firefox),
                          EmulationCall(Chrome), [op |-> "group", group |-> Named("firefox")],
                          [op |-> "bind", field |-> "v4", value |-> "here"],
                          [op |-> "bind", field |-> "v6", value |-> None], Call("timeout", 1)},
        !.maxRequest = 2]

BodyScenario ==
    [Basic EXCEPT
        !.requests = {"r1", "r2"},
        !.requestCalls = {DocumentCall("json", 2), DocumentCall("form", Bad), HeaderCall("content-type", "mine"),
                          Call("body", Bytes("text", 1)), Call("body", Streamed("text", None)),
                          Call("query", "q"), Call("query", Bad), Call("redirect", "limited"), Call("read", 1)}
                         \cup {MultipartCall(f) : f \in Forms},
        !.maxRequest = 2]

ClientScenario ==
    [Basic EXCEPT
        !.clientCalls = {Call("proxy", "p"), Call("proxy", "q"), Call("no_proxy", None),
                         Call("layer", "l1"), Call("layer", "l2"), Call("connector_layer", "c1"),
                         Call("connector_layer", "c2"),
                         [op |-> "set", field |-> "pool_max_size", value |-> 0],
                         [op |-> "set", field |-> "pool_max_size", value |-> 2],
                         [op |-> "resolve", name |-> "a", value |-> "address"],
                         [op |-> "resolve", name |-> "a", value |-> "other"], Call("hickory_off", None),
                         Call("dns_resolver", "mine"), Call("http_only", "http2"), Call("options", Bad)},
        !.maxClient = 3]

EncodingScenario ==
    [Basic EXCEPT
        !.clientCalls = {[op |-> "encoding", which |-> e, on |-> FALSE] : e \in {"gzip", "br"}}
                        \cup {Call("https_only", TRUE),
                              [op |-> "set", field |-> "cookie_store", value |-> "jar"], [op |-> "bind", field |-> "v4", value |-> "here"]},
        !.maxClient = 2,
        !.uris = {HttpsA, Uri("http", "a", None)},
        !.requestCalls = {[op |-> "encoding", which |-> "gzip", on |-> b] : b \in BOOLEAN}
                         \cup {HeaderCall("range", "0-1"), Call("cookies", "mine")},
        !.maxRequest = 2]

HandshakeScenario ==
    [Basic EXCEPT
        !.handshake = TRUE,
        !.uris = {Uri("wss", "a", None)},
        !.requestCalls = {Call("version", "2"), Call("version", "3"), Call("key", "k"), Call("key", Bad),
                          Call("protocols", <<"p1", "p2">>), Call("protocols", <<>>), Call("protocols", <<"p1", Bad>>),
                          HeaderCall("upgrade", "other")},
        !.maxRequest = 3,
        !.answers = [ version : {"1.1", "2"}, status : {101, 200}, upgrades : BOOLEAN,
                      accept : {None, Generated, "k"}, protocol : {None, "p2", "p3"} ]]

HashScenario ==
    [Basic EXCEPT !.requests = {"r1", "r2"}, !.uris = {HttpsA, HttpsB}, !.requestCalls = {Call("proxy", "p")}, !.maxRequest = 1,
                  !.hashers = {"t1", "t2", "t3"}]

MCScenarios ==
    [ headers |-> HeaderScenario, identity |-> IdentityScenario, body |-> BodyScenario,
      client |-> ClientScenario, encoding |-> EncodingScenario, handshake |-> HandshakeScenario,
      hash |-> HashScenario ]

MCHashOne(id) == IF id["uri"].host = "a" THEN 0 ELSE 7
=============================================================================
