------------------------------ MODULE Redirect ------------------------------
(***************************************************************************)
(* The redirect layer (src/client/layer/redirect.rs and redirect/future.rs *)
(* with the policy of src/redirect.rs) as operators on the state of one    *)
(* ResponseFuture::Redirect, a record called a chain:                      *)
(*                                                                         *)
(*   uri, method   the request about to be sent or just sent               *)
(*   payload       it carries Content-Type, -Length, -Encoding or          *)
(*                 Transfer-Encoding                                       *)
(*   secret        it carries Authorization, Cookie, ...                   *)
(*   referer       its Referer header                                      *)
(*   sent          the body it is sent with                                *)
(*   repr          BodyRepr, what is kept to send the body again           *)
(*   uris, history FollowRedirectPolicy::uris and ::history                *)
(*   source, rp    Referrer::source and ::policy                           *)
(*                                                                         *)
(* A URI is a record of scheme, host (with its port) and path.  A body is  *)
(* "empty" or "bytes" (reusable), "stream" (wrapped, cannot be cloned) or  *)
(* "hollow" (wrapped, but known to have no bytes).  A header is present or *)
(* absent, except Referer: Absent, Opaque (not an http URL) or a record of *)
(* the uri, whether it is cut down to the origin, and whether it is longer *)
(* than 4096 bytes.                                                        *)
(***************************************************************************)
EXTENDS Naturals, Sequences, SequencesExt

Absent == [uri |-> "absent"]
Opaque == [uri |-> "opaque"]

ReferrerPolicies ==
    { "NoReferrer", "NoReferrerWhenDowngrade", "SameOrigin", "Origin", "StrictOrigin",
      "OriginWhenCrossOrigin", "StrictOriginWhenCrossOrigin", "UnsafeUrl" }

SameOrigin(u, v) == u.host = v.host /\ u.scheme = v.scheme

\* Body::try_clone: a body built from bytes can be cloned, a wrapped one cannot.
CanClone(body) == body \in {"empty", "bytes"}
-----------------------------------------------------------------------------
\* BodyRepr: "None", "Empty" or the cloned body itself.
Take(repr) == IF repr = "Empty" THEN "empty" ELSE repr
AfterTake(repr) == IF repr = "Empty" THEN "Empty" ELSE "None"

TryCloneFrom(repr, body) ==
    IF repr = "None" /\ body # "stream"
    THEN IF body = "hollow" THEN "empty" ELSE body
    ELSE repr

\* The last token of a Referrer-Policy header that is recognised, "None" if no
\* token is.
ParsePolicy(tokens) ==
    LET known == SelectSeq(tokens, LAMBDA t : t \in ReferrerPolicies)
    IN IF known = <<>> THEN "None" ELSE Last(known)

ParseReferrer(header) ==
    IF header \in {Absent, Opaque}
    THEN Absent
    ELSE [uri |-> header.uri, origin |-> header.origin \/ header.long, long |-> FALSE]

\* Referrer::on_redirect.
OnRedirect(c, tokens) ==
    LET rp == ParsePolicy(tokens)
    IN IF rp = "None" THEN c ELSE [c EXCEPT !.rp = rp]

\* Referrer::apply: whether the header is left out, and whether it is cut down.
Omitted(c) ==
    LET cross     == ~SameOrigin(c.source.uri, c.uri)
        downgrade == c.source.uri.scheme = "https" /\ c.uri.scheme = "http"
    IN \/ c.rp = "NoReferrer"
       \/ c.rp \in {"NoReferrerWhenDowngrade", "StrictOrigin"} /\ downgrade
       \/ c.rp = "SameOrigin" /\ cross
       \/ c.rp = "StrictOriginWhenCrossOrigin" /\ cross /\ downgrade

Stripped(c) ==
    \/ c.rp \in {"Origin", "StrictOrigin"}
    \/ /\ c.rp \in {"OriginWhenCrossOrigin", "StrictOriginWhenCrossOrigin"}
       /\ ~SameOrigin(c.source.uri, c.uri)

\* The source is cut down for the header only.
ApplyReferrer_SourceKept(c) ==
    IF c.source = Absent \/ Omitted(c)
    THEN [c EXCEPT !.referer = Absent, !.source = Absent]
    ELSE [c EXCEPT !.referer = [c.source EXCEPT !.origin = @ \/ Stripped(c)]]

ApplyReferrer(c) ==
    IF c.source = Absent \/ Omitted(c)
    THEN [c EXCEPT !.referer = Absent, !.source = Absent]
    ELSE LET shown == [c.source EXCEPT !.origin = @ \/ Stripped(c)]
         IN [c EXCEPT !.referer = shown, !.source = shown]

\* The scheme is not compared.
RemoveSensitiveHeaders_HostOnly(c) ==
    [c EXCEPT !.secret = @ /\ (c.uris # <<>> => c.uri.host = Last(c.uris).host)]

RemoveSensitiveHeaders(c) ==
    [c EXCEPT !.secret = @ /\ (c.uris # <<>> => SameOrigin(c.uri, Last(c.uris)))]

\* FollowRedirectPolicy::on_request; withReferrer is whether the client keeps
\* a Referrer at all.
OnRequest(c, withReferrer) ==
    LET bare == RemoveSensitiveHeaders(c)
    IN IF c.uris # <<>> /\ withReferrer THEN ApplyReferrer(bare) ELSE bare

\* FollowRedirect::call with for_request, for a policy other than None.
NewChain(q, withReferrer) ==
    OnRequest([ uri |-> q.uri, method |-> q.method, payload |-> q.body # "empty",
                secret |-> q.secret, referer |-> q.referer, sent |-> q.body,
                repr |-> TryCloneFrom("None", q.body), uris |-> <<>>, history |-> <<>>,
                source |-> IF withReferrer THEN ParseReferrer(q.referer) ELSE Absent,
                rp |-> "StrictOriginWhenCrossOrigin" ], withReferrer)
-----------------------------------------------------------------------------
RedirectStatuses == {"301", "303", "307"}   \* 302 is as 301, 308 as 307

\* The history a response of the inner service leaves the layer with: on_response
\* moves it into a response that is no redirect.  A redirect that is handed out,
\* for want of a body or of a Location or because the policy stops, gets none.
OnResponse_Always(c, res) == c.history

OnResponse(c, res) == IF res.status \in RedirectStatuses THEN <<>> ELSE c.history

\* What a redirect status does to the request before anything else is looked
\* at: the method, the kept body and the payload headers.
Rewritten_BodyKept(c, status) ==
    IF \/ status = "301" /\ c.method = "POST"
       \/ status = "303"
    THEN [c EXCEPT !.method = IF @ = "HEAD" THEN "HEAD" ELSE "GET", !.payload = FALSE]
    ELSE c

Rewritten(c, status) ==
    IF \/ status = "301" /\ c.method = "POST"
       \/ status = "303"
    THEN [c EXCEPT !.method = IF @ = "HEAD" THEN "HEAD" ELSE "GET",
                   !.repr = "Empty", !.payload = FALSE]
    ELSE c

\* The redirect cannot be followed: no body to send, or no usable Location.
Unfollowable(c, res) == c.repr = "None" \/ res.location = Absent

\* The decisions Policy::redirect may take: a limit is checked against the URIs
\* requested so far, a custom policy may decide anything.
PolicyActions(policy, uris) ==
    IF policy.kind = "limit"
    THEN { IF Len(uris) > policy.max THEN "Error" ELSE "Follow" }
    ELSE {"Follow", "Stop", "Error", "Pending"}

\* FollowRedirectPolicy::redirect up to the decision.
Attempted(c, res) ==
    OnRedirect([c EXCEPT !.uris = Append(@, c.uri)], res.rp)

\* The target is refused although the policy wants to follow.
BadTarget(location, httpsOnly) ==
    \/ location.scheme \notin {"http", "https"}
    \/ httpsOnly /\ location.scheme # "https"

\* The history entry of a redirect the policy follows at once.
Recorded_First(c, res) ==
    [c EXCEPT !.history = Append(@, [status |-> res.status, uri |-> res.location,
                                     previous |-> Head(c.uris)])]

Recorded(c, res) ==
    [c EXCEPT !.history = Append(@, [status |-> res.status, uri |-> res.location,
                                     previous |-> c.uri])]

\* handle_action for Action::Follow.
Followed_Spent(c, location, withReferrer) ==
    OnRequest([c EXCEPT !.uri = location,
                        !.sent = Take(c.repr),
                        !.repr = AfterTake(c.repr)], withReferrer)

Followed(c, location, withReferrer) ==
    LET body == Take(c.repr)
    IN OnRequest([c EXCEPT !.uri = location,
                           !.sent = body,
                           !.repr = TryCloneFrom(AfterTake(c.repr), body)], withReferrer)
=============================================================================
