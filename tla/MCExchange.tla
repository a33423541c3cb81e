----------------------------- MODULE MCExchange -----------------------------
(***************************************************************************)
(* Instances of Exchange for TLC.                                          *)
(***************************************************************************)
EXTENDS Exchange

One == CHOOSE r \in Requests : TRUE

U(scheme, host, path) == [scheme |-> scheme, host |-> host, path |-> path]
T(t, d) == [total |-> t, read |-> d]
Limit(n) == [kind |-> "limit", max |-> n]
Custom == [kind |-> "custom"]
Direct == [kind |-> "none"]
Referer(u, long) == [uri |-> u, origin |-> FALSE, long |-> long]
Reply(status, location, rp) == [status |-> status, location |-> location, rp |-> rp]
Failure(h2, remote, reason) == [h2 |-> h2, remote |-> remote, reason |-> reason]

Home == U("https", "a", "p")

\* Each way an error can be told apart by is_retryable_error.
MCFailures ==
    { Failure("goaway", TRUE, "NO_ERROR"), Failure("reset", TRUE, "REFUSED_STREAM"),
      Failure("goaway", FALSE, "NO_ERROR"), Failure("reset", TRUE, "NO_ERROR"),
      Failure("none", FALSE, "none") }
-----------------------------------------------------------------------------
(* Two calls on one client: retries, their budget, and the timers.         *)

Nacks(max) == [budgeted |-> FALSE, classifier |-> "ProtocolNacks", statuses |-> {}, max |-> max]
Busy(max) == [budgeted |-> TRUE, classifier |-> "Dyn", statuses |-> {"503"}, max |-> max]

Client(httpsOnly, referer, retry, timeouts) ==
    [httpsOnly |-> httpsOnly, referer |-> referer, retry |-> retry, timeouts |-> timeouts]

Request(uri, method, body, policy, secret, referer, timeouts, inScope) ==
    [ uri |-> uri, method |-> method, body |-> body, policy |-> policy, secret |-> secret,
      referer |-> referer, timeouts |-> timeouts, inScope |-> inScope ]

Plain(body, policy, timeouts, inScope) ==
    Request(Home, "GET", body, policy, FALSE, Absent, timeouts, inScope)

Scenario(c, f) == [client |-> c, asked |-> f]

Patient == Client(FALSE, FALSE, Busy(2), T(Off, Off))
Hurried(timeouts) == Client(FALSE, FALSE, Nacks(1), timeouts)
Unsendable == Request(U("ftp", "a", "p"), "GET", "empty", Direct, FALSE, Absent, T(Off, Off), TRUE)

Bounded == Plain("empty", Limit(1), T(Off, Off), TRUE)
Open == Plain("bytes", Custom, T(Off, Off), FALSE)

\* Two calls that share the budget, of one kind or of both, and one call with timers, the client's and
\* its own; the other call is then refused at once.
CallScenarios ==
    { Scenario(Patient, [r \in Requests |-> IF r = One THEN q ELSE Bounded]) : q \in {Bounded, Open} }
    \cup
    { Scenario(Patient, [r \in Requests |-> Open]) }
    \cup
    { Scenario(Hurried(c), [r \in Requests |->
          IF r = One THEN Plain("bytes", p, q, TRUE) ELSE Unsendable]) :
        p \in {Limit(1), Custom}, c \in {T(3, Off), T(Off, Off)}, q \in {T(Off, 2), T(2, 1)} }

CallReplies ==
    { Reply("200", Absent, <<>>), Reply("503", Absent, <<>>), Reply("307", Home, <<>>) }
-----------------------------------------------------------------------------
(* One call and all a redirect can do to it.                               *)

RedirectUris ==
    { Home, U("https", "b", "p"), U("http", "a", "p"), U("ftp", "a", "p") }

RedirectClients ==
    { Client(FALSE, TRUE, Nacks(0), T(Off, Off)), Client(TRUE, FALSE, Nacks(1), T(Off, Off)) }

RedirectAsked ==
    { Request(Home, "POST", b, Limit(2), TRUE, Referer(Home, FALSE), T(Off, Off), TRUE) :
        b \in {"empty", "bytes", "stream", "hollow"} }
    \cup
    { Request(Home, m, "bytes", Custom, TRUE, Absent, T(Off, Off), TRUE) : m \in {"POST", "HEAD"} }
    \cup
    { Request(Home, "GET", "empty", Limit(2), TRUE, f, T(Off, Off), TRUE) :
        f \in {Absent, Opaque, Referer(Home, TRUE), Referer(U("https", "b", "q"), FALSE)} }
    \cup
    { Request(U("http", "a", "p"), "GET", "empty", p, TRUE, Absent, T(Off, Off), TRUE) :
        p \in {Limit(1), Direct} }

RedirectScenarios ==
    { Scenario(c, [r \in Requests |-> IF r = One THEN q ELSE Unsendable]) :
        c \in RedirectClients, q \in RedirectAsked }

RpHeaders ==
    { <<>>, <<"Origin", "bogus">>, <<"StrictOrigin">>, <<"NoReferrer", "UnsafeUrl">>, <<"SameOrigin">>,
      <<"NoReferrer">>, <<"NoReferrerWhenDowngrade">>, <<"OriginWhenCrossOrigin">>,
      <<"StrictOriginWhenCrossOrigin">> }

\* Without a Referrer a client does not look at Referrer-Policy.
RedirectReplies(c) ==
    { Reply(s, l, <<>>) : s \in RedirectStatuses, l \in RedirectUris \cup {Absent} }
    \cup { Reply("307", l, rp) : l \in RedirectUris, rp \in {h \in RpHeaders : c.referer} }
    \cup { Reply("200", Absent, <<>>) }

MCScenarios == CallScenarios \cup RedirectScenarios

MCReplies(c) == IF c \in RedirectClients THEN RedirectReplies(c) ELSE CallReplies
=============================================================================
