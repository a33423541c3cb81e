---------------------------- MODULE MCCookieJar ----------------------------
(***************************************************************************)
(* Instances of CookieJar for TLC.                                         *)
(***************************************************************************)
EXTENDS CookieJar

ThreadSymmetry == Permutations(Threads)

B == <<"b">>
AB == <<"a", "b">>
Ip == <<"1">>
X == <<"x">>
XSlash == <<"x", "">>

MCIpHosts == {Ip}

MCUris ==
    { [scheme |-> s, host |-> h, path |-> p] :
        s \in {"http", "https"}, h \in {B, AB}, p \in {Root, X, XSlash} }
    \cup { [scheme |-> "https", host |-> Ip, path |-> X] }

Uri(s, h, p) == [scheme |-> s, host |-> h, path |-> p]

Offer(uri, name, value, secure, domain, path, maxAge, expires) ==
    [ uri |-> uri, name |-> name, value |-> value, secure |-> secure, domain |-> domain,
      path |-> path, maxAge |-> maxAge, expires |-> expires ]

\* Cookies set over https with and without Secure, a Domain, a path and a
\* deadline; over http; for an address; and for a domain the host is not in.
MCOffers ==
    { Offer(Uri("https", AB, X), "n", "v", TRUE, d, p, a, None) :
        d \in {None, B}, p \in {None, X, XSlash}, a \in {None, 1} }
    \cup
    { Offer(Uri("http", AB, XSlash), "n", v, FALSE, d, p, None, None) :
        v \in {"v", "w"}, d \in {None, B}, p \in {None, Root} }
    \cup
    { Offer(Uri("http", h, XSlash), "n", "w", FALSE, d, None, 0, None) : h \in {AB, B}, d \in {None, B} }
    \cup
    { Offer(Uri("https", AB, X), "m", "v", FALSE, B, X, a, e) : a \in {None, 0}, e \in {None, 1} }
    \cup
    { Offer(Uri("https", Ip, X), "n", "v", FALSE, d, None, None, None) : d \in {None, B} }
=============================================================================
