----------------------------- MODULE CookieJar -----------------------------
(***************************************************************************)
(* The cookie jar (src/cookie/jar.rs, src/cookie/store.rs): cookies by     *)
(* domain, path, host-only flag and name behind one RwLock, filled by      *)
(* concurrent responses and read by concurrent requests.                   *)
(*                                                                         *)
(* Jar::add decides most before it takes the lock, the current time        *)
(* included, so it is two steps: Prepare and Commit.  Everything under the *)
(* lock is one step.  set_cookies adds the cookies of a response one by    *)
(* one, taking the lock anew for each.                                     *)
(*                                                                         *)
(* A host is the sequence of its labels, or an address (IpHosts).  A path  *)
(* is the sequence of its segments after the leading slash, the last one   *)
(* "" for a trailing slash, every other one one character long.            *)
(***************************************************************************)
EXTENDS Naturals, Sequences, SequencesExt, FiniteSets, Functions

CONSTANTS
    Threads,    \* responses being processed
    IpHosts,    \* hosts that are addresses
    Offers,     \* cookies that may be added, with the URI they come from: records
                \*   uri, name, value, secure, domain, path, maxAge, expires
    Uris,       \* URIs looked at: records of scheme, host and path
    Names,      \* cookie names
    MaxTime,    \* bound: the clock
    MaxAdds,    \* bound: cookies added
    None        \* an attribute that is absent

Scopes == {"host_only", "domain"}

Root == <<"">>
IsHost(h) == h \in Seq(STRING)
IsPath(p) == p \in Seq(STRING) /\ p # <<>>

\* Where a cookie is stored.
Places == [domain : Seq(STRING), path : Seq(STRING), scope : Scopes, name : Names]

\* The root is a path (a fact about strings, stated because the provers do not have
\* it).  A URI has a host and a path; the domain and the path of a cookie, if it has
\* them, are a host and a path too.
ASSUME JarAssumption ==
    /\ MaxTime \in Nat
    /\ MaxAdds \in Nat
    /\ None \notin Places
    /\ IsPath(Root)
    /\ \A uri \in Uris \cup {o.uri : o \in Offers} : IsHost(uri.host) /\ IsPath(uri.path)
    /\ \A o \in Offers :
         /\ o.name \in Names
         /\ o.domain # None => IsHost(o.domain)
         /\ o.path # None => IsPath(o.path)
         /\ o.maxAge # None => o.maxAge \in Nat
         /\ o.expires # None => o.expires \in Nat

VARIABLES
    now,        \* OffsetDateTime::now_utc()
    cookies,    \* Store::cookies: domain -> path -> [host_only, domain] -> name -> entry
    nextIndex,  \* Store::next_creation_index
    adding,     \* thread -> the cookie it is about to store, or None
    adds        \* cookies added so far

jarVars == <<now, cookies, nextIndex, adding, adds>>

EmptyMap == [x \in {} |-> None]
EmptyScopes == [host_only |-> EmptyMap, domain |-> EmptyMap]
Scope(hostOnly) == IF hostOnly THEN "host_only" ELSE "domain"

Put(map, key, v) == [k \in DOMAIN map \cup {key} |-> IF k = key THEN v ELSE map[k]]
Without(map, key) == Restrict(map, DOMAIN map \ {key})
At(map, key, default) == IF key \in DOMAIN map THEN map[key] ELSE default

\* Every stored cookie with its place.
Stored ==
    UNION {UNION {UNION {{ [domain |-> d, path |-> p, scope |-> s, name |-> n] :
                             n \in DOMAIN cookies[d][p][s]} : s \in Scopes} :
                  p \in DOMAIN cookies[d]} : d \in DOMAIN cookies}

EntryAt(c) == cookies[c.domain][c.path][c.scope][c.name]

JarInit ==
    /\ now = 0
    /\ cookies = EmptyMap
    /\ nextIndex = 0
    /\ adding = [t \in Threads |-> None]
    /\ adds = 0
-----------------------------------------------------------------------------
(* store.rs                                                                *)

DomainMatch(host, domain) ==
    \/ host = domain
    \/ host \notin IpHosts /\ domain \notin IpHosts /\ IsSuffix(domain, host)

PathMatch(path, stored) ==
    \/ path = stored
    \/ IF Last(stored) = ""
       THEN IsPrefix(Front(stored), path) /\ Len(path) >= Len(stored)
       ELSE IsPrefix(stored, path)

\* The length of a path in characters.
PathLen(path) == IF Last(path) = "" THEN 2 * Len(path) - 1 ELSE 2 * Len(path)

\* The directory of the request path.
NormalizePath(path) == IF Len(path) = 1 THEN Root ELSE Front(path)

Expired(entry, time) == entry.expires # None /\ entry.expires <= time

RequestMatches(uri, c, time) ==
    /\ DomainMatch(uri.host, c.domain)
    /\ c.scope = "host_only" => uri.host = c.domain
    /\ PathMatch(uri.path, c.path)
    /\ EntryAt(c).secure => uri.scheme = "https"
    /\ ~Expired(EntryAt(c), time)

MatchingCookies(uri, time) == {c \in Stored : RequestMatches(uri, c, time)}

WouldOverlaySecure_Exact(name, domain, path, time) ==
    \E c \in Stored :
        /\ c.domain = domain /\ c.path = path /\ c.name = name
        /\ EntryAt(c).secure
        /\ ~Expired(EntryAt(c), time)

WouldOverlaySecure(name, domain, path, time) ==
    \E c \in Stored :
        /\ DomainMatch(c.domain, domain) \/ DomainMatch(domain, c.domain)
        /\ PathMatch(path, c.path)
        /\ c.name = name
        /\ EntryAt(c).secure
        /\ ~Expired(EntryAt(c), time)

\* insert_stored_cookie: a cookie replaced by one with the same value keeps its
\* place in the order of creation.
IndexFor_Fresh(d, p, s, name, value) == nextIndex

IndexFor(d, p, s, name, value) ==
    LET names == At(At(cookies, d, EmptyMap), p, EmptyScopes)[s]
    IN IF name \in DOMAIN names /\ names[name].value = value
       THEN names[name].index ELSE nextIndex

Inserted(d, p, s, name, entry) ==
    LET paths  == At(cookies, d, EmptyMap)
        scopes == At(paths, p, EmptyScopes)
    IN Put(cookies, d, Put(paths, p, [scopes EXCEPT ![s] = Put(@, name, entry)]))

\* remove_stored_cookie_inner, for one scope or both: maps that become empty are
\* removed with it.
Removed_ShellKept(d, p, name, scopes) ==
    IF d \notin DOMAIN cookies \/ p \notin DOMAIN cookies[d]
    THEN cookies
    ELSE Put(cookies, d, Put(cookies[d], p,
             [s \in Scopes |-> IF s \in scopes THEN Without(cookies[d][p][s], name)
                                               ELSE cookies[d][p][s]]))

Removed(d, p, name, scopes) ==
    IF d \notin DOMAIN cookies \/ p \notin DOMAIN cookies[d]
    THEN cookies
    ELSE LET left  == [s \in Scopes |-> IF s \in scopes THEN Without(cookies[d][p][s], name)
                                                       ELSE cookies[d][p][s]]
             paths == IF left = EmptyScopes THEN Without(cookies[d], p)
                                            ELSE Put(cookies[d], p, left)
         IN IF paths = EmptyMap THEN Without(cookies, d) ELSE Put(cookies, d, paths)
-----------------------------------------------------------------------------
(* jar.rs: Jar::add                                                        *)

\* The domain the cookie is stored under, None when it is refused: a Domain
\* attribute must be a host that the request's host domain-matches.
CookieDomain_Any(o) == IF o.domain = None THEN o.uri.host ELSE o.domain

CookieDomain(o) ==
    IF o.domain = None THEN o.uri.host
    ELSE IF DomainMatch(o.uri.host, o.domain) THEN o.domain ELSE None

\* The path attribute when it starts with a slash, else the default path.
CookiePath(o) == IF o.path = None THEN NormalizePath(o.uri.path) ELSE o.path

\* Max-Age takes precedence over Expires.  A time of 0 or less expires at once.
Deadline(o) == IF o.maxAge = None THEN o.expires ELSE now + o.maxAge

Acceptable(o) ==
    /\ o.secure => o.uri.scheme = "https"
    /\ CookieDomain(o) # None

\* Up to the lock.
Prepare(t, o) ==
    /\ adding[t] = None
    /\ adds < MaxAdds
    /\ Acceptable(o)
    /\ adds' = adds + 1
    /\ adding' = [adding EXCEPT ![t] =
          [ domain |-> CookieDomain(o), path |-> CookiePath(o),
            scope |-> Scope(o.domain = None), name |-> o.name, value |-> o.value,
            secure |-> o.secure, origin |-> o.uri, seen |-> now,
            expires |-> Deadline(o),
            expired |-> Deadline(o) # None /\ Deadline(o) <= now ]]
    /\ UNCHANGED <<now, cookies, nextIndex>>

\* An overlay of a Secure cookie from an insecure origin is refused.
Refused(a) ==
    a.origin.scheme # "https" /\ WouldOverlaySecure(a.name, a.domain, a.path, a.seen)

Done(t) == adding' = [adding EXCEPT ![t] = None]

CommitRefused(t) ==
    /\ adding[t] # None
    /\ Refused(adding[t])
    /\ Done(t)
    /\ UNCHANGED <<now, cookies, nextIndex, adds>>

CommitRemoval(t) ==
    /\ adding[t] # None
    /\ ~Refused(adding[t])
    /\ adding[t].expired
    /\ LET a == adding[t] IN cookies' = Removed(a.domain, a.path, a.name, {a.scope})
    /\ Done(t)
    /\ UNCHANGED <<now, nextIndex, adds>>

CommitInsert(t) ==
    /\ adding[t] # None
    /\ ~Refused(adding[t])
    /\ ~adding[t].expired
    /\ LET a     == adding[t]
           index == IndexFor(a.domain, a.path, a.scope, a.name, a.value)
       IN /\ cookies' = Inserted(a.domain, a.path, a.scope, a.name,
                                 [ value |-> a.value, secure |-> a.secure, expires |-> a.expires,
                                   index |-> index, setter |-> a.origin.host ])
          /\ nextIndex' = IF index = nextIndex THEN nextIndex + 1 ELSE nextIndex
    /\ Done(t)
    /\ UNCHANGED <<now, adds>>

\* Jar::remove: the exact path of the URI, both scopes.
RemoveCookie(uri, name) ==
    /\ \E c \in Stored : c.domain = uri.host /\ c.path = uri.path /\ c.name = name
    /\ cookies' = Removed(uri.host, uri.path, name, Scopes)
    /\ UNCHANGED <<now, nextIndex, adding, adds>>

\* Jar::clear.
Clear ==
    /\ cookies # EmptyMap
    /\ cookies' = EmptyMap
    /\ nextIndex' = 0
    /\ UNCHANGED <<now, adding, adds>>

ClockTick ==
    /\ now < MaxTime
    /\ now' = now + 1
    /\ UNCHANGED <<cookies, nextIndex, adding, adds>>

JarNext ==
    \/ \E t \in Threads : \/ \E o \in Offers : Prepare(t, o)
                          \/ CommitRefused(t)
                          \/ CommitRemoval(t)
                          \/ CommitInsert(t)
    \/ \E uri \in Uris, name \in Names : RemoveCookie(uri, name)
    \/ Clear
    \/ ClockTick

JarSpec == JarInit /\ [][JarNext]_jarVars
-----------------------------------------------------------------------------
(* The read operations; every one looks at the clock on its own.           *)

\* Jar::get: the oldest of at most two candidates at the exact host and path.
Candidates_Stale(name, uri) ==
    {c \in Stored : c.domain = uri.host /\ c.path = uri.path /\ c.name = name}

Candidates(name, uri) ==
    {c \in Stored : /\ c.domain = uri.host /\ c.path = uri.path /\ c.name = name
                    /\ ~Expired(EntryAt(c), now)}

Get(name, uri) ==
    IF Candidates(name, uri) = {} THEN None
    ELSE CHOOSE c \in Candidates(name, uri) :
            \A other \in Candidates(name, uri) : EntryAt(c).index <= EntryAt(other).index

ContainsCookie(name, uri) == Candidates(name, uri) # {}

\* A set of cookies as a sequence, each at the place that leaves room for those
\* that precede it.
Sorted(S, Precedes(_, _)) ==
    [i \in 1..Cardinality(S) |->
        CHOOSE c \in S : Cardinality({d \in S : Precedes(d, c)}) = i - 1]

\* Jar::get_all, in the order of creation; Jar::len and is_empty count the same.
Older(c, d) == EntryAt(c).index < EntryAt(d).index
GetAll == Sorted({c \in Stored : ~Expired(EntryAt(c), now)}, Older)
JarLen == Cardinality({c \in Stored : ~Expired(EntryAt(c), now)})

\* CookieStore::cookies: longest path first, then oldest first.
Before(c, d) ==
    \/ PathLen(c.path) > PathLen(d.path)
    \/ PathLen(c.path) = PathLen(d.path) /\ Older(c, d)

Header(uri) == Sorted(MatchingCookies(uri, now), Before)
-----------------------------------------------------------------------------
\* Types; no map without cookies is kept (nothing else would ever remove it), and
\* no two cookies have the same place in the order of creation, which the order
\* of the Cookie header rests on.
JarTypeOK ==
    /\ now \in 0..MaxTime
    /\ nextIndex \in 0..MaxAdds
    /\ \A d \in DOMAIN cookies :
         /\ cookies[d] # EmptyMap
         /\ \A p \in DOMAIN cookies[d] : cookies[d][p] # EmptyScopes
    /\ \A c \in Stored : EntryAt(c).index < nextIndex
    /\ \A c, d \in Stored : EntryAt(c).index = EntryAt(d).index => c = d

\* A response from an insecure origin never changes what an https request sends
\* first under the name of a live Secure cookie, whatever else is committed
\* between the moment it read the clock and the moment it gets the lock
\* (would_overlay_secure_cookie).
FirstNamed(uri, name) ==
    LET named == {c \in MatchingCookies(uri, now) : c.name = name}
        first == CHOOSE c \in named : \A d \in named : ~Before(d, c)
    IN IF named = {} THEN None ELSE [cookie |-> first, entry |-> EntryAt(first)]

SecureLeftAlone ==
    [][\A t \in Threads, name \in Names, uri \in {u \in Uris : u.scheme = "https"} :
         /\ adding[t] # None
         /\ adding'[t] = None
         /\ adding[t].origin.scheme # "https"
         /\ FirstNamed(uri, name) # None
         /\ FirstNamed(uri, name).entry.secure
         => FirstNamed(uri, name)' = FirstNamed(uri, name)]_jarVars

\* A cookie is sent only to hosts that its setter could set cookies for: the
\* setter itself when it is host-only, else hosts of the domain the setter is in.
SentWhereSet ==
    \A uri \in Uris : \A c \in MatchingCookies(uri, now) :
        LET setter == EntryAt(c).setter
        IN IF c.scope = "host_only"
           THEN uri.host = setter
           ELSE IsSuffix(c.domain, uri.host) /\ IsSuffix(c.domain, setter)

\* A server that sends a cookie again with the value it has does not change the
\* order of any Cookie header (insert_stored_cookie).
IsTarget(c, a) ==
    c = [domain |-> a.domain, path |-> a.path, scope |-> a.scope, name |-> a.name]

OrderKept ==
    [][\A t \in Threads, uri \in Uris :
         /\ adding[t] # None
         /\ adding'[t] = None
         /\ ~adding[t].expired
         /\ \E c \in MatchingCookies(uri, now) :
              /\ IsTarget(c, adding[t])
              /\ EntryAt(c).value = adding[t].value
              /\ c \in MatchingCookies(uri, now)'
         => Header(uri)' = Header(uri)]_jarVars

\* Every read path takes the same decision about expiry: what get returns is sent
\* to that URI, what is sent is in the list of all cookies, and the list has the
\* length the jar reports.
ViewsAgree ==
    /\ Len(GetAll) = JarLen
    /\ \A uri \in {u \in Uris : u.scheme = "https"} :
         /\ \A name \in Names :
              /\ (Get(name, uri) # None) = ContainsCookie(name, uri)
              /\ ContainsCookie(name, uri) => Get(name, uri) \in Range(Header(uri))
         /\ Range(Header(uri)) \subseteq Range(GetAll)

\* The nested maps hold no empty shells and one order of creation, and all read
\* paths see the same live cookies in them (Store, Jar).
JarInv == JarTypeOK /\ ViewsAgree
=============================================================================
