--------------------------- MODULE CookieJarProofs ---------------------------
(***************************************************************************)
(* The cookie jar for any number of responses, any cookies and any order   *)
(* in which they are prepared and committed.                               *)
(*                                                                         *)
(* The jar is reasoned about as the set of its cookies (Stored) and what   *)
(* is stored at each place: what an insertion and a removal do to the      *)
(* nested maps is shown first, then what the order of the cookies, the     *)
(* matching of paths and the matching of domains give.                     *)
(***************************************************************************)
EXTENDS CookieJar, RetainProofs, FiniteSetTheorems, SequenceTheorems

\* A cookie is stored at a place.
Has(jar, d, p, s, n) ==
    d \in DOMAIN jar /\ p \in DOMAIN jar[d] /\ s \in Scopes /\ n \in DOMAIN jar[d][p][s]

Place(d, p, s, n) == [domain |-> d, path |-> p, scope |-> s, name |-> n]

\* No map without cookies is kept.
MapsOK ==
    \A d \in DOMAIN cookies :
        /\ cookies[d] # EmptyMap
        /\ \A p \in DOMAIN cookies[d] : cookies[d][p] # EmptyScopes /\ DOMAIN cookies[d][p] = Scopes
-----------------------------------------------------------------------------
(* The nested maps.                                                        *)

\* The empty maps have no keys.
LEMMA Empties ==
    /\ DOMAIN EmptyMap = {}
    /\ DOMAIN EmptyScopes = Scopes
    /\ \A s \in Scopes : EmptyScopes[s] = EmptyMap
  BY DEF EmptyMap, EmptyScopes, Scopes

\* The set of cookies is what the nested maps hold.
LEMMA StoredHas ==
    \A c : c \in Stored <=> \E d, p, s, n : Has(cookies, d, p, s, n) /\ c = Place(d, p, s, n)
<1> TAKE c
<1>1. ASSUME c \in Stored
      PROVE  \E d, p, s, n : Has(cookies, d, p, s, n) /\ c = Place(d, p, s, n)
  <2>1. PICK d \in DOMAIN cookies :
           c \in UNION {UNION {{ [domain |-> d, path |-> p, scope |-> s, name |-> n] :
                             n \in DOMAIN cookies[d][p][s]} : s \in Scopes} :
                  p \in DOMAIN cookies[d]}
    BY <1>1 DEF Stored
  <2>2. PICK p \in DOMAIN cookies[d] :
           c \in UNION {{ [domain |-> d, path |-> p, scope |-> s, name |-> n] :
                             n \in DOMAIN cookies[d][p][s]} : s \in Scopes}
    BY <2>1
  <2>3. PICK s \in Scopes : \E n \in DOMAIN cookies[d][p][s] :
           c = [domain |-> d, path |-> p, scope |-> s, name |-> n]
    BY <2>2
  <2> QED
    BY <2>3 DEF Has, Place
<1>2. ASSUME NEW d, NEW p, NEW s, NEW n, Has(cookies, d, p, s, n), c = Place(d, p, s, n)
      PROVE  c \in Stored
  <2>1. /\ d \in DOMAIN cookies /\ p \in DOMAIN cookies[d] /\ s \in Scopes
        /\ n \in DOMAIN cookies[d][p][s]
        /\ c = [domain |-> d, path |-> p, scope |-> s, name |-> n]
    BY <1>2 DEF Has, Place
  <2>2. c \in UNION {{ [domain |-> d, path |-> p, scope |-> z, name |-> m] :
                             m \in DOMAIN cookies[d][p][z]} : z \in Scopes}
    BY <2>1
  <2>3. c \in UNION {UNION {{ [domain |-> d, path |-> y, scope |-> z, name |-> m] :
                             m \in DOMAIN cookies[d][y][z]} : z \in Scopes} :
                  y \in DOMAIN cookies[d]}
    BY <2>1, <2>2
  <2> QED
    BY <2>1, <2>3 DEF Stored
<1> QED
  BY <1>1, <1>2

\* Places with the same fields are the same.
LEMMA SamePlace ==
    ASSUME NEW d, NEW p, NEW s, NEW n, NEW x, NEW y, NEW z, NEW w
    PROVE  Place(d, p, s, n) = Place(x, y, z, w) <=> d = x /\ p = y /\ s = z /\ n = w
  BY DEF Place

\* An insertion adds one cookie, or replaces it, and leaves the others.
LEMMA InsertedMaps ==
    ASSUME MapsOK, NEW d, NEW p, NEW s \in Scopes, NEW n, NEW e,
           cookies' = Inserted(d, p, s, n, e)
    PROVE  /\ \A x, y, z, w :
                Has(cookies', x, y, z, w) <=>
                    Has(cookies, x, y, z, w) \/ (x = d /\ y = p /\ z = s /\ w = n)
           /\ cookies'[d][p][s][n] = e
           /\ \A x, y, z, w : Has(cookies, x, y, z, w) /\ ~(x = d /\ y = p /\ z = s /\ w = n) =>
                cookies'[x][y][z][w] = cookies[x][y][z][w]
           /\ MapsOK'
<1> DEFINE paths == At(cookies, d, EmptyMap)
           scopes == At(paths, p, EmptyScopes)
           names == Put(scopes[s], n, e)
           newScopes == [scopes EXCEPT ![s] = names]
           newPaths == Put(paths, p, newScopes)
<1>1. cookies' = Put(cookies, d, newPaths)
  BY DEF Inserted
<1>2. /\ DOMAIN paths = IF d \in DOMAIN cookies THEN DOMAIN cookies[d] ELSE {}
      /\ d \in DOMAIN cookies => paths = cookies[d]
  BY Empties DEF At
<1>3. /\ p \in DOMAIN paths => scopes = paths[p] /\ d \in DOMAIN cookies
      /\ p \notin DOMAIN paths => scopes = EmptyScopes
  BY <1>2 DEF At
<1>4. DOMAIN scopes = Scopes
  BY <1>2, <1>3, Empties DEF MapsOK
<1> HIDE DEF paths, scopes
<1>5. /\ DOMAIN names = DOMAIN scopes[s] \cup {n} /\ names[n] = e
      /\ \A w \in DOMAIN scopes[s] : w # n => names[w] = scopes[s][w]
  BY DEF Put
<1> HIDE DEF names
<1>6. /\ DOMAIN newScopes = Scopes /\ newScopes[s] = names
      /\ \A z \in Scopes : z # s => newScopes[z] = scopes[z]
  BY <1>4
<1> HIDE DEF newScopes
<1>7. /\ DOMAIN newPaths = DOMAIN paths \cup {p} /\ newPaths[p] = newScopes
      /\ \A y \in DOMAIN paths : y # p => newPaths[y] = paths[y]
  BY DEF Put
<1> HIDE DEF newPaths
<1>8. /\ DOMAIN cookies' = DOMAIN cookies \cup {d} /\ cookies'[d] = newPaths
      /\ \A x \in DOMAIN cookies : x # d => cookies'[x] = cookies[x]
  BY <1>1 DEF Put
<1>9. cookies'[d][p][s][n] = e
  BY <1>5, <1>6, <1>7, <1>8
<1>10. ASSUME NEW x, NEW y, NEW z, NEW w, Has(cookies, x, y, z, w),
              ~(x = d /\ y = p /\ z = s /\ w = n)
       PROVE  Has(cookies', x, y, z, w) /\ cookies'[x][y][z][w] = cookies[x][y][z][w]
  <2>1. /\ x \in DOMAIN cookies /\ y \in DOMAIN cookies[x] /\ z \in Scopes
        /\ w \in DOMAIN cookies[x][y][z]
    BY <1>10 DEF Has
  <2>2. CASE x # d
    BY <1>8, <2>1, <2>2 DEF Has
  <2>3. CASE x = d /\ y # p
    BY <1>2, <1>7, <1>8, <2>1, <2>3 DEF Has
  <2>4. CASE x = d /\ y = p
    <3>1. scopes = cookies[d][p] /\ cookies'[d][p] = newScopes /\ p \in DOMAIN cookies'[d]
      BY <1>2, <1>3, <1>7, <1>8, <2>1, <2>4
    <3>2. w \in DOMAIN newScopes[z] /\ newScopes[z][w] = scopes[z][w]
      BY <1>5, <1>6, <1>10, <2>1, <2>4, <3>1
    <3> QED
      BY <1>8, <2>1, <2>4, <3>1, <3>2 DEF Has
  <2> QED
    BY <2>2, <2>3, <2>4
<1>11. ASSUME NEW x, NEW y, NEW z, NEW w, Has(cookies', x, y, z, w),
              ~(x = d /\ y = p /\ z = s /\ w = n)
       PROVE  Has(cookies, x, y, z, w)
  <2>1. /\ x \in DOMAIN cookies' /\ y \in DOMAIN cookies'[x] /\ z \in Scopes
        /\ w \in DOMAIN cookies'[x][y][z]
    BY <1>11 DEF Has
  <2>2. CASE x # d
    BY <1>8, <2>1, <2>2 DEF Has
  <2>3. CASE x = d /\ y # p
    BY <1>2, <1>7, <1>8, <2>1, <2>3 DEF Has
  <2>4. CASE x = d /\ y = p
    <3>1. cookies'[x][y] = newScopes
      BY <1>7, <1>8, <2>4
    <3>2. w \in DOMAIN scopes[z]
      BY <1>5, <1>6, <1>11, <2>1, <2>4, <3>1
    <3>3. p \in DOMAIN paths
      BY <1>3, <2>1, <3>2, Empties
    <3> QED
      BY <1>2, <1>3, <2>1, <2>4, <3>2, <3>3 DEF Has
  <2> QED
    BY <2>2, <2>3, <2>4
<1>12. Has(cookies', d, p, s, n)
  BY <1>5, <1>6, <1>7, <1>8 DEF Has
<1>13. MapsOK'
  <2> SUFFICES ASSUME NEW x \in DOMAIN cookies'
               PROVE  /\ cookies'[x] # EmptyMap
                      /\ \A y \in DOMAIN cookies'[x] :
                            cookies'[x][y] # EmptyScopes /\ DOMAIN cookies'[x][y] = Scopes
    BY DEF MapsOK
  <2>1. CASE x # d
    BY <1>8, <2>1 DEF MapsOK
  <2>2. CASE x = d
    <3>1. cookies'[x] # EmptyMap
      BY <1>7, <1>8, <2>2, Empties
    <3>2. newScopes # EmptyScopes
      BY <1>5, <1>6, Empties
    <3> QED
      BY <1>2, <1>6, <1>7, <1>8, <2>2, <3>1, <3>2 DEF MapsOK
  <2> QED
    BY <2>1, <2>2
<1> QED
  BY <1>9, <1>10, <1>11, <1>12, <1>13

\* A removal takes one name away, in one scope or in both, and leaves the others.
LEMMA RemovedMaps ==
    ASSUME MapsOK, NEW d, NEW p, NEW n, NEW scopes,
           cookies' = Removed(d, p, n, scopes)
    PROVE  /\ \A x, y, z, w :
                Has(cookies', x, y, z, w) <=>
                    Has(cookies, x, y, z, w) /\ ~(x = d /\ y = p /\ z \in scopes /\ w = n)
           /\ \A x, y, z, w : Has(cookies', x, y, z, w) =>
                cookies'[x][y][z][w] = cookies[x][y][z][w]
           /\ MapsOK'
<1>0. CASE d \notin DOMAIN cookies \/ p \notin DOMAIN cookies[d]
  <2>1. cookies' = cookies
    BY <1>0 DEF Removed
  <2>2. \A x, y, z, w : Has(cookies, x, y, z, w) => ~(x = d /\ y = p)
    BY <1>0 DEF Has
  <2>3. MapsOK'
    BY <2>1 DEF MapsOK
  <2> QED
    BY <2>1, <2>2, <2>3
<1>1. CASE d \in DOMAIN cookies /\ p \in DOMAIN cookies[d]
  <2> DEFINE old == cookies[d]
             left == [s \in Scopes |-> IF s \in scopes THEN Without(old[p][s], n) ELSE old[p][s]]
             paths == IF left = EmptyScopes THEN Without(old, p) ELSE Put(old, p, left)
  <2>1. cookies' = IF paths = EmptyMap THEN Without(cookies, d) ELSE Put(cookies, d, paths)
    BY <1>1 DEF Removed
  <2>2. /\ DOMAIN left = Scopes
        /\ \A z \in Scopes : \A w : w \in DOMAIN left[z] <=> w \in DOMAIN old[p][z] /\ ~(z \in scopes /\ w = n)
        /\ \A z \in Scopes : \A w : w \in DOMAIN left[z] => left[z][w] = old[p][z][w]
    BY DEF Without, Restrict
  <2> HIDE DEF left
  <2>3. /\ \A y : y \in DOMAIN paths <=> y \in DOMAIN old /\ ~(y = p /\ left = EmptyScopes)
        /\ \A y \in DOMAIN paths : y # p => paths[y] = old[y]
        /\ p \in DOMAIN paths => paths[p] = left /\ left # EmptyScopes
    BY <1>1 DEF Without, Restrict, Put
  <2> HIDE DEF paths
  <2>4. /\ \A x : x \in DOMAIN cookies' <=> x \in DOMAIN cookies /\ ~(x = d /\ paths = EmptyMap)
        /\ \A x \in DOMAIN cookies' : x # d => cookies'[x] = cookies[x]
        /\ d \in DOMAIN cookies' => cookies'[d] = paths /\ paths # EmptyMap
    BY <1>1, <2>1 DEF Without, Restrict, Put
  <2> HIDE DEF old
  <2>o. old = cookies[d]
    BY DEF old
  <2>5. ASSUME NEW x, NEW y, NEW z, NEW w, Has(cookies', x, y, z, w)
        PROVE  /\ Has(cookies, x, y, z, w) /\ ~(x = d /\ y = p /\ z \in scopes /\ w = n)
               /\ cookies'[x][y][z][w] = cookies[x][y][z][w]
    <3>1. /\ x \in DOMAIN cookies' /\ y \in DOMAIN cookies'[x] /\ z \in Scopes
          /\ w \in DOMAIN cookies'[x][y][z]
      BY <2>5 DEF Has
    <3>2. CASE x # d
      BY <2>4, <3>1, <3>2 DEF Has
    <3>3. CASE x = d /\ y # p
      BY <2>3, <2>4, <2>o, <3>1, <3>3 DEF Has
    <3>4. CASE x = d /\ y = p
      <4>1. cookies'[x][y] = left
        BY <2>3, <2>4, <3>1, <3>4
      <4>2. w \in DOMAIN left[z]
        BY <3>1, <4>1
      <4>3. w \in DOMAIN old[p][z] /\ ~(z \in scopes /\ w = n) /\ left[z][w] = old[p][z][w]
        BY <2>2, <3>1, <4>2
      <4> QED
        BY <1>1, <2>o, <3>1, <3>4, <4>1, <4>3 DEF Has
    <3> QED
      BY <3>2, <3>3, <3>4
  <2>6. ASSUME NEW x, NEW y, NEW z, NEW w, Has(cookies, x, y, z, w),
               ~(x = d /\ y = p /\ z \in scopes /\ w = n)
        PROVE  Has(cookies', x, y, z, w)
    <3>1. /\ x \in DOMAIN cookies /\ y \in DOMAIN cookies[x] /\ z \in Scopes
          /\ w \in DOMAIN cookies[x][y][z]
      BY <2>6 DEF Has
    <3>2. CASE x # d
      BY <2>4, <3>1, <3>2 DEF Has
    <3>3. CASE x = d /\ y # p
      <4>1. y \in DOMAIN paths /\ paths[y] = old[y]
        BY <2>3, <2>o, <3>1, <3>3
      <4>2. paths # EmptyMap
        BY <4>1, Empties
      <4>3. d \in DOMAIN cookies' /\ cookies'[d] = paths
        BY <1>1, <2>4, <4>2
      <4> QED
        BY <2>o, <3>1, <3>3, <4>1, <4>3 DEF Has
    <3>4. CASE x = d /\ y = p
      <4>1. w \in DOMAIN left[z]
        BY <2>2, <2>o, <2>6, <3>1, <3>4
      <4>2. left # EmptyScopes
        BY <3>1, <4>1, Empties
      <4>3. p \in DOMAIN paths /\ paths[p] = left
        BY <2>3, <2>o, <3>1, <3>4, <4>2
      <4>4. paths # EmptyMap
        BY <4>3, Empties
      <4>5. d \in DOMAIN cookies' /\ cookies'[d] = paths
        BY <1>1, <2>4, <4>4
      <4> QED
        BY <3>1, <3>4, <4>1, <4>3, <4>5 DEF Has
    <3> QED
      BY <3>2, <3>3, <3>4
  <2>7. MapsOK'
    <3> SUFFICES ASSUME NEW x \in DOMAIN cookies'
                 PROVE  /\ cookies'[x] # EmptyMap
                        /\ \A y \in DOMAIN cookies'[x] :
                              cookies'[x][y] # EmptyScopes /\ DOMAIN cookies'[x][y] = Scopes
      BY DEF MapsOK
    <3>1. CASE x # d
      BY <2>4, <3>1 DEF MapsOK
    <3>2. CASE x = d
      <4>1. cookies'[x] = paths /\ paths # EmptyMap
        BY <2>4, <3>2
      <4>2. ASSUME NEW y \in DOMAIN paths PROVE paths[y] # EmptyScopes /\ DOMAIN paths[y] = Scopes
        <5>1. CASE y = p
          BY <2>2, <2>3, <5>1
        <5>2. CASE y # p
          BY <1>1, <2>3, <2>o, <5>2 DEF MapsOK
        <5> QED
          BY <5>1, <5>2
      <4> QED
        BY <4>1, <4>2
    <3> QED
      BY <3>1, <3>2
  <2> QED
    BY <2>5, <2>6, <2>7
<1> QED
  BY <1>0, <1>1
-----------------------------------------------------------------------------
(* The same, as what happens to the set of cookies.                        *)

\* Where cookies are after a step.
LEMMA StoredThen ==
    \A c : c \in Stored' <=> \E d, p, s, n : Has(cookies', d, p, s, n) /\ c = Place(d, p, s, n)
<1>1. (\A c : c \in Stored <=> \E d, p, s, n : Has(cookies, d, p, s, n) /\ c = Place(d, p, s, n))'
  BY StoredHas, PTL
<1> QED
  BY <1>1

\* The cookies after an insertion.
LEMMA InsertedCookies ==
    ASSUME MapsOK, NEW d, NEW p, NEW s \in Scopes, NEW n, NEW e,
           cookies' = Inserted(d, p, s, n, e)
    PROVE  /\ Stored' = Stored \cup {Place(d, p, s, n)}
           /\ EntryAt(Place(d, p, s, n))' = e
           /\ \A c \in Stored : c # Place(d, p, s, n) => EntryAt(c)' = EntryAt(c)
           /\ MapsOK'
<1>1. /\ \A x, y, z, w :
             Has(cookies', x, y, z, w) <=>
                 Has(cookies, x, y, z, w) \/ (x = d /\ y = p /\ z = s /\ w = n)
      /\ cookies'[d][p][s][n] = e
      /\ \A x, y, z, w : Has(cookies, x, y, z, w) /\ ~(x = d /\ y = p /\ z = s /\ w = n) =>
             cookies'[x][y][z][w] = cookies[x][y][z][w]
      /\ MapsOK'
  BY InsertedMaps
<1>2. Stored' = Stored \cup {Place(d, p, s, n)}
  <2>1. ASSUME NEW c \in Stored' PROVE c \in Stored \cup {Place(d, p, s, n)}
    <3>1. PICK x, y, z, w : Has(cookies', x, y, z, w) /\ c = Place(x, y, z, w)
      BY StoredThen
    <3> QED
      BY <1>1, <3>1, StoredHas
  <2>2. ASSUME NEW c \in Stored PROVE c \in Stored'
    <3>1. PICK x, y, z, w : Has(cookies, x, y, z, w) /\ c = Place(x, y, z, w)
      BY StoredHas
    <3> QED
      BY <1>1, <3>1, StoredThen
  <2>3. Place(d, p, s, n) \in Stored'
    BY <1>1, StoredThen
  <2> QED
    BY <2>1, <2>2, <2>3
<1>3. EntryAt(Place(d, p, s, n))' = e
  BY <1>1 DEF EntryAt, Place
<1>4. ASSUME NEW c \in Stored, c # Place(d, p, s, n) PROVE EntryAt(c)' = EntryAt(c)
  <2>1. PICK x, y, z, w : Has(cookies, x, y, z, w) /\ c = Place(x, y, z, w)
    BY StoredHas
  <2>2. ~(x = d /\ y = p /\ z = s /\ w = n)
    BY <1>4, <2>1
  <2>3. cookies'[x][y][z][w] = cookies[x][y][z][w]
    BY <1>1, <2>1, <2>2
  <2> QED
    BY <2>1, <2>3 DEF EntryAt, Place
<1> QED
  BY <1>1, <1>2, <1>3, <1>4

\* The cookies after a removal.
LEMMA RemovedCookies ==
    ASSUME MapsOK, NEW d, NEW p, NEW n, NEW scopes,
           cookies' = Removed(d, p, n, scopes)
    PROVE  /\ Stored' = {c \in Stored : ~(c.domain = d /\ c.path = p /\ c.scope \in scopes /\ c.name = n)}
           /\ \A c \in Stored' : EntryAt(c)' = EntryAt(c)
           /\ MapsOK'
<1>1. /\ \A x, y, z, w :
             Has(cookies', x, y, z, w) <=>
                 Has(cookies, x, y, z, w) /\ ~(x = d /\ y = p /\ z \in scopes /\ w = n)
      /\ \A x, y, z, w : Has(cookies', x, y, z, w) => cookies'[x][y][z][w] = cookies[x][y][z][w]
      /\ MapsOK'
  BY RemovedMaps
<1>2. ASSUME NEW c \in Stored'
      PROVE  /\ c \in Stored /\ ~(c.domain = d /\ c.path = p /\ c.scope \in scopes /\ c.name = n)
             /\ EntryAt(c)' = EntryAt(c)
  <2>1. PICK x, y, z, w : Has(cookies', x, y, z, w) /\ c = Place(x, y, z, w)
    BY StoredThen
  <2>2. /\ Has(cookies, x, y, z, w) /\ ~(x = d /\ y = p /\ z \in scopes /\ w = n)
        /\ cookies'[x][y][z][w] = cookies[x][y][z][w]
    BY <1>1, <2>1
  <2>3. c.domain = x /\ c.path = y /\ c.scope = z /\ c.name = w
    BY <2>1 DEF Place
  <2> QED
    BY <2>1, <2>2, <2>3, StoredHas DEF EntryAt
<1>3. ASSUME NEW c \in Stored, ~(c.domain = d /\ c.path = p /\ c.scope \in scopes /\ c.name = n)
      PROVE  c \in Stored'
  <2>1. PICK x, y, z, w : Has(cookies, x, y, z, w) /\ c = Place(x, y, z, w)
    BY StoredHas
  <2>2. c.domain = x /\ c.path = y /\ c.scope = z /\ c.name = w
    BY <2>1 DEF Place
  <2>3. Has(cookies', x, y, z, w)
    BY <1>1, <1>3, <2>1, <2>2
  <2> QED
    BY <2>1, <2>3, StoredThen
<1> QED
  BY <1>1, <1>2, <1>3

\* The place in the order of creation that a cookie gets when it is stored.
LEMMA IndexChosen ==
    ASSUME NEW d, NEW p, NEW s \in Scopes, NEW n, NEW v
    PROVE  IndexFor(d, p, s, n, v) =
             IF Place(d, p, s, n) \in Stored /\ EntryAt(Place(d, p, s, n)).value = v
             THEN EntryAt(Place(d, p, s, n)).index ELSE nextIndex
<1> DEFINE names == At(At(cookies, d, EmptyMap), p, EmptyScopes)[s]
<1>1. n \in DOMAIN names <=> Has(cookies, d, p, s, n)
  BY Empties DEF At, Has
<1>2. Has(cookies, d, p, s, n) => names = cookies[d][p][s]
  BY DEF At, Has
<1>3. Place(d, p, s, n) \in Stored <=> Has(cookies, d, p, s, n)
  BY StoredHas, SamePlace
<1>4. EntryAt(Place(d, p, s, n)) = cookies[d][p][s][n]
  BY DEF EntryAt, Place
<1>5. IndexFor(d, p, s, n, v) =
        IF n \in DOMAIN names /\ names[n].value = v THEN names[n].index ELSE nextIndex
  BY DEF IndexFor
<1> HIDE DEF names
<1> QED
  BY <1>1, <1>2, <1>3, <1>4, <1>5
-----------------------------------------------------------------------------
(* Paths, domains and the order of cookies.                                *)

\* A prefix agrees with the sequence as far as it goes.
LEMMA Prefixed ==
    ASSUME NEW s \in Seq(STRING), NEW t \in Seq(STRING)
    PROVE  IsPrefix(s, t) <=> Len(s) <= Len(t) /\ \A i \in 1..Len(s) : s[i] = t[i]
<1>1. Len(s) \in Nat /\ Len(t) \in Nat
  BY LenProperties
<1>2. SubSeq(s, 1, Len(s)) = s /\ s = [i \in 1..Len(s) |-> s[i]]
  BY SubSeqFull, LenProperties
<1>3. ASSUME Len(s) <= Len(t)
      PROVE  /\ Len(SubSeq(t, 1, Len(s))) = Len(s) /\ SubSeq(t, 1, Len(s)) \in Seq(STRING)
             /\ \A i \in 1..Len(s) : SubSeq(t, 1, Len(s))[i] = t[i]
  BY <1>1, <1>3, SubSeqProperties
<1>4. ASSUME Len(s) <= Len(t), \A i \in 1..Len(s) : s[i] = t[i]
      PROVE  s = SubSeq(t, 1, Len(s))
  <2>1. SubSeq(t, 1, Len(s)) = [i \in 1..Len(s) |-> SubSeq(t, 1, Len(s))[i]]
    BY <1>3, <1>4, LenProperties
  <2> QED
    BY <1>2, <1>3, <1>4, <2>1
<1> QED
  BY <1>1, <1>2, <1>3, <1>4 DEF IsPrefix

\* What the reversal of a host is.
LEMMA Reversed ==
    ASSUME NEW h, IsHost(h)
    PROVE  Reverse(h) \in Seq(STRING) /\ Len(Reverse(h)) = Len(h)
<1>1. Len(h) \in Nat /\ \A i \in 1..Len(h) : h[i] \in STRING
  BY LenProperties, ElementOfSeq DEF IsHost
<1>2. \A i \in 1..Len(h) : (Len(h) - i) + 1 \in 1..Len(h)
  BY <1>1
<1>3. Reverse(h) = [i \in 1..Len(h) |-> h[(Len(h) - i) + 1]]
  BY DEF Reverse
<1>4. Reverse(h) \in [1..Len(h) -> STRING]
  BY <1>1, <1>2, <1>3
<1> QED
  BY <1>1, <1>4, IsASeq

\* A host is its own suffix, and of two suffixes of a host one is the other's.
LEMMA SuffixFacts ==
    ASSUME NEW h, NEW x, NEW y, IsHost(h), IsHost(x), IsHost(y)
    PROVE  /\ IsSuffix(x, x)
           /\ IsSuffix(x, h) /\ IsSuffix(y, h) => IsSuffix(x, y) \/ IsSuffix(y, x)
<1>1. /\ Reverse(h) \in Seq(STRING) /\ Reverse(x) \in Seq(STRING) /\ Reverse(y) \in Seq(STRING)
  BY Reversed
<1>2. PICK a, b, c : a = Reverse(h) /\ b = Reverse(x) /\ c = Reverse(y)
  OBVIOUS
<1>3. a \in Seq(STRING) /\ b \in Seq(STRING) /\ c \in Seq(STRING)
  BY <1>1, <1>2
<1>4. Len(a) \in Nat /\ Len(b) \in Nat /\ Len(c) \in Nat
  BY <1>3, LenProperties
<1>5. IsPrefix(b, b)
  BY <1>3, <1>4, Prefixed
<1>6. ASSUME IsPrefix(b, a), IsPrefix(c, a) PROVE IsPrefix(b, c) \/ IsPrefix(c, b)
  <2>1. /\ Len(b) <= Len(a) /\ \A i \in 1..Len(b) : b[i] = a[i]
        /\ Len(c) <= Len(a) /\ \A i \in 1..Len(c) : c[i] = a[i]
    BY <1>3, <1>6, Prefixed
  <2>2. CASE Len(b) <= Len(c)
    <3>1. \A i \in 1..Len(b) : i \in 1..Len(c)
      BY <1>4, <2>2
    <3>2. \A i \in 1..Len(b) : b[i] = c[i]
      BY <2>1, <3>1
    <3> QED
      BY <1>3, <2>2, <3>2, Prefixed
  <2>3. CASE Len(c) <= Len(b)
    <3>1. \A i \in 1..Len(c) : i \in 1..Len(b)
      BY <1>4, <2>3
    <3>2. \A i \in 1..Len(c) : c[i] = b[i]
      BY <2>1, <3>1
    <3> QED
      BY <1>3, <2>3, <3>2, Prefixed
  <2> QED
    BY <1>4, <2>2, <2>3
<1> QED
  BY <1>2, <1>5, <1>6 DEF IsSuffix

\* Domains that match one host match one another, one way or the other.
LEMMA DomainsComparable ==
    ASSUME NEW h, NEW x, NEW y, IsHost(h), IsHost(x), IsHost(y),
           DomainMatch(h, x), DomainMatch(h, y)
    PROVE  DomainMatch(x, y) \/ DomainMatch(y, x)
<1>1. IsSuffix(x, h) /\ IsSuffix(y, h) => IsSuffix(x, y) \/ IsSuffix(y, x)
  BY SuffixFacts
<1>2. CASE h = x \/ h = y
  BY <1>2
<1>3. CASE h # x /\ h # y
  BY <1>1, <1>3 DEF DomainMatch
<1> QED
  BY <1>2, <1>3

\* A path without its last segment.
LEMMA Fronts ==
    ASSUME NEW p, IsPath(p)
    PROVE  /\ Len(p) \in Nat \ {0}
           /\ Front(p) \in Seq(STRING) /\ Len(Front(p)) = Len(p) - 1
           /\ \A i \in 1..(Len(p) - 1) : Front(p)[i] = p[i]
<1>1. p \in Seq(STRING) /\ p # <<>> /\ Len(p) \in Nat
  BY LenProperties DEF IsPath
<1>2. Len(p) # 0
  BY <1>1, EmptySeq
<1>3. Len(p) - 1 \in Nat /\ Len(p) - 1 <= Len(p)
  BY <1>1, <1>2
<1>4. PICK n \in Nat : n = Len(p) - 1
  BY <1>3
<1>5. \A i \in 1..n : p[i] \in STRING
  BY <1>1, <1>3, <1>4, ElementOfSeq
<1>6. /\ SubSeq(p, 1, n) \in Seq(STRING) /\ Len(SubSeq(p, 1, n)) = IF 1 <= n THEN (n - 1) + 1 ELSE 0
      /\ \A i \in 1..((n - 1) + 1) : SubSeq(p, 1, n)[i] = p[(1 + i) - 1]
  BY <1>5, SubSeqProperties
<1>7. Len(SubSeq(p, 1, n)) = n /\ \A i \in 1..n : SubSeq(p, 1, n)[i] = p[i]
  <2>1. (n - 1) + 1 = n /\ (~(1 <= n) => n = 0)
    OBVIOUS
  <2>2. \A i \in 1..n : (1 + i) - 1 = i
    OBVIOUS
  <2> QED
    BY <1>6, <2>1, <2>2
<1> QED
  BY <1>1, <1>2, <1>4, <1>6, <1>7 DEF Front

\* The matching of paths, segment by segment.
LEMMA PathsMatch ==
    ASSUME NEW p, NEW q, IsPath(p), IsPath(q)
    PROVE  /\ Last(q) = "" =>
                (PathMatch(p, q) <=>
                   p = q \/ (Len(q) <= Len(p) /\ \A i \in 1..(Len(q) - 1) : q[i] = p[i]))
           /\ Last(q) # "" =>
                (PathMatch(p, q) <=>
                   p = q \/ (Len(q) <= Len(p) /\ \A i \in 1..Len(q) : q[i] = p[i]))
<1>1. /\ Len(q) \in Nat \ {0} /\ Len(p) \in Nat \ {0}
      /\ Front(q) \in Seq(STRING) /\ Len(Front(q)) = Len(q) - 1
      /\ \A i \in 1..(Len(q) - 1) : Front(q)[i] = q[i]
  BY Fronts
<1>2. IsPrefix(q, p) <=> Len(q) <= Len(p) /\ \A i \in 1..Len(q) : q[i] = p[i]
  BY Prefixed DEF IsPath
<1>3. IsPrefix(Front(q), p) <=> Len(q) - 1 <= Len(p) /\ \A i \in 1..(Len(q) - 1) : Front(q)[i] = p[i]
  BY <1>1, Prefixed DEF IsPath
<1>4. IsPrefix(Front(q), p) /\ Len(p) >= Len(q) <=> Len(q) <= Len(p) /\ \A i \in 1..(Len(q) - 1) : q[i] = p[i]
  BY <1>1, <1>3
<1> QED
  BY <1>2, <1>4 DEF PathMatch

\* The length of a path in characters tells how many segments it has, and which of
\* two paths with as many segments ends in a slash.
LEMMA PathLengths ==
    ASSUME NEW p, IsPath(p)
    PROVE  /\ PathLen(p) \in Nat
           /\ Last(p) = "" => PathLen(p) = 2 * Len(p) - 1
           /\ Last(p) # "" => PathLen(p) = 2 * Len(p)
<1>1. Len(p) \in Nat \ {0}
  BY Fronts
<1>2. 2 * Len(p) \in Nat /\ 2 * Len(p) - 1 \in Nat
  BY <1>1
<1> QED
  BY <1>2 DEF PathLen

\* Of two paths that match a request, the one that the other does not match is the
\* longer one, and its cookie is sent first.
LEMMA PathsOrdered ==
    ASSUME NEW u, NEW a, NEW c, IsPath(u), IsPath(a), IsPath(c),
           PathMatch(u, a), PathMatch(u, c), ~PathMatch(a, c)
    PROVE  PathLen(c) > PathLen(a)
<1>1. Len(u) \in Nat \ {0} /\ Len(a) \in Nat \ {0} /\ Len(c) \in Nat \ {0}
  BY Fronts
<1>2. /\ PathLen(a) \in Nat /\ PathLen(c) \in Nat
      /\ Last(a) = "" => PathLen(a) = 2 * Len(a) - 1
      /\ Last(a) # "" => PathLen(a) = 2 * Len(a)
      /\ Last(c) = "" => PathLen(c) = 2 * Len(c) - 1
      /\ Last(c) # "" => PathLen(c) = 2 * Len(c)
  BY PathLengths
<1>3. PICK l, m, k, pa, pc : /\ l = Len(u) /\ m = Len(a) /\ k = Len(c)
                             /\ pa = PathLen(a) /\ pc = PathLen(c)
  OBVIOUS
<1>4. l \in Nat \ {0} /\ m \in Nat \ {0} /\ k \in Nat \ {0} /\ pa \in Nat /\ pc \in Nat
  BY <1>1, <1>2, <1>3
<1>5. a # u
  OBVIOUS
<1>6. a # c
  BY DEF PathMatch
<1>7. /\ m <= l /\ \A i \in 1..(m - 1) : a[i] = u[i]
      /\ Last(a) # "" => \A i \in 1..m : a[i] = u[i]
  <2>1. CASE Last(a) = ""
    BY <1>3, <1>5, <2>1, PathsMatch
  <2>2. CASE Last(a) # ""
    <3>1. m <= l /\ \A i \in 1..m : a[i] = u[i]
      BY <1>3, <1>5, <2>2, PathsMatch
    <3>2. \A i \in 1..(m - 1) : i \in 1..m
      BY <1>4
    <3> QED
      BY <2>2, <3>1, <3>2
  <2> QED
    BY <2>1, <2>2
<1>8. /\ k <= l /\ \A i \in 1..(k - 1) : c[i] = u[i]
      /\ Last(c) # "" => \A i \in 1..k : c[i] = u[i]
  <2>0. CASE u = c
    BY <1>3, <1>4, <2>0
  <2>1. CASE u # c /\ Last(c) = ""
    BY <1>3, <2>1, PathsMatch
  <2>2. CASE u # c /\ Last(c) # ""
    <3>1. k <= l /\ \A i \in 1..k : c[i] = u[i]
      BY <1>3, <2>2, PathsMatch
    <3>2. \A i \in 1..(k - 1) : i \in 1..k
      BY <1>4
    <3> QED
      BY <2>2, <3>1, <3>2
  <2> QED
    BY <2>0, <2>1, <2>2
<1>9. CASE Last(c) = ""
  <2>1. ~(k <= m /\ \A i \in 1..(k - 1) : c[i] = a[i])
    BY <1>3, <1>9, PathsMatch
  <2>2. ASSUME k <= m PROVE FALSE
    <3>1. \A i \in 1..(k - 1) : i \in 1..(m - 1)
      BY <1>4, <2>2
    <3>2. \A i \in 1..(k - 1) : c[i] = a[i]
      BY <1>7, <1>8, <3>1
    <3> QED
      BY <2>1, <2>2, <3>2
  <2>3. m + 1 <= k
    BY <1>4, <2>2
  <2>4. pc = 2 * k - 1
    BY <1>2, <1>3, <1>9
  <2>5. pa = 2 * m - 1 \/ pa = 2 * m
    BY <1>2, <1>3
  <2>6. pc > pa
    BY <1>4, <2>3, <2>4, <2>5
  <2> QED
    BY <1>3, <2>6
<1>10. CASE Last(c) # ""
  <2>1. ~(k <= m /\ \A i \in 1..k : c[i] = a[i])
    BY <1>3, <1>10, PathsMatch
  <2>2. pc = 2 * k
    BY <1>2, <1>3, <1>10
  <2>3. CASE Last(a) # ""
    <3>1. ASSUME k <= m PROVE FALSE
      <4>1. \A i \in 1..k : i \in 1..m
        BY <1>4, <3>1
      <4>2. \A i \in 1..k : c[i] = a[i]
        BY <1>7, <1>8, <1>10, <2>3, <4>1
      <4> QED
        BY <2>1, <3>1, <4>2
    <3>2. m + 1 <= k
      BY <1>4, <3>1
    <3>3. pa = 2 * m
      BY <1>2, <1>3, <2>3
    <3>4. pc > pa
      BY <1>4, <2>2, <3>2, <3>3
    <3> QED
      BY <1>3, <3>4
  <2>4. CASE Last(a) = ""
    <3>1. ASSUME k <= m - 1 PROVE FALSE
      <4>1. k <= m /\ \A i \in 1..k : i \in 1..(m - 1)
        BY <1>4, <3>1
      <4>2. \A i \in 1..k : c[i] = a[i]
        BY <1>7, <1>8, <1>10, <4>1
      <4> QED
        BY <2>1, <4>1, <4>2
    <3>2. m <= k
      BY <1>4, <3>1
    <3>3. pa = 2 * m - 1
      BY <1>2, <1>3, <2>4
    <3>4. pc > pa
      BY <1>4, <2>2, <3>2, <3>3
    <3> QED
      BY <1>3, <3>4
  <2> QED
    BY <2>3, <2>4
<1> QED
  BY <1>9, <1>10

\* The elements of a set that come before one of them.
Below(S, R, c) == {d \in S : <<d, c>> \in R}

\* In a finite set with a strict order that is total, every element is at a place of
\* its own, and every place is taken.
LEMMA Ranked ==
    ASSUME NEW S, IsFiniteSet(S), NEW R,
           \A c \in S : <<c, c>> \notin R,
           \A c, d, e \in S : <<c, d>> \in R /\ <<d, e>> \in R => <<c, e>> \in R,
           \A c, d \in S : c = d \/ <<c, d>> \in R \/ <<d, c>> \in R
    PROVE  /\ Cardinality(S) \in Nat
           /\ \A i \in 1..Cardinality(S) : \E c \in S : Cardinality(Below(S, R, c)) = i - 1
           /\ \A c \in S : \E i \in 1..Cardinality(S) : Cardinality(Below(S, R, c)) = i - 1
           /\ \A c, e \in S : Cardinality(Below(S, R, c)) = Cardinality(Below(S, R, e)) => c = e
<1> DEFINE B(c) == {d \in S : <<d, c>> \in R}
<1>1. PICK n : n = Cardinality(S)
  OBVIOUS
<1>2. n \in Nat
  BY <1>1, FS_CardinalityType
<1>3. ASSUME NEW c \in S
      PROVE  IsFiniteSet(B(c)) /\ Cardinality(B(c)) \in Nat /\ Cardinality(B(c)) + 1 \in 1..n
  <2>1. B(c) \subseteq S \ {c}
    OBVIOUS
  <2>2. IsFiniteSet(S \ {c}) /\ Cardinality(S \ {c}) = n - 1
    BY <1>1, FS_RemoveElement
  <2> HIDE DEF B
  <2>3. B(c) \in SUBSET (S \ {c})
    BY <2>1
  <2>4. IsFiniteSet(B(c)) /\ Cardinality(B(c)) <= n - 1
    BY <2>2, <2>3, FS_Subset
  <2>5. Cardinality(B(c)) \in Nat
    BY <2>4, FS_CardinalityType
  <2> QED
    BY <1>2, <2>4, <2>5
<1>4. ASSUME NEW c \in S, NEW e \in S, <<c, e>> \in R
      PROVE  Cardinality(B(c)) # Cardinality(B(e))
  <2>1. B(c) \subseteq B(e) /\ c \in B(e) /\ c \notin B(c)
    BY <1>4
  <2>2. IsFiniteSet(B(e))
    BY <1>3
  <2> HIDE DEF B
  <2>3. B(c) \in SUBSET B(e)
    BY <2>1
  <2> QED
    BY <2>1, <2>2, <2>3, FS_Subset
<1>5. ASSUME NEW c \in S, NEW e \in S, Cardinality(B(c)) = Cardinality(B(e)) PROVE c = e
  <2> HIDE DEF B
  <2> QED
    BY <1>4, <1>5
<1> HIDE DEF B
<1> DEFINE f == [c \in S |-> Cardinality(B(c)) + 1]
<1>6. f \in [S -> 1..n]
  BY <1>3
<1>7. \A c, e \in S : f[c] = f[e] => c = e
  BY <1>3, <1>5
<1>8. f \in Injection(S, 1..n)
  BY <1>6, <1>7 DEF Injection, IsInjective
<1>9. IsFiniteSet(1..n) /\ Cardinality(1..n) = n
  BY <1>2, FS_Interval
<1> HIDE DEF f
<1>10. f \in Surjection(S, 1..n)
  BY <1>1, <1>8, <1>9, FS_Injection
<1>11. \A i \in 1..n : \E c \in S : f[c] = i
  BY <1>10 DEF Surjection
<1>12. ASSUME NEW i \in 1..n PROVE \E c \in S : Cardinality(B(c)) = i - 1
  <2>1. PICK c \in S : f[c] = i
    BY <1>11
  <2>2. Cardinality(B(c)) + 1 = i
    BY <2>1 DEF f
  <2> QED
    BY <1>3, <2>2
<1>13. ASSUME NEW c \in S PROVE \E i \in 1..n : Cardinality(B(c)) = i - 1
  <2>1. Cardinality(B(c)) + 1 \in 1..n /\ Cardinality(B(c)) = (Cardinality(B(c)) + 1) - 1
    BY <1>3
  <2> QED
    BY <2>1
<1> QED
  BY <1>1, <1>2, <1>5, <1>12, <1>13 DEF B, Below
-----------------------------------------------------------------------------
(* The inductive invariant: what a cookie about to be stored and a stored  *)
(* cookie owe to their origin, the bound on the order of creation, and     *)
(* that no two cookies share a place in it.                                *)

\* The setter of a cookie is the host it is for, or in the domain it is for.
SetterOK(scope, domain, setter) ==
    /\ IsHost(setter)
    /\ IF scope = "host_only" THEN setter = domain ELSE DomainMatch(setter, domain)

DeadlineOK(expires) == expires = None \/ expires \in Nat

AddOK(a, time) ==
    /\ Place(a.domain, a.path, a.scope, a.name) \in Places
    /\ IsPath(a.path)
    /\ DeadlineOK(a.expires)
    /\ a.seen \in Nat /\ a.seen <= time
    /\ SetterOK(a.scope, a.domain, a.origin.host)

CookieOK(c, e, next) ==
    /\ c \in Places
    /\ IsPath(c.path)
    /\ DeadlineOK(e.expires)
    /\ e.index \in Nat /\ e.index < next
    /\ SetterOK(c.scope, c.domain, e.setter)

CookiesOK ==
    /\ IsFiniteSet(Stored)
    /\ \A c \in Stored : CookieOK(c, EntryAt(c), nextIndex)
    /\ \A c, d \in Stored : EntryAt(c).index = EntryAt(d).index => c = d

\* Responses between the two steps of Jar::add.
Pending == {t \in Threads : adding[t] # None}

AddingOK ==
    /\ adding = [t \in Threads |-> adding[t]]
    /\ \A t \in Threads : adding[t] # None => AddOK(adding[t], now)

CountOK ==
    /\ now \in 0..MaxTime
    /\ nextIndex \in Nat
    /\ adds \in 0..MaxAdds
    /\ IsFiniteSet(Pending)
    /\ nextIndex + Cardinality(Pending) <= adds

JarSafe == MapsOK /\ CookiesOK /\ AddingOK /\ CountOK

\* A place is its four fields.
LEMMA PlaceFields ==
    ASSUME NEW c \in Places
    PROVE  c = Place(c.domain, c.path, c.scope, c.name) /\ c.scope \in Scopes
  BY DEF Places, Place

\* An insertion keeps what is known of the stored cookies.
LEMMA InsertKeeps ==
    ASSUME MapsOK, CookiesOK, nextIndex \in Nat,
           NEW d, NEW p, NEW s, NEW n, NEW e,
           Place(d, p, s, n) \in Places, IsPath(p), DeadlineOK(e.expires),
           SetterOK(s, d, e.setter), e.index = IndexFor(d, p, s, n, e.value),
           cookies' = Inserted(d, p, s, n, e),
           nextIndex' = IF e.index = nextIndex THEN nextIndex + 1 ELSE nextIndex
    PROVE  CookiesOK' /\ MapsOK'
<1>0. s \in Scopes
  BY DEF Place, Places
<1>1. PICK c0 : c0 = Place(d, p, s, n)
  OBVIOUS
<1>2. /\ Stored' = Stored \cup {c0} /\ EntryAt(c0)' = e
      /\ \A c \in Stored : c # c0 => EntryAt(c)' = EntryAt(c)
      /\ MapsOK'
  BY <1>0, <1>1, InsertedCookies
<1>3. e.index = IF c0 \in Stored /\ EntryAt(c0).value = e.value THEN EntryAt(c0).index ELSE nextIndex
  BY <1>0, <1>1, IndexChosen
<1>4. /\ IsFiniteSet(Stored)
      /\ \A c \in Stored : CookieOK(c, EntryAt(c), nextIndex)
      /\ \A c, x \in Stored : EntryAt(c).index = EntryAt(x).index => c = x
  BY DEF CookiesOK
<1>5. \A c \in Stored : EntryAt(c).index \in Nat /\ EntryAt(c).index < nextIndex
  BY <1>4 DEF CookieOK
<1>6. /\ e.index \in Nat /\ nextIndex' \in Nat /\ e.index < nextIndex' /\ nextIndex <= nextIndex'
  <2>1. CASE c0 \in Stored /\ EntryAt(c0).value = e.value
    <3>1. e.index \in Nat /\ e.index < nextIndex
      BY <1>3, <1>5, <2>1
    <3>2. nextIndex' = nextIndex
      BY <3>1
    <3> QED
      BY <3>1, <3>2
  <2>2. CASE ~(c0 \in Stored /\ EntryAt(c0).value = e.value)
    <3>1. e.index = nextIndex
      BY <1>3, <2>2
    <3>2. nextIndex' = nextIndex + 1
      BY <3>1
    <3> QED
      BY <3>1, <3>2
  <2> QED
    BY <2>1, <2>2
<1>7. \A c \in Stored : c # c0 => EntryAt(c).index # e.index
  <2> SUFFICES ASSUME NEW c \in Stored, c # c0, EntryAt(c).index = e.index PROVE FALSE
    OBVIOUS
  <2>1. CASE c0 \in Stored /\ EntryAt(c0).value = e.value
    BY <1>3, <1>4, <2>1
  <2>2. CASE ~(c0 \in Stored /\ EntryAt(c0).value = e.value)
    <3>1. EntryAt(c).index = nextIndex
      BY <1>3, <2>2
    <3> QED
      BY <1>5, <3>1
  <2> QED
    BY <2>1, <2>2
<1>8. IsFiniteSet(Stored')
  BY <1>2, <1>4, FS_AddElement
<1>9. c0.domain = d /\ c0.path = p /\ c0.scope = s /\ c0.name = n /\ c0 \in Places
  BY <1>1 DEF Place
<1>10. ASSUME NEW c \in Stored' PROVE CookieOK(c, EntryAt(c)', nextIndex')
  <2>1. CASE c = c0
    BY <1>2, <1>6, <1>9, <2>1 DEF CookieOK
  <2>2. CASE c # c0
    <3>1. c \in Stored /\ EntryAt(c)' = EntryAt(c)
      BY <1>2, <2>2
    <3>2. CookieOK(c, EntryAt(c), nextIndex)
      BY <1>4, <3>1
    <3>3. EntryAt(c).index < nextIndex'
      BY <1>5, <1>6, <3>1
    <3> QED
      BY <3>1, <3>2, <3>3 DEF CookieOK
  <2> QED
    BY <2>1, <2>2
<1>11. ASSUME NEW c \in Stored', NEW x \in Stored', EntryAt(c)'.index = EntryAt(x)'.index
       PROVE  c = x
  <2>1. CASE c = c0 /\ x = c0
    BY <2>1
  <2>2. CASE c = c0 /\ x # c0
    BY <1>2, <1>7, <1>11, <2>2
  <2>3. CASE c # c0 /\ x = c0
    BY <1>2, <1>7, <1>11, <2>3
  <2>4. CASE c # c0 /\ x # c0
    BY <1>2, <1>4, <1>11, <2>4
  <2> QED
    BY <2>1, <2>2, <2>3, <2>4
<1> QED
  BY <1>2, <1>8, <1>10, <1>11 DEF CookiesOK

\* Fewer cookies with the same entries keep it too.
LEMMA FewerKeep ==
    ASSUME CookiesOK, nextIndex' = nextIndex, Stored' \subseteq Stored,
           \A c \in Stored' : EntryAt(c)' = EntryAt(c)
    PROVE  CookiesOK'
<1>1. IsFiniteSet(Stored')
  BY FS_Subset DEF CookiesOK
<1>2. \A c \in Stored' : CookieOK(c, EntryAt(c)', nextIndex')
  BY DEF CookiesOK
<1>3. \A c, d \in Stored' : EntryAt(c)'.index = EntryAt(d)'.index => c = d
  BY DEF CookiesOK
<1> QED
  BY <1>1, <1>2, <1>3 DEF CookiesOK

\* A cookie that is accepted can be stored where its setter may set cookies.
LEMMA PrepareKeeps ==
    ASSUME NEW o \in Offers, Acceptable(o), now \in Nat
    PROVE  AddOK([ domain |-> CookieDomain(o), path |-> CookiePath(o),
                   scope |-> Scope(o.domain = None), name |-> o.name, value |-> o.value,
                   secure |-> o.secure, origin |-> o.uri, seen |-> now,
                   expires |-> Deadline(o),
                   expired |-> Deadline(o) # None /\ Deadline(o) <= now ], now)
<1>1. /\ IsHost(o.uri.host) /\ IsPath(o.uri.path) /\ o.name \in Names
      /\ o.domain # None => IsHost(o.domain)
      /\ o.path # None => IsPath(o.path)
      /\ o.maxAge # None => o.maxAge \in Nat
      /\ o.expires # None => o.expires \in Nat
  BY JarAssumption
<1>2. IsPath(CookiePath(o))
  <2>1. CASE o.path # None
    BY <1>1, <2>1 DEF CookiePath
  <2>2. CASE o.path = None
    <3>1. IsPath(Root)
      BY JarAssumption
    <3>2. /\ Len(o.uri.path) \in Nat \ {0} /\ Front(o.uri.path) \in Seq(STRING)
          /\ Len(Front(o.uri.path)) = Len(o.uri.path) - 1
      BY <1>1, Fronts
    <3>3. Len(o.uri.path) # 1 => IsPath(Front(o.uri.path))
      <4>1. Len(o.uri.path) # 1 => Len(Front(o.uri.path)) # 0
        BY <3>2
      <4>2. Len(<<>>) = 0
        OBVIOUS
      <4> QED
        BY <3>2, <4>1, <4>2 DEF IsPath
    <3> QED
      BY <2>2, <3>1, <3>3 DEF CookiePath, NormalizePath
  <2> QED
    BY <2>1, <2>2
<1>3. /\ IsHost(CookieDomain(o))
      /\ SetterOK(Scope(o.domain = None), CookieDomain(o), o.uri.host)
  <2>1. CASE o.domain = None
    BY <1>1, <2>1 DEF CookieDomain, SetterOK, Scope
  <2>2. CASE o.domain # None
    <3>1. CookieDomain(o) = o.domain /\ DomainMatch(o.uri.host, o.domain)
      BY <2>2 DEF CookieDomain, Acceptable
    <3>2. Scope(o.domain = None) = "domain"
      BY <2>2 DEF Scope
    <3> QED
      BY <1>1, <2>2, <3>1, <3>2 DEF SetterOK
  <2> QED
    BY <2>1, <2>2
<1>4. DeadlineOK(Deadline(o))
  <2>1. CASE o.maxAge = None
    BY <1>1, <2>1 DEF Deadline, DeadlineOK
  <2>2. CASE o.maxAge # None
    <3>1. Deadline(o) = now + o.maxAge
      BY <2>2 DEF Deadline
    <3>2. now + o.maxAge \in Nat
      BY <1>1, <2>2
    <3> QED
      BY <3>1, <3>2 DEF DeadlineOK
  <2> QED
    BY <2>1, <2>2
<1>5. Place(CookieDomain(o), CookiePath(o), Scope(o.domain = None), o.name) \in Places
  <2>1. Scope(o.domain = None) \in Scopes
    BY DEF Scope, Scopes
  <2>2. CookieDomain(o) \in Seq(STRING) /\ CookiePath(o) \in Seq(STRING)
    BY <1>2, <1>3 DEF IsHost, IsPath
  <2> QED
    BY <1>1, <2>1, <2>2 DEF Place, Places
<1>6. now <= now
  OBVIOUS
<1> QED
  BY <1>2, <1>3, <1>4, <1>5, <1>6 DEF AddOK

\* Jar::add counts a cookie before it is stored, and stores it once.
LEMMA PendingMore ==
    ASSUME NEW S, NEW T, NEW t, IsFiniteSet(S), T \subseteq S \cup {t}
    PROVE  IsFiniteSet(T) /\ Cardinality(T) \in Nat /\ Cardinality(T) <= Cardinality(S) + 1
<1>1. IsFiniteSet(S \cup {t}) /\ Cardinality(S \cup {t}) <= Cardinality(S) + 1
  <2>1. IsFiniteSet(S \cup {t}) /\ Cardinality(S) \in Nat
    BY FS_AddElement, FS_CardinalityType
  <2>2. Cardinality(S \cup {t}) = IF t \in S THEN Cardinality(S) ELSE Cardinality(S) + 1
    BY FS_AddElement
  <2> QED
    BY <2>1, <2>2
<1>2. IsFiniteSet(T) /\ Cardinality(T) <= Cardinality(S \cup {t})
  BY <1>1, FS_Subset
<1>3. PICK x, y, z : x = Cardinality(T) /\ y = Cardinality(S \cup {t}) /\ z = Cardinality(S)
  OBVIOUS
<1>4. x \in Nat /\ y \in Nat /\ z \in Nat
  BY <1>1, <1>2, <1>3, FS_CardinalityType
<1>5. x <= y /\ y <= z + 1
  BY <1>1, <1>2, <1>3
<1>6. x <= z + 1
  BY <1>4, <1>5
<1> QED
  BY <1>2, <1>3, <1>4, <1>6

\* A committed cookie is no longer pending.
LEMMA PendingFewer ==
    ASSUME NEW S, NEW T, NEW t \in S, IsFiniteSet(S), T \subseteq S \ {t}
    PROVE  /\ IsFiniteSet(T) /\ Cardinality(T) \in Nat /\ Cardinality(S) \in Nat
           /\ Cardinality(T) + 1 <= Cardinality(S)
<1>1. IsFiniteSet(S \ {t}) /\ Cardinality(S \ {t}) = Cardinality(S) - 1
  BY FS_RemoveElement
<1>2. IsFiniteSet(T) /\ Cardinality(T) <= Cardinality(S \ {t})
  BY <1>1, FS_Subset
<1>3. Cardinality(T) \in Nat /\ Cardinality(S) \in Nat
  BY <1>2, FS_CardinalityType
<1>4. Cardinality(T) <= Cardinality(S) - 1
  BY <1>1, <1>2
<1>5. Cardinality(T) + 1 <= Cardinality(S)
  BY <1>3, <1>4
<1> QED
  BY <1>2, <1>3, <1>5

\* After a commit: the thread is free, and the counters have room for what it did.
LEMMA CommitCounts ==
    ASSUME AddingOK, CountOK, NEW t \in Threads, adding[t] # None, Done(t),
           now' = now, adds' = adds, nextIndex' = nextIndex \/ nextIndex' = nextIndex + 1
    PROVE  AddingOK' /\ CountOK'
<1>1. /\ adding' = [adding EXCEPT ![t] = None]
      /\ adding = [x \in Threads |-> adding[x]]
      /\ \A x \in Threads : adding[x] # None => AddOK(adding[x], now)
  BY DEF Done, AddingOK
<1>2. DOMAIN adding = Threads
  BY <1>1
<1>3. /\ adding' = [x \in Threads |-> adding'[x]] /\ adding'[t] = None
      /\ \A x \in Threads : x # t => adding'[x] = adding[x]
  BY <1>1, <1>2
<1>4. \A x \in Threads : adding'[x] # None => AddOK(adding'[x], now')
  BY <1>1, <1>3
<1>5. PICK S, T : S = Pending /\ T = Pending'
  OBVIOUS
<1>6. t \in S /\ T \subseteq S \ {t} /\ IsFiniteSet(S)
  BY <1>3, <1>5 DEF Pending, CountOK
<1>7. /\ IsFiniteSet(T) /\ Cardinality(T) \in Nat /\ Cardinality(S) \in Nat
      /\ Cardinality(T) + 1 <= Cardinality(S)
  BY <1>6, PendingFewer
<1>8. /\ nextIndex \in Nat /\ nextIndex + Cardinality(S) <= adds /\ adds \in 0..MaxAdds
      /\ MaxAdds \in Nat
  BY <1>5, JarAssumption DEF CountOK
<1>9. nextIndex' \in Nat /\ nextIndex' + Cardinality(T) <= adds'
  <2>1. PICK x, y : x = Cardinality(S) /\ y = Cardinality(T)
    OBVIOUS
  <2>2. x \in Nat /\ y \in Nat /\ y + 1 <= x /\ nextIndex + x <= adds /\ adds \in Nat
    BY <1>7, <1>8, <2>1
  <2>3. nextIndex' \in Nat /\ nextIndex' + y <= adds
    BY <1>8, <2>2
  <2> QED
    BY <2>1, <2>3
<1>10. CountOK'
  BY <1>5, <1>7, <1>9 DEF CountOK
<1> QED
  BY <1>3, <1>4, <1>10 DEF AddingOK

\* The jar starts empty.
LEMMA JarInitSafe == JarInit => JarSafe
<1> SUFFICES ASSUME JarInit PROVE JarSafe
  OBVIOUS
<1>1. now = 0 /\ cookies = EmptyMap /\ nextIndex = 0 /\ adding = [t \in Threads |-> None] /\ adds = 0
  BY DEF JarInit
<1>2. DOMAIN cookies = {}
  BY <1>1, Empties
<1>3. Stored = {}
  BY <1>2, StoredHas DEF Has
<1>4. Pending = {}
  BY <1>1 DEF Pending
<1>5. MapsOK
  BY <1>2 DEF MapsOK
<1>6. CookiesOK
  BY <1>3, FS_EmptySet DEF CookiesOK
<1>7. AddingOK
  BY <1>1 DEF AddingOK
<1>8. Cardinality(Pending) = 0 /\ IsFiniteSet(Pending)
  BY <1>4, FS_EmptySet
<1>9. CountOK
  <2>1. 0 \in 0..MaxTime /\ 0 \in 0..MaxAdds /\ 0 + 0 <= 0
    BY JarAssumption
  <2> QED
    BY <1>1, <1>8, <2>1 DEF CountOK
<1> QED
  BY <1>5, <1>6, <1>7, <1>9 DEF JarSafe

\* Every step of Jar::add, Jar::remove, Jar::clear and the clock keeps the invariant.
LEMMA JarStepSafe == JarSafe /\ [JarNext]_jarVars => JarSafe'
<1> SUFFICES ASSUME JarSafe, [JarNext]_jarVars PROVE JarSafe'
  OBVIOUS
<1>0. MapsOK /\ CookiesOK /\ AddingOK /\ CountOK
  BY DEF JarSafe
<1>a. nextIndex \in Nat /\ now \in Nat /\ adds \in Nat /\ MaxTime \in Nat /\ MaxAdds \in Nat
  BY <1>0, JarAssumption DEF CountOK
<1>b. ASSUME cookies' = cookies, nextIndex' = nextIndex PROVE MapsOK' /\ CookiesOK'
  <2>1. Stored' = Stored
    BY <1>b DEF Stored
  <2>2. \A c : EntryAt(c)' = EntryAt(c)
    BY <1>b DEF EntryAt
  <2>3. CookiesOK'
    BY <1>0, <1>b, <2>1, <2>2, FewerKeep
  <2> QED
    BY <1>0, <1>b, <2>3 DEF MapsOK
<1>c. ASSUME adding' = adding, adds' = adds, nextIndex' = nextIndex, now' = now
      PROVE  AddingOK' /\ CountOK'
  <2>1. Pending' = Pending
    BY <1>c DEF Pending
  <2> QED
    BY <1>0, <1>c, <2>1 DEF AddingOK, CountOK
<1>1. ASSUME NEW t \in Threads, NEW o \in Offers, Prepare(t, o) PROVE JarSafe'
  <2>1. /\ adding[t] = None /\ adds < MaxAdds /\ Acceptable(o) /\ adds' = adds + 1
        /\ now' = now /\ cookies' = cookies /\ nextIndex' = nextIndex
    BY <1>1 DEF Prepare
  <2>2. PICK a : AddOK(a, now) /\ adding' = [adding EXCEPT ![t] = a]
    BY <1>1, <1>a, <2>1, PrepareKeeps DEF Prepare
  <2>3. /\ adding = [x \in Threads |-> adding[x]]
        /\ \A x \in Threads : adding[x] # None => AddOK(adding[x], now)
    BY <1>0 DEF AddingOK
  <2>4. DOMAIN adding = Threads
    BY <2>3
  <2>5. /\ adding' = [x \in Threads |-> adding'[x]] /\ adding'[t] = a
        /\ \A x \in Threads : x # t => adding'[x] = adding[x]
    BY <2>2, <2>4
  <2>6. AddingOK'
    BY <2>1, <2>2, <2>3, <2>5 DEF AddingOK
  <2>7. Pending' \subseteq Pending \cup {t}
    BY <2>5 DEF Pending
  <2>8. PICK S, T : S = Pending /\ T = Pending'
    OBVIOUS
  <2>9. IsFiniteSet(S) /\ Cardinality(S) \in Nat /\ nextIndex + Cardinality(S) <= adds
    BY <1>0, <2>8, FS_CardinalityType DEF CountOK
  <2>10. IsFiniteSet(T) /\ Cardinality(T) \in Nat /\ Cardinality(T) <= Cardinality(S) + 1
    BY <2>7, <2>8, <2>9, PendingMore
  <2>11. nextIndex' + Cardinality(T) <= adds' /\ adds' \in 0..MaxAdds
    <3>1. PICK x, y : x = Cardinality(S) /\ y = Cardinality(T)
      OBVIOUS
    <3>2. x \in Nat /\ y \in Nat /\ y <= x + 1 /\ nextIndex + x <= adds
      BY <2>9, <2>10, <3>1
    <3>3. nextIndex + y <= adds + 1 /\ adds + 1 \in 0..MaxAdds
      BY <1>a, <2>1, <3>2
    <3> QED
      BY <2>1, <3>1, <3>3
  <2>12. CountOK'
    BY <1>0, <2>1, <2>8, <2>10, <2>11 DEF CountOK
  <2> QED
    BY <1>b, <2>1, <2>6, <2>12 DEF JarSafe
<1>2. ASSUME NEW t \in Threads, CommitRefused(t) PROVE JarSafe'
  <2>1. /\ adding[t] # None /\ Done(t)
        /\ now' = now /\ cookies' = cookies /\ nextIndex' = nextIndex /\ adds' = adds
    BY <1>2 DEF CommitRefused
  <2> QED
    BY <1>0, <1>b, <2>1, CommitCounts DEF JarSafe
<1>3. ASSUME NEW t \in Threads, CommitRemoval(t) PROVE JarSafe'
  <2>1. /\ adding[t] # None /\ Done(t)
        /\ cookies' = Removed(adding[t].domain, adding[t].path, adding[t].name, {adding[t].scope})
        /\ now' = now /\ nextIndex' = nextIndex /\ adds' = adds
    BY <1>3 DEF CommitRemoval
  <2>2. Stored' \subseteq Stored /\ (\A c \in Stored' : EntryAt(c)' = EntryAt(c)) /\ MapsOK'
    BY <1>0, <2>1, RemovedCookies
  <2>3. CookiesOK'
    BY <1>0, <2>1, <2>2, FewerKeep
  <2>4. AddingOK' /\ CountOK'
    BY <1>0, <2>1, CommitCounts
  <2> QED
    BY <2>2, <2>3, <2>4 DEF JarSafe
<1>4. ASSUME NEW t \in Threads, CommitInsert(t) PROVE JarSafe'
  <2>1. PICK a, e : /\ a = adding[t]
                    /\ e = [ value |-> a.value, secure |-> a.secure, expires |-> a.expires,
                             index |-> IndexFor(a.domain, a.path, a.scope, a.name, a.value),
                             setter |-> a.origin.host ]
    OBVIOUS
  <2>2. /\ e.value = a.value /\ e.expires = a.expires /\ e.setter = a.origin.host
        /\ e.index = IndexFor(a.domain, a.path, a.scope, a.name, e.value)
    BY <2>1
  <2>3. /\ a # None /\ Done(t) /\ now' = now /\ adds' = adds
        /\ cookies' = Inserted(a.domain, a.path, a.scope, a.name, e)
        /\ nextIndex' = IF e.index = nextIndex THEN nextIndex + 1 ELSE nextIndex
    BY <1>4, <2>1, <2>2 DEF CommitInsert
  <2>4. AddOK(a, now)
    BY <1>0, <2>1, <2>3 DEF AddingOK
  <2>5. CookiesOK' /\ MapsOK'
    BY <1>0, <1>a, <2>2, <2>3, <2>4, InsertKeeps DEF AddOK
  <2>6. AddingOK' /\ CountOK'
    BY <1>0, <2>1, <2>3, CommitCounts
  <2> QED
    BY <2>5, <2>6 DEF JarSafe
<1>5. ASSUME NEW uri \in Uris, NEW name \in Names, RemoveCookie(uri, name) PROVE JarSafe'
  <2>1. /\ cookies' = Removed(uri.host, uri.path, name, Scopes)
        /\ now' = now /\ nextIndex' = nextIndex /\ adding' = adding /\ adds' = adds
    BY <1>5 DEF RemoveCookie
  <2>2. Stored' \subseteq Stored /\ (\A c \in Stored' : EntryAt(c)' = EntryAt(c)) /\ MapsOK'
    BY <1>0, <2>1, RemovedCookies
  <2>3. CookiesOK'
    BY <1>0, <2>1, <2>2, FewerKeep
  <2> QED
    BY <1>c, <2>1, <2>2, <2>3 DEF JarSafe
<1>6. ASSUME Clear PROVE JarSafe'
  <2>1. cookies' = EmptyMap /\ nextIndex' = 0 /\ now' = now /\ adding' = adding /\ adds' = adds
    BY <1>6 DEF Clear
  <2>2. DOMAIN cookies' = {}
    BY <2>1, Empties
  <2>3. Stored' = {}
    BY <2>2, StoredThen DEF Has
  <2>4. MapsOK' /\ CookiesOK'
    BY <2>2, <2>3, FS_EmptySet DEF MapsOK, CookiesOK
  <2>5. Pending' = Pending
    BY <2>1 DEF Pending
  <2>6. IsFiniteSet(Pending) /\ Cardinality(Pending) \in Nat /\ nextIndex + Cardinality(Pending) <= adds
    BY <1>0, FS_CardinalityType DEF CountOK
  <2>7. 0 + Cardinality(Pending) <= adds
    BY <1>a, <2>6
  <2>8. CountOK'
    BY <1>0, <2>1, <2>5, <2>7 DEF CountOK
  <2> QED
    BY <1>0, <2>1, <2>4, <2>8 DEF JarSafe, AddingOK
<1>7. ASSUME ClockTick PROVE JarSafe'
  <2>1. /\ now < MaxTime /\ now' = now + 1
        /\ cookies' = cookies /\ nextIndex' = nextIndex /\ adding' = adding /\ adds' = adds
    BY <1>7 DEF ClockTick
  <2>2. Pending' = Pending
    BY <2>1 DEF Pending
  <2>3. now' \in 0..MaxTime
    BY <1>a, <2>1
  <2>4. ASSUME NEW a, AddOK(a, now) PROVE AddOK(a, now')
    <3>1. a.seen \in Nat /\ a.seen <= now
      BY <2>4 DEF AddOK
    <3>2. a.seen <= now'
      BY <1>a, <2>1, <3>1
    <3> QED
      BY <2>4, <3>2 DEF AddOK
  <2>5. AddingOK'
    BY <1>0, <2>1, <2>4 DEF AddingOK
  <2>6. CountOK'
    BY <1>0, <2>1, <2>2, <2>3 DEF CountOK
  <2> QED
    BY <1>b, <2>1, <2>5, <2>6 DEF JarSafe
<1>8. CASE UNCHANGED jarVars
  BY <1>b, <1>c, <1>8 DEF jarVars, JarSafe
<1> QED
  BY <1>1, <1>2, <1>3, <1>4, <1>5, <1>6, <1>7, <1>8 DEF JarNext

\* The invariant holds in every reachable state of the jar.
LEMMA JarAlwaysSafe == JarSpec => []JarSafe
  BY JarInitSafe, JarStepSafe, PTL DEF JarSpec
-----------------------------------------------------------------------------
(* Where cookies are sent.                                                 *)

\* SentWhereSet: a cookie is sent only to hosts that its setter could set cookies
\* for (Jar::add, matches of store.rs).
THEOREM SentSafety == JarSpec => []SentWhereSet
<1>1. JarSafe => SentWhereSet
  <2> SUFFICES ASSUME JarSafe, NEW uri \in Uris, NEW c \in MatchingCookies(uri, now)
               PROVE  IF c.scope = "host_only"
                      THEN uri.host = EntryAt(c).setter
                      ELSE IsSuffix(c.domain, uri.host) /\ IsSuffix(c.domain, EntryAt(c).setter)
    BY DEF SentWhereSet
  <2>1. c \in Stored /\ RequestMatches(uri, c, now)
    BY DEF MatchingCookies
  <2>2. /\ DomainMatch(uri.host, c.domain)
        /\ c.scope = "host_only" => uri.host = c.domain
    BY <2>1 DEF RequestMatches
  <2>3. SetterOK(c.scope, c.domain, EntryAt(c).setter) /\ c \in Places
    BY <2>1 DEF JarSafe, CookiesOK, CookieOK
  <2>4. IsHost(c.domain) /\ IsHost(uri.host)
    BY <2>3, JarAssumption DEF Places, IsHost
  <2>5. IsSuffix(c.domain, c.domain)
    BY <2>4, SuffixFacts
  <2>6. CASE c.scope = "host_only"
    BY <2>2, <2>3, <2>6 DEF SetterOK
  <2>7. CASE c.scope # "host_only"
    BY <2>2, <2>3, <2>5, <2>7 DEF SetterOK, DomainMatch
  <2> QED
    BY <2>6, <2>7
<1> QED
  BY <1>1, JarAlwaysSafe, PTL
-----------------------------------------------------------------------------
(* The order of cookies, and what the read operations return.              *)

\* The elements of S, each at the place its rank gives.
ByRank(S, r, n) == [i \in 1..n |-> CHOOSE c \in S : r[c] = i - 1]

\* It is a sequence of all of them.
LEMMA SortedAll ==
    ASSUME NEW S, NEW n \in Nat, NEW r,
           \A i \in 1..n : \E c \in S : r[c] = i - 1,
           \A c \in S : \E i \in 1..n : r[c] = i - 1,
           \A c, e \in S : r[c] = r[e] => c = e,
           NEW q, q = ByRank(S, r, n)
    PROVE  Len(q) = n /\ Range(q) = S
<1> DEFINE F(i) == CHOOSE c \in S : r[c] = i - 1
<1>1. q = [i \in 1..n |-> F(i)]
  BY DEF ByRank
<1>2. ASSUME NEW i \in 1..n PROVE F(i) \in S /\ r[F(i)] = i - 1
  <2>1. PICK x : x = i - 1
    OBVIOUS
  <2>2. \E c \in S : r[c] = x
    BY <2>1
  <2>3. F(i) = CHOOSE c \in S : r[c] = x
    BY <2>1
  <2> HIDE DEF F
  <2>4. F(i) \in S /\ r[F(i)] = x
    BY <2>2, <2>3
  <2> QED
    BY <2>1, <2>4
<1> HIDE DEF F
<1>3. DOMAIN q = 1..n /\ Len(q) = n /\ \A i \in 1..n : q[i] = F(i)
  BY <1>1
<1>4. ASSUME NEW c \in S PROVE \E i \in DOMAIN q : q[i] = c
  <2>1. PICK i \in 1..n : r[c] = i - 1
    OBVIOUS
  <2>2. q[i] \in S /\ r[q[i]] = r[c]
    BY <1>2, <1>3, <2>1
  <2> QED
    BY <1>3, <2>2
<1>5. \A i \in DOMAIN q : q[i] \in S
  BY <1>2, <1>3
<1>6. Range(q) = S
  BY <1>4, <1>5 DEF Range
<1> QED
  BY <1>3, <1>6

\* No two cookies have the same place in the order of creation.
LEMMA OlderOrder ==
    CookiesOK => /\ \A c \in Stored : ~Older(c, c)
                 /\ \A c, d, e \in Stored : Older(c, d) /\ Older(d, e) => Older(c, e)
                 /\ \A c, d \in Stored : c = d \/ Older(c, d) \/ Older(d, c)
<1> SUFFICES ASSUME CookiesOK
             PROVE  /\ \A c \in Stored : ~Older(c, c)
                    /\ \A c, d, e \in Stored : Older(c, d) /\ Older(d, e) => Older(c, e)
                    /\ \A c, d \in Stored : c = d \/ Older(c, d) \/ Older(d, c)
  OBVIOUS
<1>1. \A c \in Stored : EntryAt(c).index \in Nat
  BY DEF CookiesOK, CookieOK
<1>2. \A c, d \in Stored : EntryAt(c).index = EntryAt(d).index => c = d
  BY DEF CookiesOK
<1> QED
  BY <1>1, <1>2 DEF Older

\* Neither have two cookies the same place in a Cookie header.
LEMMA BeforeOrder ==
    CookiesOK => /\ \A c \in Stored : ~Before(c, c)
                 /\ \A c, d, e \in Stored : Before(c, d) /\ Before(d, e) => Before(c, e)
                 /\ \A c, d \in Stored : c = d \/ Before(c, d) \/ Before(d, c)
<1> SUFFICES ASSUME CookiesOK
             PROVE  /\ \A c \in Stored : ~Before(c, c)
                    /\ \A c, d, e \in Stored : Before(c, d) /\ Before(d, e) => Before(c, e)
                    /\ \A c, d \in Stored : c = d \/ Before(c, d) \/ Before(d, c)
  OBVIOUS
<1>1. \A c \in Stored : PathLen(c.path) \in Nat
  BY PathLengths DEF CookiesOK, CookieOK
<1>2. /\ \A c \in Stored : ~Older(c, c)
      /\ \A c, d, e \in Stored : Older(c, d) /\ Older(d, e) => Older(c, e)
      /\ \A c, d \in Stored : c = d \/ Older(c, d) \/ Older(d, c)
  BY OlderOrder
<1> QED
  BY <1>1, <1>2 DEF Before

\* The list of all cookies has every live cookie.
LEMMA GetAllHas ==
    ASSUME CookiesOK
    PROVE  /\ Len(GetAll) = JarLen
           /\ Range(GetAll) = {c \in Stored : ~Expired(EntryAt(c), now)}
<1>1. PICK S : S = {c \in Stored : ~Expired(EntryAt(c), now)}
  OBVIOUS
<1>2. PICK R : R = {x \in S \X S : Older(x[1], x[2])}
  OBVIOUS
<1>3. S \subseteq Stored /\ IsFiniteSet(S)
  BY <1>1, FS_Subset DEF CookiesOK
<1>4. \A c, d \in S : <<c, d>> \in R <=> Older(c, d)
  BY <1>2
<1>5. /\ \A c \in S : <<c, c>> \notin R
      /\ \A c, d, e \in S : <<c, d>> \in R /\ <<d, e>> \in R => <<c, e>> \in R
      /\ \A c, d \in S : c = d \/ <<c, d>> \in R \/ <<d, c>> \in R
  BY <1>3, <1>4, OlderOrder
<1>6. PICK q, n : q = GetAll /\ n = Cardinality(S)
  OBVIOUS
<1>7. PICK r : r = [c \in S |-> Cardinality({d \in S : Older(d, c)})]
  OBVIOUS
<1>8. \A c \in S : r[c] = Cardinality(Below(S, R, c))
  <2>1. \A c \in S : {d \in S : Older(d, c)} = Below(S, R, c)
    BY <1>4 DEF Below
  <2> QED
    BY <1>7, <2>1
<1>9. /\ n \in Nat
      /\ \A i \in 1..n : \E c \in S : Cardinality(Below(S, R, c)) = i - 1
      /\ \A c \in S : \E i \in 1..n : Cardinality(Below(S, R, c)) = i - 1
      /\ \A c, e \in S : Cardinality(Below(S, R, c)) = Cardinality(Below(S, R, e)) => c = e
  BY <1>3, <1>5, <1>6, Ranked
<1>10. /\ \A i \in 1..n : \E c \in S : r[c] = i - 1
       /\ \A c \in S : \E i \in 1..n : r[c] = i - 1
       /\ \A c, e \in S : r[c] = r[e] => c = e
  BY <1>8, <1>9
<1> DEFINE F(i) == CHOOSE c \in S : Cardinality({d \in S : Older(d, c)}) = i - 1
           G(i) == CHOOSE c \in S : r[c] = i - 1
<1>11. q = [i \in 1..n |-> F(i)]
  BY <1>1, <1>6 DEF GetAll, Sorted
<1>12. \A i : F(i) = G(i)
  BY <1>7
<1>13. [i \in 1..n |-> G(i)] = ByRank(S, r, n)
  BY DEF ByRank
<1> HIDE DEF F, G
<1>14. q = [i \in 1..n |-> G(i)]
  BY <1>11, <1>12
<1>15. q = ByRank(S, r, n)
  BY <1>13, <1>14
<1>16. n \in Nat
  BY <1>9
<1>17. Len(q) = n /\ Range(q) = S
  BY <1>10, <1>15, <1>16, SortedAll
<1> QED
  BY <1>1, <1>6, <1>17 DEF JarLen

\* A Cookie header has every cookie that matches the request.
LEMMA HeaderHas ==
    ASSUME CookiesOK, NEW uri
    PROVE  Range(Header(uri)) = MatchingCookies(uri, now)
<1>1. PICK S : S = MatchingCookies(uri, now)
  OBVIOUS
<1>2. PICK R : R = {x \in S \X S : Before(x[1], x[2])}
  OBVIOUS
<1>3. S \subseteq Stored /\ IsFiniteSet(S)
  BY <1>1, FS_Subset DEF CookiesOK, MatchingCookies
<1>4. \A c, d \in S : <<c, d>> \in R <=> Before(c, d)
  BY <1>2
<1>5. /\ \A c \in S : <<c, c>> \notin R
      /\ \A c, d, e \in S : <<c, d>> \in R /\ <<d, e>> \in R => <<c, e>> \in R
      /\ \A c, d \in S : c = d \/ <<c, d>> \in R \/ <<d, c>> \in R
  BY <1>3, <1>4, BeforeOrder
<1>6. PICK q, n : q = Header(uri) /\ n = Cardinality(S)
  OBVIOUS
<1>7. PICK r : r = [c \in S |-> Cardinality({d \in S : Before(d, c)})]
  OBVIOUS
<1>8. \A c \in S : r[c] = Cardinality(Below(S, R, c))
  <2>1. \A c \in S : {d \in S : Before(d, c)} = Below(S, R, c)
    BY <1>4 DEF Below
  <2> QED
    BY <1>7, <2>1
<1>9. /\ n \in Nat
      /\ \A i \in 1..n : \E c \in S : Cardinality(Below(S, R, c)) = i - 1
      /\ \A c \in S : \E i \in 1..n : Cardinality(Below(S, R, c)) = i - 1
      /\ \A c, e \in S : Cardinality(Below(S, R, c)) = Cardinality(Below(S, R, e)) => c = e
  BY <1>3, <1>5, <1>6, Ranked
<1>10. /\ \A i \in 1..n : \E c \in S : r[c] = i - 1
       /\ \A c \in S : \E i \in 1..n : r[c] = i - 1
       /\ \A c, e \in S : r[c] = r[e] => c = e
  BY <1>8, <1>9
<1> DEFINE F(i) == CHOOSE c \in S : Cardinality({d \in S : Before(d, c)}) = i - 1
           G(i) == CHOOSE c \in S : r[c] = i - 1
<1>11. q = [i \in 1..n |-> F(i)]
  BY <1>1, <1>6 DEF Header, Sorted
<1>12. \A i : F(i) = G(i)
  BY <1>7
<1>13. [i \in 1..n |-> G(i)] = ByRank(S, r, n)
  BY DEF ByRank
<1> HIDE DEF F, G
<1>14. q = [i \in 1..n |-> G(i)]
  BY <1>11, <1>12
<1>15. q = ByRank(S, r, n)
  BY <1>13, <1>14
<1>16. n \in Nat
  BY <1>9
<1>17. Len(q) = n /\ Range(q) = S
  BY <1>10, <1>15, <1>16, SortedAll
<1> QED
  BY <1>1, <1>6, <1>17

\* Jar::get finds the oldest candidate when there is one.
LEMMA GetFinds ==
    ASSUME CookiesOK, NEW name, NEW uri, Candidates(name, uri) # {}
    PROVE  Get(name, uri) \in Candidates(name, uri)
<1>1. PICK S : S = Candidates(name, uri)
  OBVIOUS
<1>2. S # {} /\ \A c \in S : EntryAt(c).index \in Nat
  BY <1>1 DEF Candidates, CookiesOK, CookieOK
<1>3. PICK x \in {EntryAt(c).index : c \in S} : \A y \in {EntryAt(c).index : c \in S} : x <= y
  <2>1. {EntryAt(c).index : c \in S} \subseteq Nat /\ {EntryAt(c).index : c \in S} # {}
    BY <1>2
  <2> QED
    BY <2>1, LeastNatural
<1>4. \E c \in S : \A other \in S : EntryAt(c).index <= EntryAt(other).index
  BY <1>3
<1>5. Get(name, uri) = CHOOSE c \in S : \A other \in S : EntryAt(c).index <= EntryAt(other).index
  BY <1>1 DEF Get
<1> QED
  BY <1>1, <1>4, <1>5

\* JarInv: no empty shells, one order of creation within the bound, and read paths
\* that agree on what is live (Store, Jar::get, get_all, len, cookies).
THEOREM JarSafety == JarSpec => []JarInv
<1>1. JarSafe => JarTypeOK
  <2> SUFFICES ASSUME JarSafe PROVE JarTypeOK
    OBVIOUS
  <2>1. nextIndex \in 0..MaxAdds
    <3>1. /\ nextIndex \in Nat /\ Cardinality(Pending) \in Nat /\ adds \in Nat /\ adds <= MaxAdds
          /\ nextIndex + Cardinality(Pending) <= adds /\ MaxAdds \in Nat
      BY FS_CardinalityType, JarAssumption DEF JarSafe, CountOK
    <3> QED
      BY <3>1
  <2>2. now \in 0..MaxTime
    BY DEF JarSafe, CountOK
  <2>3. \A c \in Stored : EntryAt(c).index < nextIndex
    BY DEF JarSafe, CookiesOK, CookieOK
  <2> QED
    BY <2>1, <2>2, <2>3 DEF JarTypeOK, JarSafe, CookiesOK, MapsOK
<1>2. JarSafe => ViewsAgree
  <2> SUFFICES ASSUME JarSafe PROVE ViewsAgree
    OBVIOUS
  <2>0. CookiesOK
    BY DEF JarSafe
  <2>1. /\ Len(GetAll) = JarLen
        /\ Range(GetAll) = {c \in Stored : ~Expired(EntryAt(c), now)}
    BY <2>0, GetAllHas
  <2>2. ASSUME NEW uri \in Uris, uri.scheme = "https", NEW name \in Names
        PROVE  /\ (Get(name, uri) # None) = ContainsCookie(name, uri)
               /\ ContainsCookie(name, uri) => Get(name, uri) \in Range(Header(uri))
    <3>1. CASE Candidates(name, uri) = {}
      BY <3>1 DEF Get, ContainsCookie
    <3>2. CASE Candidates(name, uri) # {}
      <4>1. PICK g : g = Get(name, uri)
        OBVIOUS
      <4>2. g \in Candidates(name, uri)
        BY <2>0, <3>2, <4>1, GetFinds
      <4>3. /\ g \in Stored /\ g.domain = uri.host /\ g.path = uri.path
            /\ ~Expired(EntryAt(g), now)
        BY <4>2 DEF Candidates
      <4>4. g # None
        BY <2>0, <4>3, JarAssumption DEF CookiesOK, CookieOK
      <4>5. RequestMatches(uri, g, now)
        BY <2>2, <4>3 DEF RequestMatches, DomainMatch, PathMatch
      <4>6. g \in Range(Header(uri))
        BY <2>0, <4>3, <4>5, HeaderHas DEF MatchingCookies
      <4> QED
        BY <3>2, <4>1, <4>4, <4>6 DEF ContainsCookie
    <3> QED
      BY <3>1, <3>2
  <2>3. ASSUME NEW uri \in Uris PROVE Range(Header(uri)) \subseteq Range(GetAll)
    <3>1. Range(Header(uri)) = MatchingCookies(uri, now)
      BY <2>0, HeaderHas
    <3>2. MatchingCookies(uri, now) \subseteq {c \in Stored : ~Expired(EntryAt(c), now)}
      BY DEF MatchingCookies, RequestMatches
    <3> QED
      BY <2>1, <3>1, <3>2
  <2> QED
    BY <2>1, <2>2, <2>3 DEF ViewsAgree
<1> QED
  BY <1>1, <1>2, JarAlwaysSafe, PTL DEF JarInv
-----------------------------------------------------------------------------
(* What a commit may change.                                               *)

\* A response that is done with a cookie has just committed it.
LEMMA OnlyCommits ==
    ASSUME AddingOK, [JarNext]_jarVars, NEW t \in Threads, adding[t] # None, adding'[t] = None
    PROVE  CommitRefused(t) \/ CommitRemoval(t) \/ CommitInsert(t)
<1>1. DOMAIN adding = Threads
  BY DEF AddingOK
<1>2. ASSUME NEW u \in Threads, NEW v, adding' = [adding EXCEPT ![u] = v], u # t PROVE FALSE
  BY <1>1, <1>2
<1>3. ASSUME adding' = adding PROVE FALSE
  BY <1>3
<1>4. ASSUME NEW u \in Threads, NEW o \in Offers, Prepare(u, o) PROVE FALSE
  <2>1. u # t
    BY <1>4 DEF Prepare
  <2> QED
    BY <1>2, <1>4, <2>1 DEF Prepare
<1>5. ASSUME NEW u \in Threads, CommitRefused(u) \/ CommitRemoval(u) \/ CommitInsert(u) PROVE u = t
  <2>1. adding' = [adding EXCEPT ![u] = None]
    BY <1>5 DEF CommitRefused, CommitRemoval, CommitInsert, Done
  <2> QED
    BY <1>2, <2>1
<1>6. CASE JarNext
  BY <1>3, <1>4, <1>5, <1>6 DEF JarNext, RemoveCookie, Clear, ClockTick
<1>7. CASE UNCHANGED jarVars
  BY <1>3, <1>7 DEF jarVars
<1> QED
  BY <1>6, <1>7

\* A commit changes no other cookie than the one it is about, and no time passes.
LEMMA CommitElsewhere ==
    ASSUME JarSafe, NEW t \in Threads, CommitRefused(t) \/ CommitRemoval(t) \/ CommitInsert(t),
           NEW x, x = Place(adding[t].domain, adding[t].path, adding[t].scope, adding[t].name)
    PROVE  /\ now' = now
           /\ \A c : c # x => (c \in Stored' <=> c \in Stored)
           /\ \A c \in Stored : c # x => EntryAt(c)' = EntryAt(c)
<1>1. PICK a : a = adding[t]
  OBVIOUS
<1>2. a # None /\ now' = now
  BY <1>1 DEF CommitRefused, CommitRemoval, CommitInsert
<1>3. x = Place(a.domain, a.path, a.scope, a.name) /\ x \in Places
  BY <1>1, <1>2 DEF JarSafe, AddingOK, AddOK
<1>4. a.scope \in Scopes
  BY <1>3 DEF Place, Places
<1>5. CASE CommitRefused(t)
  <2>1. cookies' = cookies
    BY <1>5 DEF CommitRefused
  <2> QED
    BY <1>2, <2>1 DEF Stored, EntryAt
<1>6. CASE CommitRemoval(t)
  <2>1. cookies' = Removed(a.domain, a.path, a.name, {a.scope})
    BY <1>1, <1>6 DEF CommitRemoval
  <2>2. /\ Stored' = {c \in Stored : ~(c.domain = a.domain /\ c.path = a.path
                                        /\ c.scope \in {a.scope} /\ c.name = a.name)}
        /\ \A c \in Stored' : EntryAt(c)' = EntryAt(c)
    BY <2>1, RemovedCookies DEF JarSafe
  <2>3. ASSUME NEW c \in Stored, c # x PROVE c \in Stored'
    <3>1. c \in Places
      BY DEF JarSafe, CookiesOK, CookieOK
    <3>2. c = Place(c.domain, c.path, c.scope, c.name)
      BY <3>1, PlaceFields
    <3>3. ~(c.domain = a.domain /\ c.path = a.path /\ c.scope \in {a.scope} /\ c.name = a.name)
      BY <1>3, <2>3, <3>2
    <3> QED
      BY <2>2, <3>3
  <2> QED
    BY <1>2, <2>2, <2>3
<1>7. CASE CommitInsert(t)
  <2>1. PICK e : cookies' = Inserted(a.domain, a.path, a.scope, a.name, e)
    BY <1>1, <1>7 DEF CommitInsert
  <2>2. Stored' = Stored \cup {x} /\ \A c \in Stored : c # x => EntryAt(c)' = EntryAt(c)
    BY <1>3, <1>4, <2>1, InsertedCookies DEF JarSafe
  <2> QED
    BY <1>2, <2>2
<1> QED
  BY <1>5, <1>6, <1>7

\* The same cookies in the same order: the same Cookie header.
LEMMA HeaderSame ==
    ASSUME NEW uri, NEW S, S = MatchingCookies(uri, now), S = MatchingCookies(uri, now)',
           \A c, d \in S : Before(c, d)' <=> Before(c, d)
    PROVE  Header(uri)' = Header(uri)
<1> DEFINE F(i) == CHOOSE c \in S : Cardinality({d \in S : Before(d, c)}) = i - 1
           G(i) == CHOOSE c \in S : Cardinality({d \in S : Before(d, c)'}) = i - 1
<1>1. Header(uri) = [i \in 1..Cardinality(S) |-> F(i)]
  BY DEF Header, Sorted
<1>2. Header(uri)' = [i \in 1..Cardinality(S) |-> G(i)]
  BY DEF Header, Sorted
<1>3. \A c \in S : {d \in S : Before(d, c)} = {d \in S : Before(d, c)'}
  OBVIOUS
<1>4. \A i : F(i) = G(i)
  BY <1>3
<1> HIDE DEF F, G
<1> QED
  BY <1>1, <1>2, <1>4

\* OrderKept: a cookie sent again with the value it has keeps the order of every
\* Cookie header (insert_stored_cookie).
THEOREM OrderSafety == JarSpec => OrderKept
<1>1. ASSUME JarSafe, [JarNext]_jarVars, NEW t \in Threads, NEW uri \in Uris,
             adding[t] # None, adding'[t] = None, ~adding[t].expired,
             \E c \in MatchingCookies(uri, now) :
                /\ IsTarget(c, adding[t])
                /\ EntryAt(c).value = adding[t].value
                /\ c \in MatchingCookies(uri, now)'
      PROVE  Header(uri)' = Header(uri)
  <2>1. PICK x : /\ x \in MatchingCookies(uri, now) /\ x \in MatchingCookies(uri, now)'
                 /\ IsTarget(x, adding[t]) /\ EntryAt(x).value = adding[t].value
    BY <1>1
  <2>2. PICK a : a = adding[t]
    OBVIOUS
  <2>3. x = Place(a.domain, a.path, a.scope, a.name)
    BY <2>1, <2>2 DEF IsTarget, Place
  <2>4. CommitRefused(t) \/ CommitRemoval(t) \/ CommitInsert(t)
    BY <1>1, OnlyCommits DEF JarSafe
  <2>5. /\ now' = now
        /\ \A c : c # x => (c \in Stored' <=> c \in Stored)
        /\ \A c \in Stored : c # x => EntryAt(c)' = EntryAt(c)
    BY <1>1, <2>2, <2>3, <2>4, CommitElsewhere
  <2>6. x \in Stored /\ x \in Stored'
    BY <2>1 DEF MatchingCookies
  <2>7. EntryAt(x)'.index = EntryAt(x).index
    <3>1. CASE CommitRefused(t)
      BY <3>1 DEF CommitRefused, EntryAt
    <3>2. CASE CommitInsert(t)
      <4>1. PICK i, e : /\ i = IndexFor(a.domain, a.path, a.scope, a.name, a.value)
                        /\ e = [ value |-> a.value, secure |-> a.secure, expires |-> a.expires,
                                 index |-> i, setter |-> a.origin.host ]
        OBVIOUS
      <4>2. cookies' = Inserted(a.domain, a.path, a.scope, a.name, e)
        BY <2>2, <3>2, <4>1 DEF CommitInsert
      <4>3. a.scope \in Scopes
        BY <1>1, <2>2 DEF JarSafe, AddingOK, AddOK, Place, Places
      <4>4. EntryAt(x)' = e
        BY <1>1, <2>3, <4>2, <4>3, InsertedCookies DEF JarSafe
      <4>5. i = EntryAt(x).index
        BY <2>1, <2>2, <2>3, <2>6, <4>1, <4>3, IndexChosen
      <4> QED
        BY <4>1, <4>4, <4>5
    <3> QED
      BY <1>1, <2>4, <3>1, <3>2 DEF CommitRemoval
  <2>8. PICK S : S = MatchingCookies(uri, now)
    OBVIOUS
  <2>9. S = MatchingCookies(uri, now)'
    <3>1. ASSUME NEW c, c # x PROVE c \in S <=> c \in MatchingCookies(uri, now)'
      <4>1. c \in Stored => EntryAt(c)' = EntryAt(c)
        BY <2>5, <3>1
      <4> QED
        BY <2>5, <2>8, <3>1, <4>1 DEF MatchingCookies, RequestMatches
    <3> QED
      BY <2>1, <2>8, <3>1
  <2>10. \A c \in S : EntryAt(c)'.index = EntryAt(c).index
    BY <2>5, <2>7, <2>8 DEF MatchingCookies
  <2>11. \A c, d \in S : Before(c, d)' <=> Before(c, d)
    BY <2>10 DEF Before, Older
  <2> QED
    BY <2>8, <2>9, <2>11, HeaderSame
<1>2. JarSafe /\ [JarNext]_jarVars =>
        [\A t \in Threads, uri \in Uris :
           /\ adding[t] # None
           /\ adding'[t] = None
           /\ ~adding[t].expired
           /\ \E c \in MatchingCookies(uri, now) :
                /\ IsTarget(c, adding[t])
                /\ EntryAt(c).value = adding[t].value
                /\ c \in MatchingCookies(uri, now)'
           => Header(uri)' = Header(uri)]_jarVars
  BY <1>1
<1> QED
  BY <1>2, JarAlwaysSafe, PTL DEF JarSpec, OrderKept
-----------------------------------------------------------------------------
(* Secure cookies and insecure origins.                                    *)

\* The cookies of a name that a request sends.
Named(uri, name) == {c \in MatchingCookies(uri, now) : c.name = name}

\* The cookie that no other precedes is the first.
LEMMA FirstIs ==
    \A uri, name, c :
        /\ CookiesOK /\ c \in Named(uri, name)
        /\ \A d \in Named(uri, name) : ~Before(d, c)
        => FirstNamed(uri, name) = [cookie |-> c, entry |-> EntryAt(c)]
<1> SUFFICES ASSUME NEW uri, NEW name, NEW c, CookiesOK, c \in Named(uri, name),
                    \A d \in Named(uri, name) : ~Before(d, c)
             PROVE  FirstNamed(uri, name) = [cookie |-> c, entry |-> EntryAt(c)]
  OBVIOUS
<1>1. PICK S : S = Named(uri, name)
  OBVIOUS
<1>2. S \subseteq Stored /\ c \in S /\ \A d \in S : ~Before(d, c)
  BY <1>1 DEF Named, MatchingCookies
<1>3. \A e \in S : (\A d \in S : ~Before(d, e)) => e = c
  BY <1>2, BeforeOrder
<1>4. PICK f : f = CHOOSE e \in S : \A d \in S : ~Before(d, e)
  OBVIOUS
<1>5. f = c
  BY <1>2, <1>3, <1>4
<1>6. FirstNamed(uri, name) = IF S = {} THEN None ELSE [cookie |-> f, entry |-> EntryAt(f)]
  BY <1>1, <1>4 DEF FirstNamed, Named
<1> QED
  BY <1>2, <1>5, <1>6

\* The same after a step.
LEMMA FirstThen ==
    (\A uri, name, c :
        /\ CookiesOK /\ c \in Named(uri, name)
        /\ \A d \in Named(uri, name) : ~Before(d, c)
        => FirstNamed(uri, name) = [cookie |-> c, entry |-> EntryAt(c)])'
  BY FirstIs, PTL

\* When a request sends a cookie of the name, there is a first one.
LEMMA FirstExists ==
    ASSUME CookiesOK, NEW uri, NEW name, Named(uri, name) # {}
    PROVE  \E c \in Named(uri, name) : \A d \in Named(uri, name) : ~Before(d, c)
<1>1. PICK S : S = Named(uri, name)
  OBVIOUS
<1>2. PICK R : R = {x \in S \X S : Before(x[1], x[2])}
  OBVIOUS
<1>3. S \subseteq Stored /\ IsFiniteSet(S) /\ S # {}
  <2>1. S \subseteq Stored
    BY <1>1 DEF Named, MatchingCookies
  <2> QED
    BY <1>1, <2>1, FS_Subset DEF CookiesOK
<1>4. \A c, d \in S : <<c, d>> \in R <=> Before(c, d)
  BY <1>2
<1>5. /\ \A c \in S : <<c, c>> \notin R
      /\ \A c, d, e \in S : <<c, d>> \in R /\ <<d, e>> \in R => <<c, e>> \in R
      /\ \A c, d \in S : c = d \/ <<c, d>> \in R \/ <<d, c>> \in R
  BY <1>3, <1>4, BeforeOrder
<1>6. /\ Cardinality(S) \in Nat
      /\ \A i \in 1..Cardinality(S) : \E c \in S : Cardinality(Below(S, R, c)) = i - 1
      /\ \A c \in S : \E i \in 1..Cardinality(S) : Cardinality(Below(S, R, c)) = i - 1
  BY <1>3, <1>5, Ranked
<1>7. 1 \in 1..Cardinality(S)
  BY <1>3, <1>6
<1>8. PICK c \in S : Cardinality(Below(S, R, c)) = 0
  BY <1>6, <1>7
<1>9. Below(S, R, c) = {}
  <2>1. IsFiniteSet(Below(S, R, c))
    BY <1>3, FS_Subset DEF Below
  <2> QED
    BY <1>8, <2>1, FS_EmptySet
<1>10. \A d \in S : ~Before(d, c)
  BY <1>4, <1>9 DEF Below
<1> QED
  BY <1>1, <1>10

\* A cookie that an insecure origin may store comes after the Secure cookie of its
\* name in every Cookie header that has both.
LEMMA OverlayComesAfter ==
    ASSUME CookiesOK, NEW a, AddOK(a, now), now \in Nat, ~Refused(a), a.origin.scheme # "https",
           NEW uri \in Uris, NEW c \in MatchingCookies(uri, now), EntryAt(c).secure, c.name = a.name,
           DomainMatch(uri.host, a.domain), PathMatch(uri.path, a.path)
    PROVE  PathLen(c.path) > PathLen(a.path)
<1>1. c \in Stored /\ RequestMatches(uri, c, now)
  BY DEF MatchingCookies
<1>2. DomainMatch(uri.host, c.domain) /\ PathMatch(uri.path, c.path) /\ ~Expired(EntryAt(c), now)
  BY <1>1 DEF RequestMatches
<1>3. CookieOK(c, EntryAt(c), nextIndex)
  BY <1>1 DEF CookiesOK
<1>4. /\ IsHost(uri.host) /\ IsPath(uri.path) /\ IsHost(c.domain) /\ IsPath(c.path)
  BY <1>3, JarAssumption DEF CookieOK, Places, IsHost
<1>5. IsHost(a.domain) /\ IsPath(a.path) /\ a.seen \in Nat /\ a.seen <= now
  BY DEF AddOK, Place, Places, IsHost
<1>6. DomainMatch(c.domain, a.domain) \/ DomainMatch(a.domain, c.domain)
  BY <1>2, <1>4, <1>5, DomainsComparable
<1>7. ~Expired(EntryAt(c), a.seen)
  <2>1. PICK x : x = EntryAt(c).expires
    OBVIOUS
  <2>2. x = None \/ x \in Nat
    BY <1>3, <2>1 DEF CookieOK, DeadlineOK
  <2>3. ~(x # None /\ x <= now)
    BY <1>2, <2>1 DEF Expired
  <2>4. ~(x # None /\ x <= a.seen)
    BY <1>5, <2>2, <2>3
  <2> QED
    BY <2>1, <2>4 DEF Expired
<1>8. ~WouldOverlaySecure(a.name, a.domain, a.path, a.seen)
  BY DEF Refused
<1>9. ~PathMatch(a.path, c.path)
  BY <1>1, <1>6, <1>7, <1>8 DEF WouldOverlaySecure
<1> QED
  BY <1>2, <1>4, <1>5, <1>9, PathsOrdered

\* SecureLeftAlone: a response from an insecure origin never changes what an https
\* request sends first under the name of a live Secure cookie
\* (would_overlay_secure_cookie).
THEOREM SecureSafety == JarSpec => SecureLeftAlone
<1>1. ASSUME JarSafe, JarSafe', [JarNext]_jarVars, NEW t \in Threads, NEW name \in Names,
             NEW uri \in Uris, uri.scheme = "https",
             adding[t] # None, adding'[t] = None, adding[t].origin.scheme # "https",
             FirstNamed(uri, name) # None, FirstNamed(uri, name).entry.secure
      PROVE  FirstNamed(uri, name)' = FirstNamed(uri, name)
  <2>1. Named(uri, name) # {}
    BY <1>1 DEF FirstNamed, Named
  <2>2. PICK c \in Named(uri, name) : \A d \in Named(uri, name) : ~Before(d, c)
    BY <1>1, <2>1, FirstExists DEF JarSafe
  <2>3. FirstNamed(uri, name) = [cookie |-> c, entry |-> EntryAt(c)]
    BY <1>1, <2>2, FirstIs DEF JarSafe
  <2>4. EntryAt(c).secure
    BY <1>1, <2>3
  <2>5. PICK a : a = adding[t]
    OBVIOUS
  <2>6. PICK x : x = Place(a.domain, a.path, a.scope, a.name)
    OBVIOUS
  <2>7. x.domain = a.domain /\ x.path = a.path /\ x.scope = a.scope /\ x.name = a.name
    BY <2>6 DEF Place
  <2>8. CommitRefused(t) \/ CommitRemoval(t) \/ CommitInsert(t)
    BY <1>1, OnlyCommits DEF JarSafe
  <2>9. /\ now' = now
        /\ \A d : d # x => (d \in Stored' <=> d \in Stored)
        /\ \A d \in Stored : d # x => EntryAt(d)' = EntryAt(d)
    BY <1>1, <2>5, <2>6, <2>8, CommitElsewhere
  <2>10. c \in MatchingCookies(uri, now) /\ c.name = name
    BY <2>2 DEF Named
  <2>11. c \in Stored /\ RequestMatches(uri, c, now)
    BY <2>10 DEF MatchingCookies
  <2>12. PathLen(c.path) \in Nat /\ PathLen(x.path) \in Nat
    BY <1>1, <2>5, <2>7, <2>11, PathLengths DEF JarSafe, CookiesOK, CookieOK, AddingOK, AddOK
  <2>13. CASE CommitRefused(t)
    <3>1. cookies' = cookies /\ now' = now
      BY <2>13 DEF CommitRefused
    <3>2. Named(uri, name)' = Named(uri, name)
      BY <3>1 DEF Named, MatchingCookies, RequestMatches, Stored, EntryAt
    <3>3. \A d, e : Before(d, e)' <=> Before(d, e)
      BY <3>1 DEF Before, Older, EntryAt
    <3>4. EntryAt(c)' = EntryAt(c)
      BY <3>1 DEF EntryAt
    <3>5. FirstNamed(uri, name)' = [cookie |-> c, entry |-> EntryAt(c)']
      <4>2. c \in Named(uri, name)' /\ \A d \in Named(uri, name)' : ~Before(d, c)'
        BY <2>2, <3>2, <3>3
      <4>3. CookiesOK'
        BY <1>1 DEF JarSafe
      <4> QED
        BY <4>2, <4>3, FirstThen
    <3> QED
      BY <2>3, <3>4, <3>5
  <2>14. CASE CommitRemoval(t) \/ CommitInsert(t)
    <3>1. ~Refused(a) /\ AddOK(a, now) /\ now \in Nat
      <4>1. ~Refused(a)
        BY <2>5, <2>14 DEF CommitRemoval, CommitInsert
      <4>2. AddOK(a, now)
        BY <1>1, <2>5 DEF JarSafe, AddingOK
      <4>3. now \in Nat
        BY <1>1, JarAssumption DEF JarSafe, CountOK
      <4> QED
        BY <4>1, <4>2, <4>3
    <3>2. ASSUME DomainMatch(uri.host, x.domain), PathMatch(uri.path, x.path), x.name = name
          PROVE  PathLen(c.path) > PathLen(x.path)
      <4>1. DomainMatch(uri.host, a.domain) /\ PathMatch(uri.path, a.path) /\ c.name = a.name
        BY <2>7, <2>10, <3>2
      <4>2. CookiesOK /\ a.origin.scheme # "https"
        BY <1>1, <2>5 DEF JarSafe
      <4>3. PathLen(c.path) > PathLen(a.path)
        BY <2>4, <2>10, <3>1, <4>1, <4>2, OverlayComesAfter
      <4> QED
        BY <2>7, <4>3
    <3>3. c # x
      <4> SUFFICES ASSUME c = x PROVE FALSE
        OBVIOUS
      <4>1. DomainMatch(uri.host, x.domain) /\ PathMatch(uri.path, x.path) /\ x.name = name
        BY <2>10, <2>11 DEF RequestMatches
      <4>2. PathLen(c.path) > PathLen(c.path)
        BY <3>2, <4>1
      <4> QED
        BY <2>12, <4>2
    <3>4. EntryAt(c)' = EntryAt(c) /\ c \in Stored'
      BY <2>9, <2>11, <3>3
    <3>5. c \in Named(uri, name)'
      BY <2>9, <2>10, <2>11, <3>4 DEF Named, MatchingCookies, RequestMatches
    <3>6. ASSUME NEW d \in Named(uri, name)' PROVE ~Before(d, c)'
      <4>1. d \in Stored' /\ RequestMatches(uri, d, now)' /\ d.name = name
        BY DEF Named, MatchingCookies
      <4>2. CASE d = x
        <5>1. DomainMatch(uri.host, x.domain) /\ PathMatch(uri.path, x.path) /\ x.name = name
          BY <4>1, <4>2 DEF RequestMatches
        <5>2. PathLen(c.path) > PathLen(d.path)
          BY <3>2, <4>2, <5>1
        <5>3. ~(PathLen(d.path) > PathLen(c.path)) /\ PathLen(d.path) # PathLen(c.path)
          BY <2>12, <4>2, <5>2
        <5> QED
          BY <5>3 DEF Before
      <4>3. CASE d # x
        <5>1. d \in Stored /\ EntryAt(d)' = EntryAt(d)
          BY <2>9, <4>1, <4>3
        <5>2. d \in Named(uri, name)
          BY <2>9, <4>1, <5>1 DEF Named, MatchingCookies, RequestMatches
        <5>3. ~Before(d, c)
          BY <2>2, <5>2
        <5> QED
          BY <3>4, <5>1, <5>3 DEF Before, Older
      <4> QED
        BY <4>2, <4>3
    <3>7. FirstNamed(uri, name)' = [cookie |-> c, entry |-> EntryAt(c)']
      <4>2. CookiesOK'
        BY <1>1 DEF JarSafe
      <4> QED
        BY <3>5, <3>6, <4>2, FirstThen
    <3> QED
      BY <2>3, <3>4, <3>7
  <2> QED
    BY <2>8, <2>13, <2>14
<1>2. JarSafe /\ JarSafe' /\ [JarNext]_jarVars =>
        [\A t \in Threads, name \in Names, uri \in {u \in Uris : u.scheme = "https"} :
           /\ adding[t] # None
           /\ adding'[t] = None
           /\ adding[t].origin.scheme # "https"
           /\ FirstNamed(uri, name) # None
           /\ FirstNamed(uri, name).entry.secure
           => FirstNamed(uri, name)' = FirstNamed(uri, name)]_jarVars
  BY <1>1
<1> QED
  BY <1>2, JarAlwaysSafe, PTL DEF JarSpec, SecureLeftAlone
=============================================================================
