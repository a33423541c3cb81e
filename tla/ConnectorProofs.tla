--------------------------- MODULE ConnectorProofs ---------------------------
(***************************************************************************)
(* Proofs about Connector, for any number of attempts at the same time and *)
(* any client, proxies and requests that satisfy ConnectorAssumption: the  *)
(* session cache is used as SessionCache says, and every attempt, wherever *)
(* it is on its way, has told, sealed and blamed only whom it should.      *)
(***************************************************************************)
EXTENDS Connector, RetainProofs, FiniteSetTheorems, SequenceTheorems
-----------------------------------------------------------------------------
(***************************************************************************)
(* The indices of the session cache agree and a TLS 1.3 session is used    *)
(* once, for any keys, sessions, connections and capacity.  The inductive  *)
(* invariant is the conjunction of the three properties: the lists and the *)
(* reverse index are needed to know that pop removes the session from the  *)
(* only list that has it.                                                  *)
(***************************************************************************)

Has(q, t) == \E i \in DOMAIN q : q[i] = t

Distinct(q) == \A i, j \in DOMAIN q : q[i] = q[j] => i = j

\* What a list holds after Retain: the elements in S, each once if it was so
\* before, and fewer if the first was not in S.
LEMMA Retained ==
    ASSUME NEW A, NEW q \in Seq(A), NEW S
    PROVE  /\ Retain(q, S) \in Seq(A)
           /\ \A t : Has(Retain(q, S), t) <=> Has(q, t) /\ t \in S
           /\ Distinct(q) => Distinct(Retain(q, S))
           /\ Len(Retain(q, S)) <= Len(q)
           /\ q # <<>> /\ q[1] \notin S => Len(Retain(q, S)) < Len(q)
<1> DEFINE r == Retain(q, S)
<1>1. /\ r \in Seq(A)
      /\ \A i \in DOMAIN r : r[i] \in S
  BY RetainFacts
<1>2. PICK f \in [DOMAIN r -> DOMAIN q] : Selects(f, r, q, S)
  BY RetainFacts
<1> HIDE DEF r
<1>3. /\ DOMAIN r = 1..Len(r) /\ Len(r) \in Nat
      /\ DOMAIN q = 1..Len(q) /\ Len(q) \in Nat
  BY <1>1
<1>a. \A a, b \in Int : /\ IsFiniteSet(a..b)
                        /\ Cardinality(a..b) = IF a > b THEN 0 ELSE b - a + 1
  BY FS_Interval
<1>b. 1 \in Int /\ 2 \in Int /\ Len(r) \in Int /\ Len(q) \in Int
  BY <1>3
<1>4. \A t : Has(r, t) <=> Has(q, t) /\ t \in S
  BY <1>1, <1>2 DEF Has, Selects
<1>5. \A i, j \in DOMAIN r : f[i] = f[j] => i = j
  <2> SUFFICES ASSUME NEW i \in DOMAIN r, NEW j \in DOMAIN r, i # j
               PROVE  f[i] # f[j]
    OBVIOUS
  <2>1. i < j \/ j < i
    BY <1>3
  <2>2. f[i] < f[j] \/ f[j] < f[i]
    BY <2>1, <1>2 DEF Selects
  <2>3. f[i] \in Nat /\ f[j] \in Nat
    BY <1>2, <1>3
  <2> QED
    BY <2>2, <2>3
<1>6. ASSUME Distinct(q) PROVE Distinct(r)
  <2> SUFFICES ASSUME NEW i \in DOMAIN r, NEW j \in DOMAIN r, r[i] = r[j]
               PROVE  i = j
    BY DEF Distinct
  <2>1. q[f[i]] = q[f[j]]
    BY <1>2 DEF Selects
  <2>2. f[i] = f[j]
    BY <2>1, <1>2, <1>6 DEF Distinct
  <2> QED
    BY <2>2, <1>5
<1>7. Len(r) <= Len(q)
  <2>1. f \in Injection(1..Len(r), 1..Len(q))
    BY <1>2, <1>3, <1>5 DEF Injection, IsInjective
  <2>2. /\ IsFiniteSet(1..Len(q))
        /\ Cardinality(1..Len(q)) = IF 1 > Len(q) THEN 0 ELSE Len(q) - 1 + 1
        /\ Cardinality(1..Len(r)) = IF 1 > Len(r) THEN 0 ELSE Len(r) - 1 + 1
    BY <1>a, <1>b
  <2>3. Cardinality(1..Len(r)) <= Cardinality(1..Len(q))
    BY <2>1, <2>2, FS_Injection
  <2> QED
    BY <2>2, <2>3, <1>3
<1>8. ASSUME q # <<>>, q[1] \notin S PROVE Len(r) < Len(q)
  <2>1. ASSUME NEW i \in DOMAIN r PROVE f[i] \in 2..Len(q)
    <3>1. f[i] \in 1..Len(q) /\ q[f[i]] \in S
      BY <1>1, <1>2, <1>3 DEF Selects
    <3>2. f[i] # 1
      BY <3>1, <1>8
    <3> QED
      BY <3>1, <3>2
  <2>2. f \in Injection(1..Len(r), 2..Len(q))
    BY <1>2, <1>3, <1>5, <2>1 DEF Injection, IsInjective
  <2>3. /\ IsFiniteSet(2..Len(q))
        /\ Cardinality(2..Len(q)) = IF 2 > Len(q) THEN 0 ELSE Len(q) - 2 + 1
        /\ Cardinality(1..Len(r)) = IF 1 > Len(r) THEN 0 ELSE Len(r) - 1 + 1
    BY <1>a, <1>b
  <2>4. Cardinality(1..Len(r)) <= Cardinality(2..Len(q))
    BY <2>2, <2>3, FS_Injection
  <2>5. Len(q) # 0
    BY <1>8
  <2> QED
    BY <2>3, <2>4, <2>5, <1>3
<1> QED
  BY <1>1, <1>4, <1>6, <1>7, <1>8 DEF r

\* The list q after put stored s and evicted E.
StoredList(q, s, E) == Append(Retain(q, Sessions \ (E \cup {s})), s)

IsStored(r, q, s, E) ==
    /\ r \in Seq(Sessions)
    /\ \A t \in Sessions : Has(r, t) <=> t = s \/ (Has(q, t) /\ t \notin E)
    /\ Distinct(q) => Distinct(r)
    /\ Len(r) <= Len(q) + 1
    /\ q # <<>> /\ q[1] \in E => Len(r) <= Len(q)

\* What put makes of a list: s is in it, E is not, and it is longer only if
\* nothing was evicted.
LEMMA Stored ==
    ASSUME NEW q \in Seq(Sessions), NEW s \in Sessions, NEW E \in SUBSET Sessions
    PROVE  IsStored(StoredList(q, s, E), q, s, E)
<1> DEFINE S == Sessions \ (E \cup {s})
           p == Retain(q, S)
           r == StoredList(q, s, E)
<1>1. /\ p \in Seq(Sessions)
      /\ \A t : Has(p, t) <=> Has(q, t) /\ t \in S
      /\ Distinct(q) => Distinct(p)
      /\ Len(p) <= Len(q)
      /\ q # <<>> /\ q[1] \notin S => Len(p) < Len(q)
  BY Retained
<1>2. r = Append(p, s)
  BY DEF StoredList
<1> HIDE DEF p, r
<1>3. /\ r \in Seq(Sessions) /\ Len(r) = Len(p) + 1
      /\ DOMAIN r = 1..(Len(p) + 1) /\ DOMAIN p = 1..Len(p)
      /\ Len(p) \in Nat /\ Len(q) \in Nat
      /\ r[Len(p) + 1] = s
      /\ \A i \in 1..Len(p) : r[i] = p[i]
  <2>1. p \in Seq(Sessions)
    BY <1>1
  <2>2. /\ r \in Seq(Sessions) /\ Len(r) = Len(p) + 1
        /\ r[Len(p) + 1] = s
        /\ \A i \in 1..Len(p) : r[i] = p[i]
    <3> DEFINE a == Append(p, s)
    <3>1. a \in Seq(Sessions) /\ Len(a) = Len(p) + 1
      BY <2>1, AppendProperties
    <3>2. a[Len(p) + 1] = s /\ \A i \in 1..Len(p) : a[i] = p[i]
      BY <2>1, AppendProperties
    <3>3. r = a
      BY <1>2
    <3> HIDE DEF a
    <3> QED
      BY <3>1, <3>2, <3>3
  <2>3. DOMAIN p = 1..Len(p) /\ Len(p) \in Nat /\ Len(q) \in Nat
    BY <2>1, LenProperties
  <2>4. DOMAIN r = 1..(Len(p) + 1)
    BY <2>2, LenProperties
  <2> QED
    BY <2>2, <2>3, <2>4
<1>4. \A t \in Sessions : Has(r, t) <=> t = s \/ Has(p, t)
  <2> TAKE t \in Sessions
  <2>1. ASSUME Has(r, t) PROVE t = s \/ Has(p, t)
    <3>1. PICK i \in 1..(Len(p) + 1) : r[i] = t
      BY <2>1, <1>3 DEF Has
    <3>2. i = Len(p) + 1 \/ i \in 1..Len(p)
      BY <3>1, <1>3
    <3> QED
      BY <3>1, <3>2, <1>3 DEF Has
  <2>2. ASSUME t = s PROVE Has(r, t)
    <3>1. Len(p) + 1 \in DOMAIN r
      BY <1>3
    <3> QED
      BY <3>1, <2>2, <1>3 DEF Has
  <2>3. ASSUME Has(p, t) PROVE Has(r, t)
    <3>1. PICK i \in 1..Len(p) : p[i] = t
      BY <2>3, <1>3 DEF Has
    <3>2. i \in 1..(Len(p) + 1)
      BY <3>1, <1>3
    <3>3. i \in DOMAIN r /\ r[i] = t
      BY <3>1, <3>2, <1>3
    <3> QED
      BY <3>3 DEF Has
  <2> QED
    BY <2>1, <2>2, <2>3
<1>5. ~Has(p, s)
  BY <1>1
<1>6. ASSUME Distinct(q) PROVE Distinct(r)
  <2> SUFFICES ASSUME NEW i \in 1..(Len(p) + 1), NEW j \in 1..(Len(p) + 1),
                      r[i] = r[j], i # j
               PROVE  FALSE
    BY <1>3 DEF Distinct
  <2>1. CASE i \in 1..Len(p) /\ j \in 1..Len(p)
    BY <2>1, <1>1, <1>3, <1>6 DEF Distinct
  <2>2. CASE i = Len(p) + 1
    <3>1. j \in 1..Len(p)
      BY <2>2, <1>3
    <3> QED
      BY <3>1, <2>2, <1>3, <1>5 DEF Has
  <2>3. CASE j = Len(p) + 1
    <3>1. i \in 1..Len(p)
      BY <2>3, <1>3
    <3> QED
      BY <3>1, <2>3, <1>3, <1>5 DEF Has
  <2> QED
    BY <2>1, <2>2, <2>3, <1>3
<1>7. \A t \in Sessions : Has(r, t) <=> t = s \/ (Has(q, t) /\ t \notin E)
  BY <1>1, <1>4
<1>8. Len(r) <= Len(q) + 1
  BY <1>1, <1>3
<1>9. ASSUME q # <<>>, q[1] \in E PROVE Len(r) <= Len(q)
  <2>1. q[1] \notin S
    BY <1>9
  <2>2. Len(p) < Len(q)
    BY <2>1, <1>1, <1>9
  <2> QED
    BY <2>2, <1>3
<1>10. IsStored(r, q, s, E)
  BY <1>3, <1>6, <1>7, <1>8, <1>9 DEF IsStored
<1> QED
  BY <1>10 DEF r
-----------------------------------------------------------------------------
Inv == TypeOK /\ IndexInv /\ SingleUse

\* The invariant in terms of Has and Distinct.
LEMMA InvMeans ==
    ASSUME TypeOK
    PROVE  /\ \A s \in Sessions, k \in Keys : Cached(s, k) <=> Has(lists[k], s)
           /\ IndexInv <=> /\ \A s \in Sessions, k \in Keys :
                                 Has(lists[k], s) <=> reverse[s] = k
                           /\ \A k \in Keys : Distinct(lists[k])
<1>1. \A s \in Sessions, k \in Keys : Cached(s, k) <=> Has(lists[k], s)
  BY DEF Cached, Has
<1>2. QED
  BY <1>1 DEF IndexInv, Distinct

\* put, called by the new-session callback.
LEMMA NewSessionKeeps ==
    ASSUME Inv, NEW h \in Connections, NEW s \in Sessions, NewSession(h, s)
    PROVE  Inv'
<1> DEFINE k == ckey[h]
           q == lists[k]
           E == Evicted(k)
           r == StoredList(q, s, E)
<1>1. TypeOK /\ IndexInv /\ SingleUse
  BY DEF Inv
<1>2. k \in Keys /\ q \in Seq(Sessions)
  BY <1>1 DEF TypeOK, NewSession
<1>3. E \in SUBSET Sessions
  BY DEF Evicted
<1>4. /\ r \in Seq(Sessions)
      /\ \A t \in Sessions : Has(r, t) <=> t = s \/ (Has(q, t) /\ t \notin E)
      /\ Distinct(q) => Distinct(r)
      /\ Len(r) <= Len(q) + 1
      /\ q # <<>> /\ q[1] \in E => Len(r) <= Len(q)
  <2>1. IsStored(r, q, s, E)
    <3> HIDE DEF E, q
    <3> QED
      BY <1>2, <1>3, Stored
  <2> HIDE DEF E, q, r
  <2> QED
    BY <2>1 DEF IsStored
<1>5. /\ lists' = [lists EXCEPT ![k] = r]
      /\ UNCHANGED <<capacity, ckey, resumed>>
      /\ \A t \in Sessions : reverse'[t] = IF t = s THEN k
                                          ELSE IF t \in E THEN NoKey ELSE reverse[t]
      /\ reverse' = [t \in Sessions |-> reverse'[t]]
  BY DEF NewSession, Put, StoredList
<1>6. \A t \in E : q # <<>> /\ t = q[1] /\ Len(q) >= capacity
  BY DEF Evicted
<1>7. q # <<>> /\ Len(q) >= capacity => q[1] \in E
  <2> SUFFICES ASSUME q # <<>>, Len(q) >= capacity PROVE q[1] \in E
    OBVIOUS
  <2>1. q[1] \in Sessions
    BY <1>2
  <2> QED
    BY <2>1 DEF Evicted
<1>8. Issuable(h, s)
  BY DEF NewSession
<1> HIDE DEF E, r, q
<1>9. lists'[k] = r /\ \A j \in Keys : j # k => lists'[j] = lists[j]
  BY <1>2, <1>5, <1>1 DEF TypeOK
<1>10. TypeOK'
  <2>1. lists' \in [Keys -> Seq(Sessions)]
    BY <1>1, <1>2, <1>4, <1>5 DEF TypeOK
  <2>2. reverse' \in [Sessions -> Keys \cup {NoKey}]
    BY <1>1, <1>2, <1>5 DEF TypeOK
  <2>3. capacity \in Nat /\ Len(q) \in Nat /\ Len(r) \in Nat
    BY <1>1, <1>2, <1>4, SessionAssumption DEF TypeOK
  <2>4. Len(q) <= capacity \/ Len(q) <= 1
    BY <1>1, <1>2 DEF TypeOK, q
  <2>5. Len(r) <= capacity \/ Len(r) <= 1
    <3>1. CASE q = <<>>
      BY <3>1, <2>3, <1>4
    <3>2. CASE q # <<>> /\ Len(q) >= capacity
      BY <3>2, <2>3, <2>4, <1>4, <1>7
    <3>3. CASE ~(Len(q) >= capacity)
      BY <3>3, <2>3, <1>4
    <3> QED
      BY <3>1, <3>2, <3>3
  <2>6. \A j \in Keys : Len(lists'[j]) <= capacity' \/ Len(lists'[j]) <= 1
    BY <2>5, <1>1, <1>5, <1>9 DEF TypeOK
  <2> QED
    BY <2>1, <2>2, <2>6, <1>1, <1>5 DEF TypeOK
<1>11. \A t \in Sessions, j \in Keys : Has(lists[j], t) <=> reverse[t] = j
  BY <1>1, InvMeans
<1>12. \A j \in Keys : Has(lists[j], s) => j = k
  BY <1>8, <1>1, InvMeans DEF Issuable
<1>13. \A t \in E : reverse[t] = k
  <2> TAKE t \in E
  <2>1. t = q[1] /\ 1 \in DOMAIN q
    BY <1>6, <1>2
  <2>2. Has(lists[k], t) /\ t \in Sessions
    BY <2>1, <1>3 DEF Has, q
  <2> QED
    BY <2>2, <1>2, <1>11
<1>14. \A t \in Sessions, j \in Keys : Has(lists'[j], t) <=> reverse'[t] = j
  <2> TAKE t \in Sessions, j \in Keys
  <2>1. NoKey # j /\ (t \in E => reverse[t] = k)
    BY <1>13, SessionAssumption
  <2>2. CASE j = k
    BY <2>1, <2>2, <1>4, <1>5, <1>9, <1>11 DEF q
  <2>3. CASE j # k
    BY <2>1, <2>3, <1>5, <1>9, <1>11, <1>12
  <2> QED
    BY <2>2, <2>3
<1>15. \A j \in Keys : Distinct(lists'[j])
  BY <1>1, <1>2, <1>4, <1>9, InvMeans DEF q
<1>16. IndexInv'
  BY <1>14, <1>15 DEF IndexInv, Cached, Has, Distinct
<1>17. SingleUse'
  <2> SUFFICES ASSUME NEW g \in Connections, resumed'[g] \in Tls13
               PROVE  /\ \A f \in Connections : resumed'[f] = resumed'[g] => f = g
                      /\ \A j \in Keys : ~Has(lists'[j], resumed'[g])
    BY DEF SingleUse, Cached, Has
  <2> DEFINE t == resumed[g]
  <2>1. resumed'[g] = t /\ t \in Tls13 /\ t \in Sessions
    BY <1>5, SessionAssumption
  <2>2. t # s
    BY <2>1, <1>8 DEF Issuable
  <2>3. \A j \in Keys : ~Has(lists[j], t)
    BY <2>1, <1>1 DEF SingleUse, Cached, Has
  <2>4. \A j \in Keys : ~Has(lists'[j], t)
    BY <2>1, <2>2, <2>3, <1>2, <1>4, <1>9 DEF q
  <2> QED
    BY <2>1, <2>4, <1>1, <1>5 DEF SingleUse
<1> QED
  BY <1>10, <1>16, <1>17 DEF Inv

\* pop, called when a handshake is set up.
LEMMA ConnectKeeps ==
    ASSUME Inv, NEW h \in Connections, NEW k \in Keys, Connect(h, k)
    PROVE  Inv'
<1>1. TypeOK /\ IndexInv /\ SingleUse
  BY DEF Inv
<1>2. ckey' \in [Connections -> Keys \cup {NoKey}] /\ capacity' = capacity
  BY <1>1 DEF TypeOK, Connect
<1>3. CASE lists[k] = <<>>
  <2>1. UNCHANGED <<lists, reverse, resumed>>
    BY <1>3 DEF Connect
  <2> QED
    BY <2>1, <1>1, <1>2 DEF Inv, TypeOK, IndexInv, SingleUse, Cached
<1>4. CASE lists[k] # <<>>
  <2> DEFINE s == lists[k][1]
  <2>1. Taken(s) /\ resumed' = [resumed EXCEPT ![h] = s]
    BY <1>4 DEF Connect
  <2>2. s \in Sessions /\ Has(lists[k], s)
    <3>1. lists[k] \in Seq(Sessions)
      BY <1>1 DEF TypeOK
    <3>2. 1 \in DOMAIN lists[k] /\ lists[k][1] \in Sessions
      BY <3>1, <1>4
    <3> QED
      BY <3>2 DEF Has
  <2> HIDE DEF s
  <2>3. \A t \in Sessions, j \in Keys : Has(lists[j], t) <=> reverse[t] = j
    BY <1>1, InvMeans
  <2>4. \A j \in Keys : Distinct(lists[j])
    BY <1>1, InvMeans
  <2>5. reverse[s] = k /\ reverse[s] # NoKey
    BY <2>2, <2>3, SessionAssumption
  <2>6. resumed' \in [Connections -> Sessions \cup {NoSession}]
    BY <2>1, <2>2, <1>1 DEF TypeOK
  <2>7. \A g \in Connections : resumed'[g] = IF g = h THEN s ELSE resumed[g]
    BY <2>1, <1>1 DEF TypeOK
  <2>8. \A g \in Connections : resumed[g] \in Tls13 =>
           /\ resumed[g] # s
           /\ \A f \in Connections : resumed[f] = resumed[g] => f = g
           /\ \A j \in Keys : ~Has(lists[j], resumed[g])
    BY <2>2, <1>1 DEF SingleUse, Cached, Has
  <2>9. CASE s \notin Tls13
    <3>1. UNCHANGED <<lists, reverse>>
      BY <2>1, <2>9 DEF Taken
    <3>2. TypeOK' /\ IndexInv'
      BY <3>1, <2>6, <1>1, <1>2 DEF TypeOK, IndexInv, Cached
    <3>3. SingleUse'
      BY <3>1, <2>7, <2>8, <2>9 DEF SingleUse, Cached, Has
    <3> QED
      BY <3>2, <3>3 DEF Inv
  <2>10. CASE s \in Tls13
    <3> DEFINE r == Retain(lists[k], Sessions \ {s})
    <3>1. lists' = [lists EXCEPT ![k] = r] /\ reverse' = [reverse EXCEPT ![s] = NoKey]
      BY <2>1, <2>5, <2>10 DEF Taken
    <3>2. /\ r \in Seq(Sessions)
          /\ \A t : Has(r, t) <=> Has(lists[k], t) /\ t \in Sessions \ {s}
          /\ Distinct(lists[k]) => Distinct(r)
          /\ Len(r) <= Len(lists[k])
      <4>1. lists[k] \in Seq(Sessions)
        BY <1>1 DEF TypeOK
      <4> QED
        BY <4>1, Retained
    <3> HIDE DEF r
    <3>3. lists'[k] = r /\ \A j \in Keys : j # k => lists'[j] = lists[j]
      BY <3>1, <1>1 DEF TypeOK
    <3>4. \A t \in Sessions : reverse'[t] = IF t = s THEN NoKey ELSE reverse[t]
      BY <3>1, <1>1 DEF TypeOK
    <3>5. TypeOK'
      <4>1. lists' \in [Keys -> Seq(Sessions)] /\ reverse' \in [Sessions -> Keys \cup {NoKey}]
        BY <3>1, <3>2, <1>1 DEF TypeOK
      <4>2. Len(r) \in Nat /\ Len(lists[k]) \in Nat /\ capacity \in Nat
        BY <3>2, <1>1, SessionAssumption DEF TypeOK
      <4>3. Len(lists[k]) <= capacity \/ Len(lists[k]) <= 1
        BY <1>1 DEF TypeOK
      <4>4. Len(r) <= capacity \/ Len(r) <= 1
        BY <4>2, <4>3, <3>2
      <4>5. \A j \in Keys : Len(lists'[j]) <= capacity' \/ Len(lists'[j]) <= 1
        BY <4>4, <3>3, <1>1, <1>2 DEF TypeOK
      <4> QED
        BY <4>1, <4>5, <2>6, <1>1, <1>2 DEF TypeOK
    <3>6. \A t \in Sessions, j \in Keys : Has(lists'[j], t) <=> reverse'[t] = j
      <4> TAKE t \in Sessions, j \in Keys
      <4>1. NoKey # j
        BY SessionAssumption
      <4>2. CASE j = k
        BY <4>1, <4>2, <3>2, <3>3, <3>4, <2>3
      <4>3. CASE j # k
        BY <4>1, <4>3, <3>3, <3>4, <2>3, <2>5
      <4> QED
        BY <4>2, <4>3
    <3>7. \A j \in Keys : Distinct(lists'[j])
      BY <3>2, <3>3, <2>4
    <3>8. IndexInv'
      BY <3>6, <3>7 DEF IndexInv, Cached, Has, Distinct
    <3>9. \A j \in Keys : ~Has(lists'[j], s)
      BY <3>4, <3>6, <2>2, SessionAssumption
    <3>10. \A t, j : j \in Keys /\ Has(lists'[j], t) => Has(lists[j], t)
      BY <3>2, <3>3
    <3>11. SingleUse'
      <4> SUFFICES ASSUME NEW g \in Connections, resumed'[g] \in Tls13
                   PROVE  /\ \A f \in Connections : resumed'[f] = resumed'[g] => f = g
                          /\ \A j \in Keys : ~Has(lists'[j], resumed'[g])
        BY DEF SingleUse, Cached, Has
      <4>1. CASE g = h
        BY <4>1, <3>9, <2>7, <2>8, <2>10
      <4>2. CASE g # h
        BY <4>2, <3>10, <2>7, <2>8
      <4> QED
        BY <4>1, <4>2
    <3> QED
      BY <3>5, <3>8, <3>11 DEF Inv
  <2> QED
    BY <2>9, <2>10
<1> QED
  BY <1>3, <1>4

\* The conjunction is inductive.
LEMMA Inductive == Inv /\ [Next]_vars => Inv'
<1> SUFFICES ASSUME Inv, [Next]_vars PROVE Inv'
  OBVIOUS
<1>1. ASSUME NEW h \in Connections, Disconnect(h) PROVE Inv'
  <2>1. /\ UNCHANGED <<capacity, lists, reverse>>
        /\ ckey' = [ckey EXCEPT ![h] = NoKey]
        /\ resumed' = [resumed EXCEPT ![h] = NoSession]
    BY <1>1 DEF Disconnect
  <2>2. TypeOK' /\ IndexInv'
    BY <2>1 DEF Inv, TypeOK, IndexInv, Cached
  <2>3. \A g \in Connections : resumed'[g] = IF g = h THEN NoSession ELSE resumed[g]
    BY <2>1 DEF Inv, TypeOK
  <2>4. NoSession \notin Tls13
    BY SessionAssumption
  <2>5. SingleUse'
    BY <2>1, <2>3, <2>4 DEF Inv, SingleUse, Cached
  <2> QED
    BY <2>2, <2>5 DEF Inv
<1>2. CASE UNCHANGED vars
  BY <1>2 DEF vars, Inv, TypeOK, IndexInv, SingleUse, Cached
<1> QED
  BY <1>1, <1>2, ConnectKeeps, NewSessionKeeps DEF Next

\* An empty cache satisfies the invariant.
LEMMA Initial == Init => Inv
<1> SUFFICES ASSUME Init PROVE Inv
  OBVIOUS
<1>1. \A k \in Keys : lists[k] = <<>> /\ DOMAIN lists[k] = {} /\ Len(lists[k]) = 0
  BY DEF Init
<1>2. TypeOK
  BY <1>1 DEF Init, TypeOK
<1>3. IndexInv
  BY <1>1, SessionAssumption DEF Init, IndexInv, Cached
<1>4. SingleUse
  BY SessionAssumption DEF Init, SingleUse
<1> QED
  BY <1>2, <1>3, <1>4 DEF Inv

\* The session cache (LruTlsSessionCache::put and pop): every list stays within
\* the capacity, for any capacity, any number of keys and any order of calls.
THEOREM CacheTypeSafety == Spec => []TypeOK
<1>1. Inv => TypeOK
  BY DEF Inv
<1> QED
  BY <1>1, Initial, Inductive, PTL DEF Spec

\* The lists and the reverse index of LruTlsSessionCache agree.
THEOREM IndexSafety == Spec => []IndexInv
<1>1. Inv => IndexInv
  BY DEF Inv
<1> QED
  BY <1>1, Initial, Inductive, PTL DEF Spec

\* LruTlsSessionCache::pop never gives one TLS 1.3 session to two handshakes.
THEOREM SingleUseSafety == Spec => []SingleUse
<1>1. Inv => SingleUse
  BY DEF Inv
<1> QED
  BY <1>1, Initial, Inductive, PTL DEF Spec
-----------------------------------------------------------------------------
(***************************************************************************)
(* The attempts.                                                           *)
(***************************************************************************)

\* The client and the requests are those of one scenario.
ScenarioInv == \E sc \in Scenarios : client = sc.client /\ wanted = sc.wanted

Phases ==
    { "idle", "dial", "proxyTls", "connect", "reply", "resolve", "socks", "socksReply",
      "handshake", "ready", "used", "failed" }

Underway == Phases \ {"idle", "ready", "used", "failed"}

WayR(r) == Way(r.desc, r.via)
EndR(r) == EndUri(r.desc, r.via)

\* An attempt is a record with these fields, so that a step changes some of them.
Shape(r) ==
    r = [ phase |-> r.phase, desc |-> r.desc, via |-> r.via, sock |-> r.sock, heard |-> r.heard,
          tls |-> r.tls, told |-> r.told, age |-> r.age, blamed |-> r.blamed ]

\* The request and the route chosen for it stay the same; each leg is one of the
\* legs of that route.  Unusable TLS options end an attempt before its handshake.
LegOK(r) ==
    /\ r.phase \in Phases
    /\ IF r.phase = "idle" THEN r = Idle ELSE r.desc \in wanted /\ r.via = Route(r.desc)
    /\ r.phase = "proxyTls" => WayR(r) = "tunnel"
    /\ r.phase \in {"connect", "reply"} => WayR(r) \in {"tunnel", "unixTunnel"}
    /\ r.phase \in {"resolve", "socks", "socksReply"} => WayR(r) = "socks"
    /\ r.phase = "resolve" => r.via.proxy.uri.scheme \in {"socks4", "socks5"}
    /\ r.phase = "handshake" => EndR(r).scheme # "http"
    /\ r.phase \in Underway /\ Unusable(r.desc) => WayR(r) \in {"socks", "unix", "unixTunnel"}
    /\ r.phase \in {"handshake", "ready", "used"} /\ Unusable(r.desc) =>
          WayR(r) \in {"unix", "unixTunnel"}

\* The socket dialled, and as it is when the connection is handed out.
HandedSocket(d, via) ==
    [ to |-> SocketOf(d, via).to, port |-> SocketOf(d, via).port,
      bind |-> SocketOf(d, via).bind, nodelay |-> client.nodelay ]

SockOK(r) ==
    /\ r.phase \in Underway => r.sock = SocketOf(r.desc, r.via)
    /\ r.phase \in {"ready", "used"} => r.sock = HandedSocket(r.desc, r.via)

\* The TLS state of an attempt: nobody before the last handshake, and then the
\* peer at the end of the route.
Seal(d, via, h2) ==
    [ with |-> EndUri(d, via).host, opts |-> OptionsOf(d, Way(d, via)),
      alpn |-> Alpn(d, Way(d, via)), h2 |-> h2 ]

TlsOK(r) ==
    /\ r.phase \notin {"handshake", "ready", "used"} => r.tls = None
    /\ r.phase = "handshake" => r.tls = Seal(r.desc, r.via, FALSE)
    /\ r.phase \in {"ready", "used"} =>
          IF EndR(r).scheme = "http" THEN r.tls = None
          ELSE \E h2 \in BOOLEAN :
                  /\ r.tls = Seal(r.desc, r.via, h2)
                  /\ h2 => Alpn(r.desc, WayR(r)) \in {"HTTP_2", "default"}

\* What was told to whom: names to the resolver, one credential to the proxy.
SaidOK(d, via, T) ==
    \A t \in T :
        IF t.to = Resolver
        THEN \/ via = None /\ t.what = d.uri.host
             \/ /\ via # None /\ via.kind = "proxy"
                /\ \/ t.what = via.proxy.uri.host
                   \/ via.proxy.uri.scheme \in {"socks4", "socks5"}
        ELSE /\ t.to = via.proxy.uri.host
             /\ Way(d, via) \in {"forward", "tunnel"} => t.what = ProxyAuthorization(via.proxy)

\* The credential was told once it was due.
DrivenH2(r) ==
    r.desc.version = "HTTP_2" \/ client.pref = "HTTP_2" \/ (r.tls # None /\ r.tls.h2)

CredentialDue(r) ==
    \/ r.phase \in {"reply", "handshake", "ready", "used"} /\ WayR(r) = "tunnel"
    \/ r.phase = "used" /\ WayR(r) = "forward" /\ ~DrivenH2(r)

CredentialTold(via, T) ==
    \/ ProxyAuthorization(via.proxy) = None
    \/ \E t \in T : t.to # Resolver

ToldOK(r) ==
    /\ SaidOK(r.desc, r.via, r.told)
    /\ CredentialDue(r) => CredentialTold(r.via, r.told)

\* What was read of the answer of a tunnel's proxy: not all of it before the
\* handshake, a 200 from there on, and a failed attempt is blamed as it says.
HeardOK(r) ==
    WayR(r) \in {"tunnel", "unixTunnel"} =>
        /\ r.phase \notin {"handshake", "ready", "used", "failed"} => ~r.heard.whole
        /\ r.phase \in {"handshake", "ready", "used"} => r.heard = Opened
        /\ r.phase = "failed" =>
              /\ r.heard = Opened => r.blamed # "proxy"
              /\ r.heard.whole /\ r.heard # Opened => r.blamed = "proxy"

AttemptOK(r) ==
    Shape(r) /\ LegOK(r) /\ SockOK(r) /\ TlsOK(r) /\ ToldOK(r) /\ HeardOK(r)

AttemptsInv ==
    /\ DOMAIN at = Connections
    /\ \A h \in Connections : AttemptOK(at[h])

\* A connection of the cache is one whose TLS is that of its identity.
KeysInv ==
    \A h \in Connections : ckey[h] # NoKey =>
        /\ at[h].phase \in {"handshake", "ready", "used"}
        /\ at[h].tls # None
        /\ ckey[h] = IdOf(at[h].desc)

\* What is cached under an identity was issued by the peer that the identity leads to.
Home(k) == EndUri(k, Route(k)).host

IssuersInv ==
    \A s \in Sessions, k \in Keys : Cached(s, k) => issuer[s] = Home(k)

ConnectorInv ==
    /\ ScenarioInv /\ Inv /\ AttemptsInv /\ KeysInv
    /\ DOMAIN issuer = Sessions /\ IssuersInv
-----------------------------------------------------------------------------
(***************************************************************************)
(* Routes.                                                                 *)
(***************************************************************************)
\* What the assumption says of the scenario in use.
LEMMA ScenarioFacts ==
    ASSUME ScenarioInv
    PROVE  /\ client.nodelay \in BOOLEAN
           /\ client.pref \in {"HTTP_11", "HTTP_2", "default"}
           /\ client.proxies \in Seq(Range(client.proxies))
           /\ \A m \in Range(client.proxies) : m # None => MatcherOK(m)
           /\ \A d \in wanted : DescriptorOK(d)
           /\ \A d, e \in wanted :
                 IdOf(d) = IdOf(e) /\ ~Unusable(d) /\ ~Unusable(e) => d.tls = e.tls
BY ConnectorAssumption DEF ScenarioInv, ClientOK

\* A host that ends with the labels of an entry has them as a suffix.
LEMMA SuffixFound ==
    ASSUME NEW l \in Seq(STRING), NEW i \in DOMAIN l, NEW e, SubSeq(l, i, Len(l)) = e
    PROVE  IsSuffix(e, l)
<1> DEFINE n == Len(l)
<1>1. n \in Nat /\ DOMAIN l = 1..n /\ i \in 1..n
  BY LenProperties
<1>2. PICK m \in Nat : m = n - i + 1
  BY <1>1
<1>3. e \in Seq(STRING) /\ Len(e) = m /\ \A j \in 1..m : e[j] = l[i + j - 1]
  <2>1. PICK k : k = n
    OBVIOUS
  <2>2. k \in Int /\ i \in Int /\ i <= k /\ \A j \in i..k : l[j] \in STRING
    BY <2>1, <1>1
  <2>3. /\ SubSeq(l, i, k) \in Seq(STRING)
        /\ Len(SubSeq(l, i, k)) = IF i <= k THEN k - i + 1 ELSE 0
        /\ \A j \in 1..(k - i + 1) : SubSeq(l, i, k)[j] = l[i + j - 1]
    BY <2>2, SubSeqProperties
  <2>4. QED
    BY <2>1, <2>2, <2>3, <1>2
<1>4. Reverse(e) = [j \in 1..m |-> e[(m - j) + 1]] /\ Reverse(l) = [j \in 1..n |-> l[(n - j) + 1]]
  BY <1>3 DEF Reverse
<1>5. \A j \in 1..m : e[(m - j) + 1] = l[(n - j) + 1] /\ j \in 1..n
  <2>1. SUFFICES ASSUME NEW j \in 1..m PROVE e[(m - j) + 1] = l[(n - j) + 1] /\ j \in 1..n
    OBVIOUS
  <2>2. (m - j) + 1 \in 1..m /\ i + ((m - j) + 1) - 1 = (n - j) + 1 /\ j \in 1..n
    BY <1>1, <1>2
  <2>3. QED
    BY <2>2, <1>3
<1> HIDE DEF n
<1>6. \A j \in 1..m : (m - j) + 1 \in 1..m
  OBVIOUS
<1>7. \A j \in 1..n : (n - j) + 1 \in 1..n
  BY <1>1
<1>8. Reverse(e) \in Seq(STRING) /\ Len(Reverse(e)) = m
  BY <1>3, <1>4, <1>6
<1>9. Reverse(l) \in Seq(STRING) /\ Len(Reverse(l)) = n
  BY <1>1, <1>4, <1>7 DEF n
<1>10. m <= n
  BY <1>1, <1>2
<1>11. PICK p, q : p = Reverse(e) /\ q = Reverse(l)
  OBVIOUS
<1>12. \A j \in 1..m : p[j] = q[j]
  BY <1>4, <1>5, <1>11
<1>13. SubSeq(p, 1, m) = SubSeq(q, 1, m)
  <2>1. p \in Seq(STRING) /\ q \in Seq(STRING) /\ Len(p) = m /\ Len(q) = n
    BY <1>8, <1>9, <1>11
  <2>2. /\ SubSeq(p, 1, m) \in Seq(STRING) /\ Len(SubSeq(p, 1, m)) = m
        /\ \A j \in 1..m : SubSeq(p, 1, m)[j] = p[j]
    BY <2>1
  <2>3. /\ SubSeq(q, 1, m) \in Seq(STRING) /\ Len(SubSeq(q, 1, m)) = m
        /\ \A j \in 1..m : SubSeq(q, 1, m)[j] = q[j]
    BY <2>1, <1>1, <1>10
  <2>4. QED
    BY <2>2, <2>3, <1>12, SeqEqual
<1>14. QED
  BY <1>8, <1>9, <1>10, <1>11, <1>13 DEF IsSuffix, IsPrefix

\* The exclusions of the matcher m do not cover the host.
NotExcluded(m, host) ==
    \A e \in m.no :
        CASE e.kind = "network" -> host.kind = "ip" => host.addr \notin e.addrs
          [] e.kind = "wildcard" -> host.kind = "ip"
          [] OTHER -> host.kind = "name" =>
                 \A i \in DOMAIN host.labels :
                     SubSeq(host.labels, i, Len(host.labels)) # e.labels

\* What a route is: none, a Unix socket, or a proxy of a matcher of the request or
\* the client that does not exclude the host.
ViaOK(d, via) ==
    \/ via = None
    \/ via # None /\ \E path : via = ViaUnix(path) /\ path.kind = "path"
    \/ /\ via # None
       /\ \E m \in {d.proxy} \cup Range(client.proxies) : \E i \in {m.http, m.https} :
             /\ m # None /\ i # None /\ via = ViaProxy(i)
             /\ i.uri.scheme \in Socks \cup Httpish /\ HostOK(i.uri.host)
             /\ NotExcluded(m, d.uri.host)

\* Matcher::intercept gives such a route.
LEMMA InterceptOK ==
    ASSUME NEW d, DescriptorOK(d), NEW m \in {d.proxy} \cup Range(client.proxies),
           m # None, MatcherOK(m)
    PROVE  ViaOK(d, Intercept(m, d.uri))
<1>1. PICK via : via = Intercept(m, d.uri)
  OBVIOUS
<1>2. CASE m.unix # None
  <2>1. via = ViaUnix(m.unix) /\ m.unix.kind = "path"
    BY <1>1, <1>2 DEF Intercept, MatcherOK
  <2>2. QED
    BY <2>1, <1>1 DEF ViaOK
<1>3. CASE m.unix = None /\ NoProxyContains(m.no, d.uri.host)
  <2>1. via = None
    BY <1>1, <1>3 DEF Intercept
  <2>2. QED
    BY <2>1, <1>1 DEF ViaOK
<1>4. CASE m.unix = None /\ ~NoProxyContains(m.no, d.uri.host)
  <2>1. d.uri.scheme \in {"http", "https"}
    BY DEF DescriptorOK, Httpish
  <2>2. PICK i : i = IF d.uri.scheme = "http" THEN m.http ELSE m.https
    OBVIOUS
  <2>3. via = IF i = None THEN None ELSE ViaProxy(i)
    BY <1>1, <1>4, <2>1, <2>2 DEF Intercept
  <2>4. i \in {m.http, m.https}
    BY <2>2
  <2>5. i # None => i.uri.scheme \in Socks \cup Httpish /\ HostOK(i.uri.host)
    BY <2>4 DEF MatcherOK
  <2>6. NotExcluded(m, d.uri.host)
    <3>1. PICK host : host = d.uri.host
      OBVIOUS
    <3>2. SUFFICES ASSUME NEW e \in m.no
                   PROVE  CASE e.kind = "network" -> host.kind = "ip" => host.addr \notin e.addrs
                            [] e.kind = "wildcard" -> host.kind = "ip"
                            [] OTHER -> host.kind = "name" =>
                                   \A j \in DOMAIN host.labels :
                                       SubSeq(host.labels, j, Len(host.labels)) # e.labels
      BY <3>1 DEF NotExcluded
    <3>3. host.kind \in {"name", "ip"} /\ (host.kind = "name" => host.labels \in Seq(STRING))
      BY <3>1 DEF DescriptorOK, HostOK
    <3>4. ~ (IF host.kind = "ip" THEN IpMatches(e, host) ELSE DomainMatches(e, host))
      BY <1>4, <3>1 DEF NoProxyContains
    <3>5. CASE e.kind = "network"
      BY <3>4, <3>5 DEF IpMatches
    <3>6. CASE e.kind = "wildcard"
      BY <3>3, <3>4, <3>6 DEF DomainMatches
    <3>7. CASE e.kind = "domain"
      <4>1. ASSUME host.kind = "name", NEW j \in DOMAIN host.labels,
                   SubSeq(host.labels, j, Len(host.labels)) = e.labels
            PROVE  FALSE
        <5>1. PICK l : l = host.labels
          OBVIOUS
        <5>2. l \in Seq(STRING) /\ j \in DOMAIN l /\ SubSeq(l, j, Len(l)) = e.labels
          BY <4>1, <5>1, <3>3
        <5>3. IsSuffix(e.labels, l)
          BY <5>2, SuffixFound
        <5>4. DomainMatches(e, host)
          BY <5>1, <5>3, <3>7 DEF DomainMatches
        <5>5. QED
          BY <5>4, <4>1, <3>4
      <4>2. QED
        BY <4>1, <3>7
    <3>8. e.kind \in {"domain", "network", "wildcard"}
      BY DEF MatcherOK
    <3>9. QED
      BY <3>5, <3>6, <3>7, <3>8
  <2>7. QED
    BY <2>3, <2>4, <2>5, <2>6, <1>1 DEF ViaOK
<1>5. QED
  BY <1>2, <1>3, <1>4

\* connect_auto chooses such a route.
LEMMA RouteOK ==
    ASSUME ScenarioInv, NEW d \in wanted
    PROVE  ViaOK(d, Route(d))
<1> DEFINE ms == <<d.proxy>> \o client.proxies
           hits == {i \in DOMAIN ms : ms[i] # None /\ Intercept(ms[i], d.uri) # None}
           M == {d.proxy} \cup Range(client.proxies)
<1>1. /\ client.proxies \in Seq(Range(client.proxies))
      /\ \A m \in Range(client.proxies) : m # None => MatcherOK(m)
      /\ DescriptorOK(d)
  BY ScenarioFacts
<1>2. client.proxies \in Seq(M) /\ <<d.proxy>> \in Seq(M)
  <2>1. PICK p : p = client.proxies
    OBVIOUS
  <2>2. p \in Seq(Range(p))
    BY <2>1, <1>1
  <2>3. Len(p) \in Nat /\ p \in [1..Len(p) -> Range(p)]
    BY <2>2, LenProperties
  <2>4. Range(p) \subseteq M
    BY <2>1
  <2>5. p \in Seq(M)
    BY <2>2, <2>4
  <2>6. QED
    BY <2>1, <2>5
<1>3. ms \in Seq(M)
  BY <1>2
<1> HIDE DEF ms
<1>4. Len(ms) \in Nat /\ DOMAIN ms = 1..Len(ms) /\ \A i \in DOMAIN ms : ms[i] \in M
  BY <1>3, LenProperties, ElementOfSeq
<1>5. CASE hits = {}
  <2>1. Route(d) = None
    BY <1>5 DEF Route, ms
  <2>2. QED
    BY <2>1 DEF ViaOK
<1>6. CASE hits # {}
  <2>1. PICK n : n = CHOOSE i \in hits : \A j \in hits : i <= j
    OBVIOUS
  <2>2. n \in hits
    <3>1. hits \subseteq Nat
      BY <1>4
    <3>2. \E i \in hits : \A j \in hits : i <= j
      BY <3>1, <1>6, LeastNatural
    <3>3. QED
      BY <3>2, <2>1
  <2>3. Route(d) = Intercept(ms[n], d.uri)
    BY <2>1, <1>6 DEF Route, ms
  <2>4. PICK m \in M : m = ms[n] /\ m # None
    BY <2>2, <1>4
  <2>5. MatcherOK(m)
    BY <2>4, <1>1 DEF DescriptorOK
  <2>6. ViaOK(d, Intercept(m, d.uri))
    BY <2>4, <2>5, <1>1, InterceptOK
  <2>7. QED
    BY <2>3, <2>4, <2>6
<1>7. QED
  BY <1>5, <1>6

\* The ways to a target, told apart by route and scheme (connect_via_proxy).
LEMMA WayFacts ==
    ASSUME NEW d, d.uri.scheme \in Httpish, NEW via, ViaOK(d, via)
    PROVE  /\ Way(d, via) \in {"direct", "unix", "unixTunnel", "socks", "forward", "tunnel"}
           /\ Way(d, via) = "direct" <=> via = None
           /\ Way(d, via) \in {"unix", "unixTunnel"} =>
                 via # None /\ via.kind = "unix" /\ via.path.kind = "path"
           /\ Way(d, via) \in {"socks", "forward", "tunnel"} =>
                 via # None /\ via.kind = "proxy" /\ HostOK(via.proxy.uri.host)
           /\ Way(d, via) = "socks" => via.proxy.uri.scheme \in Socks
           /\ Way(d, via) \in {"forward", "tunnel"} => via.proxy.uri.scheme \in {"http", "https"}
           /\ Way(d, via) \in {"unix", "forward"} => d.uri.scheme = "http"
           /\ Way(d, via) \in {"unixTunnel", "tunnel"} => d.uri.scheme = "https"
           /\ EndUri(d, via) = IF Way(d, via) = "forward" THEN via.proxy.uri ELSE d.uri
<1>1. EndUri(d, via) = IF Way(d, via) = "forward" THEN via.proxy.uri ELSE d.uri
  BY DEF EndUri
<1>2. CASE via = None
  <2>1. Way(d, via) = "direct"
    BY <1>2 DEF Way
  <2>2. QED
    BY <2>1, <1>1, <1>2
<1>3. ASSUME via # None, NEW path, via = ViaUnix(path), path.kind = "path"
      PROVE  /\ Way(d, via) = IF d.uri.scheme = "https" THEN "unixTunnel" ELSE "unix"
             /\ via.kind = "unix" /\ via.path.kind = "path"
  BY <1>3 DEF Way, ViaUnix
<1>4. ASSUME via # None, NEW i, via = ViaProxy(i), i.uri.scheme \in Socks \cup Httpish,
             HostOK(i.uri.host)
      PROVE  /\ via.kind = "proxy" /\ HostOK(via.proxy.uri.host)
             /\ \/ Way(d, via) = "socks" /\ via.proxy.uri.scheme \in Socks
                \/ /\ via.proxy.uri.scheme \in Httpish
                   /\ Way(d, via) = IF d.uri.scheme = "https" THEN "tunnel" ELSE "forward"
  <2>1. via.kind = "proxy" /\ via.proxy = i
    BY <1>4 DEF ViaProxy
  <2>2. CASE i.uri.scheme \in Socks
    BY <1>4, <2>1, <2>2 DEF Way
  <2>3. CASE i.uri.scheme \notin Socks
    BY <1>4, <2>1, <2>3 DEF Way
  <2>4. QED
    BY <2>2, <2>3
<1>5. CASE via # None /\ \E path : via = ViaUnix(path) /\ path.kind = "path"
  <2>1. /\ Way(d, via) = IF d.uri.scheme = "https" THEN "unixTunnel" ELSE "unix"
        /\ via.kind = "unix" /\ via.path.kind = "path"
    BY <1>3, <1>5
  <2>2. QED
    BY <2>1, <1>1, <1>5 DEF Httpish
<1>6. CASE /\ via # None
           /\ \E i : /\ via = ViaProxy(i) /\ i.uri.scheme \in Socks \cup Httpish
                     /\ HostOK(i.uri.host)
  <2>1. /\ via.kind = "proxy" /\ HostOK(via.proxy.uri.host)
        /\ \/ Way(d, via) = "socks" /\ via.proxy.uri.scheme \in Socks
           \/ /\ via.proxy.uri.scheme \in Httpish
              /\ Way(d, via) = IF d.uri.scheme = "https" THEN "tunnel" ELSE "forward"
    BY <1>4, <1>6
  <2>2. QED
    BY <2>1, <1>1, <1>6 DEF Httpish
<1>7. QED
  BY <1>2, <1>5, <1>6 DEF ViaOK

\* The socket that is dialled; Nagle's algorithm differs from what the client wants
\* only where a handshake follows that turns it back.
LEMMA SocketFacts ==
    ASSUME client.nodelay \in BOOLEAN, NEW d, d.uri.scheme \in Httpish, NEW via, ViaOK(d, via)
    PROVE  /\ SocketOf(d, via) = [ to |-> SocketOf(d, via).to, port |-> SocketOf(d, via).port,
                                   bind |-> SocketOf(d, via).bind,
                                   nodelay |-> SocketOf(d, via).nodelay ]
           /\ via = None => SocketOf(d, via).to = d.uri.host
           /\ Way(d, via) \in {"unix", "unixTunnel"} => SocketOf(d, via).to = via.path
           /\ Way(d, via) \in {"socks", "forward", "tunnel"} =>
                 SocketOf(d, via).to = via.proxy.uri.host
           /\ client.nodelay => SocketOf(d, via).nodelay = client.nodelay
           /\ Way(d, via) \in {"unix", "unixTunnel", "socks"} =>
                 SocketOf(d, via).nodelay = client.nodelay
           /\ EndUri(d, via).scheme = "http" => SocketOf(d, via).nodelay = client.nodelay
<1>1. /\ Way(d, via) \in {"direct", "unix", "unixTunnel", "socks", "forward", "tunnel"}
      /\ Way(d, via) = "direct" <=> via = None
      /\ Way(d, via) \in {"unix", "unixTunnel"} => via # None /\ via.kind = "unix"
      /\ Way(d, via) \in {"socks", "forward", "tunnel"} => via # None /\ via.kind = "proxy"
  BY WayFacts
<1>2. CASE Way(d, via) \in {"unix", "unixTunnel"}
  <2>1. SocketOf(d, via) = [to |-> via.path, port |-> None, bind |-> None, nodelay |-> client.nodelay]
    BY <1>1, <1>2 DEF SocketOf
  <2>2. QED
    BY <2>1, <1>1, <1>2
<1>3. CASE Way(d, via) \notin {"unix", "unixTunnel"}
  <2>1. PICK u : u = IF via = None THEN d.uri ELSE via.proxy.uri
    OBVIOUS
  <2>2. PICK b : b = (client.nodelay \/ (Way(d, via) # "socks" /\ EndUri(d, via).scheme = "https"))
    OBVIOUS
  <2>3. via # None => via.kind # "unix"
    BY <1>1, <1>3
  <2>4. SocketOf(d, via) = [ to |-> u.host, port |-> PortOrDefault(u),
                             bind |-> BindOf(d, Way(d, via)), nodelay |-> b ]
    BY <2>1, <2>2, <2>3 DEF SocketOf
  <2>5. /\ SocketOf(d, via).to = u.host /\ SocketOf(d, via).nodelay = b
        /\ SocketOf(d, via) = [ to |-> SocketOf(d, via).to, port |-> SocketOf(d, via).port,
                                bind |-> SocketOf(d, via).bind,
                                nodelay |-> SocketOf(d, via).nodelay ]
    BY <2>4
  <2>6. via = None => u = d.uri
    BY <2>1
  <2>7. via # None => u = via.proxy.uri
    BY <2>1
  <2>8. client.nodelay => b = client.nodelay
    BY <2>2
  <2>9. Way(d, via) = "socks" => b = client.nodelay
    BY <2>2
  <2>10. EndUri(d, via).scheme = "http" => b = client.nodelay
    BY <2>2
  <2>11. QED
    BY <2>5, <2>6, <2>7, <2>8, <2>9, <2>10, <1>1, <1>3
<1>4. QED
  BY <1>2, <1>3

\* A TLS state is not None.
LEMMA SealReal ==
    ASSUME ScenarioInv, NEW d \in wanted, NEW via, ViaOK(d, via), NEW h2 \in BOOLEAN
    PROVE  Seal(d, via, h2) # None
<1>1. PICK sc \in Scenarios : client = sc.client /\ wanted = sc.wanted
  BY DEF ScenarioInv
<1>2. None \notin TlsStates(sc)
  BY ConnectorAssumption
<1>3. DescriptorOK(d)
  BY ScenarioFacts
<1>4. EndUri(d, via).host \in HostsOf(sc)
  <2>1. CASE Way(d, via) # "forward"
    <3>1. EndUri(d, via).host = d.uri.host
      BY <2>1 DEF EndUri
    <3>2. QED
      BY <3>1, <1>1 DEF HostsOf
  <2>2. CASE Way(d, via) = "forward"
    <3>1. EndUri(d, via).host = via.proxy.uri.host
      BY <2>2 DEF EndUri
    <3>2. via # None /\ via.kind = "proxy"
      BY <2>2, <1>3, WayFacts DEF DescriptorOK
    <3>3. \A path : via # ViaUnix(path)
      BY <3>2 DEF ViaUnix
    <3>4. PICK m \in {d.proxy} \cup Range(client.proxies) : \E i \in {m.http, m.https} :
             m # None /\ i # None /\ via = ViaProxy(i)
      BY <3>2, <3>3 DEF ViaOK
    <3>5. PICK i \in {m.http, m.https} : m # None /\ i # None /\ via = ViaProxy(i)
      BY <3>4
    <3>6. via.proxy = i
      BY <3>5 DEF ViaProxy
    <3>7. PICK N : N = ({e.proxy : e \in sc.wanted} \cup Range(sc.client.proxies)) \ {None}
      OBVIOUS
    <3>8. m \in N
      BY <3>4, <3>5, <3>7, <1>1
    <3>9. {m.http, m.https} \in {{n.http, n.https} : n \in N}
      BY <3>8
    <3>10. i \in (UNION {{n.http, n.https} : n \in N}) \ {None}
      BY <3>5, <3>9
    <3>11. via.proxy.uri.host \in {j.uri.host : j \in (UNION {{n.http, n.https} : n \in N}) \ {None}}
      BY <3>6, <3>10
    <3>12. QED
      BY <3>1, <3>7, <3>11 DEF HostsOf
  <2>3. QED
    BY <2>1, <2>2
<1>5. OptionsOf(d, Way(d, via)) \in {e.tls : e \in sc.wanted} \cup {"client"}
  BY <1>1 DEF OptionsOf
<1>6. Alpn(d, Way(d, via)) \in {"HTTP_11", "HTTP_2", "default", None}
  BY <1>3, ScenarioFacts DEF Alpn, DescriptorOK
<1>7. Seal(d, via, h2) \in TlsStates(sc)
  BY <1>4, <1>5, <1>6 DEF Seal, TlsStates
<1>8. QED
  BY <1>2, <1>7

\* Descriptors of one identity have the same route, way and end.
LEMMA SameRoute ==
    ASSUME NEW d, NEW e, d.uri = e.uri, d.proxy = e.proxy
    PROVE  Route(d) = Route(e) /\ \A via : Way(d, via) = Way(e, via) /\ EndUri(d, via) = EndUri(e, via)
<1>1. Route(d) = Route(e)
  BY DEF Route
<1>2. \A via : Way(d, via) = Way(e, via)
  BY DEF Way
<1>3. QED
  BY <1>1, <1>2 DEF EndUri

\* The client and the requests stay, so what is right of an attempt stays right.
LEMMA Frame ==
    ASSUME client' = client, wanted' = wanted, NEW h, NEW r, at'[h] = r, AttemptOK(r)
    PROVE  AttemptOK(at[h])'
<1>1. Route(at[h].desc)' = Route(r.desc)
  BY DEF Route
<1>2. SocketOf(at[h].desc, at[h].via)' = SocketOf(r.desc, r.via)
  BY DEF SocketOf, BindOf
<1>3. HandedSocket(at[h].desc, at[h].via)' = HandedSocket(r.desc, r.via)
  BY <1>2 DEF HandedSocket
<1>4. Shape(at[h])'
  BY DEF AttemptOK, Shape
<1>5. LegOK(at[h])'
  BY <1>1 DEF AttemptOK, LegOK, WayR, EndR
<1>6. SockOK(at[h])'
  BY <1>2, <1>3 DEF AttemptOK, SockOK
<1>7. TlsOK(at[h])'
  <2>1. \A h2 : Seal(at[h].desc, at[h].via, h2)' = Seal(r.desc, r.via, h2)
    BY DEF Seal, Alpn, OptionsOf, EndUri
  <2>2. Alpn(at[h].desc, WayR(at[h]))' = Alpn(r.desc, WayR(r))
    BY DEF Alpn, WayR
  <2>3. QED
    BY <2>1, <2>2 DEF AttemptOK, TlsOK, EndR
<1>8. ToldOK(at[h])' /\ HeardOK(at[h])'
  BY DEF AttemptOK, ToldOK, CredentialDue, DrivenH2, HeardOK, WayR
<1>9. QED
  BY <1>4, <1>5, <1>6, <1>7, <1>8 DEF AttemptOK
-----------------------------------------------------------------------------
(***************************************************************************)
(* The moves of one attempt: r is its state before, x after.               *)
(***************************************************************************)
\* What is known of an attempt that has chosen its route.
LEMMA Known ==
    ASSUME ScenarioInv, NEW r, LegOK(r), r.phase # "idle"
    PROVE  /\ r.desc \in wanted /\ r.via = Route(r.desc)
           /\ DescriptorOK(r.desc) /\ r.desc.uri.scheme \in Httpish
           /\ ViaOK(r.desc, r.via)
           /\ client.nodelay \in BOOLEAN
<1>1. r.desc \in wanted /\ r.via = Route(r.desc)
  BY DEF LegOK
<1>2. DescriptorOK(r.desc) /\ client.nodelay \in BOOLEAN
  BY <1>1, ScenarioFacts
<1>3. PICK d : d = r.desc
  OBVIOUS
<1>4. ViaOK(d, Route(d))
  BY <1>1, <1>3, RouteOK
<1>5. QED
  BY <1>1, <1>2, <1>3, <1>4 DEF DescriptorOK

\* Before the last handshake: the next leg of the route.
LEMMA NextLeg ==
    ASSUME ScenarioInv, NEW r, AttemptOK(r), r.phase \in Underway \ {"handshake"},
           NEW x, Shape(x), x.phase \in Underway \ {"handshake"},
           x.desc = r.desc, x.via = r.via, x.sock = r.sock, x.tls = r.tls, x.heard = r.heard,
           x.phase = "proxyTls" => WayR(r) = "tunnel",
           x.phase \in {"connect", "reply"} => WayR(r) \in {"tunnel", "unixTunnel"},
           x.phase \in {"resolve", "socks", "socksReply"} => WayR(r) = "socks",
           x.phase = "resolve" => r.via.proxy.uri.scheme \in {"socks4", "socks5"},
           SaidOK(r.desc, r.via, x.told),
           x.phase = "reply" /\ WayR(r) = "tunnel" => CredentialTold(r.via, x.told)
    PROVE  AttemptOK(x)
<1>1. LegOK(r) /\ SockOK(r) /\ TlsOK(r) /\ r.phase # "idle"
      /\ r.desc \in wanted /\ r.via = Route(r.desc)
  BY Known DEF AttemptOK, Underway
<1>2. WayR(x) = WayR(r) /\ EndR(x) = EndR(r)
  BY DEF WayR, EndR
<1>3. x.phase \notin {"idle", "ready", "used", "failed", "handshake"} /\ x.phase \in Phases
  BY DEF Underway, Phases
<1>4. LegOK(x)
  BY <1>1, <1>2, <1>3 DEF LegOK
<1>5. SockOK(x)
  BY <1>1, <1>3 DEF SockOK
<1>6. TlsOK(x)
  BY <1>1, <1>3 DEF TlsOK, Underway
<1>7. ToldOK(x)
  BY <1>2, <1>3 DEF ToldOK, CredentialDue
<1>8. HeardOK(x)
  BY <1>2, <1>3 DEF AttemptOK, HeardOK, Underway
<1>9. QED
  BY <1>4, <1>5, <1>6, <1>7, <1>8 DEF AttemptOK

\* setup_ssl2: TLS with the end of the route begins.
LEMMA HandshakeBegins ==
    ASSUME ScenarioInv, NEW r, AttemptOK(r), r.phase \in {"dial", "reply", "socksReply"},
           NEW x, Shape(x), x.phase = "handshake",
           x.desc = r.desc, x.via = r.via, x.sock = r.sock, x.told = r.told,
           x.tls = Seal(r.desc, r.via, FALSE),
           EndR(r).scheme # "http",
           Unusable(r.desc) => WayR(r) \in {"unix", "unixTunnel"},
           WayR(r) = "tunnel" => r.phase = "reply",
           WayR(r) \in {"tunnel", "unixTunnel"} => x.heard = Opened
    PROVE  AttemptOK(x)
<1>1. LegOK(r) /\ SockOK(r) /\ TlsOK(r) /\ ToldOK(r)
      /\ r.desc \in wanted /\ r.via = Route(r.desc)
  BY Known DEF AttemptOK
<1>2. WayR(x) = WayR(r) /\ EndR(x) = EndR(r)
  BY DEF WayR, EndR
<1>3. LegOK(x)
  BY <1>1, <1>2 DEF LegOK, Phases, Underway
<1>4. SockOK(x)
  BY <1>1 DEF SockOK, Underway, Phases
<1>5. TlsOK(x)
  BY <1>2 DEF TlsOK
<1>6. ToldOK(x)
  <2>1. CredentialDue(x) => CredentialDue(r)
    BY <1>2 DEF CredentialDue
  <2>2. QED
    BY <2>1, <1>1 DEF ToldOK
<1>7. HeardOK(x)
  BY <1>2 DEF HeardOK
<1>8. QED
  BY <1>3, <1>4, <1>5, <1>6, <1>7 DEF AttemptOK

\* HttpsConnector hands out a connection without TLS at its end.
LEMMA PlainReady ==
    ASSUME ScenarioInv, NEW r, AttemptOK(r), r.phase \in {"dial", "socksReply"},
           NEW x, Shape(x), x.phase = "ready",
           x.desc = r.desc, x.via = r.via, x.sock = r.sock, x.told = r.told, x.tls = r.tls,
           EndR(r).scheme = "http",
           Unusable(r.desc) => WayR(r) \in {"unix", "unixTunnel"},
           WayR(r) \notin {"tunnel", "unixTunnel"}
    PROVE  AttemptOK(x)
<1>1. LegOK(r) /\ SockOK(r) /\ TlsOK(r) /\ ToldOK(r)
  BY DEF AttemptOK
<1>2. /\ r.desc \in wanted /\ r.via = Route(r.desc)
      /\ r.desc.uri.scheme \in Httpish /\ ViaOK(r.desc, r.via) /\ client.nodelay \in BOOLEAN
  BY <1>1, Known
<1>3. WayR(x) = WayR(r) /\ EndR(x) = EndR(r)
  BY DEF WayR, EndR
<1>4. LegOK(x)
  BY <1>1, <1>2, <1>3 DEF LegOK, Phases, Underway
<1>5. SockOK(x)
  <2>1. PICK d, via : d = r.desc /\ via = r.via
    OBVIOUS
  <2>2. /\ SocketOf(d, via) = [ to |-> SocketOf(d, via).to, port |-> SocketOf(d, via).port,
                                bind |-> SocketOf(d, via).bind,
                                nodelay |-> SocketOf(d, via).nodelay ]
        /\ EndUri(d, via).scheme = "http" => SocketOf(d, via).nodelay = client.nodelay
    BY <2>1, <1>2, SocketFacts
  <2>3. SocketOf(d, via) = HandedSocket(d, via)
    BY <2>1, <2>2 DEF HandedSocket, EndR
  <2>4. r.sock = SocketOf(d, via)
    BY <2>1, <1>1 DEF SockOK, Underway, Phases
  <2>5. QED
    BY <2>1, <2>3, <2>4 DEF SockOK, Underway
<1>6. TlsOK(x)
  BY <1>1, <1>3 DEF TlsOK
<1>7. ToldOK(x)
  BY <1>1, <1>3 DEF ToldOK, CredentialDue
<1>8. HeardOK(x)
  BY <1>3 DEF HeardOK
<1>9. QED
  BY <1>4, <1>5, <1>6, <1>7, <1>8 DEF AttemptOK

\* The handshake is done: the socket is as the client wants it, and the version is
\* one that was offered.
LEMMA SealedReady ==
    ASSUME ScenarioInv, NEW r, AttemptOK(r), r.phase = "handshake",
           NEW h2 \in BOOLEAN, h2 => r.tls.alpn \in {"HTTP_2", "default"},
           NEW x, Shape(x), x.phase = "ready",
           x.desc = r.desc, x.via = r.via, x.told = r.told, x.heard = r.heard,
           x.sock = IF WayR(r) # "unixTunnel" /\ ~client.nodelay
                    THEN [r.sock EXCEPT !.nodelay = FALSE] ELSE r.sock,
           x.tls = [r.tls EXCEPT !.h2 = h2]
    PROVE  AttemptOK(x)
<1>1. LegOK(r) /\ SockOK(r) /\ TlsOK(r) /\ ToldOK(r)
  BY DEF AttemptOK
<1>2. /\ r.desc \in wanted /\ r.via = Route(r.desc)
      /\ r.desc.uri.scheme \in Httpish /\ ViaOK(r.desc, r.via) /\ client.nodelay \in BOOLEAN
  BY <1>1, Known
<1>3. WayR(x) = WayR(r) /\ EndR(x) = EndR(r)
  BY DEF WayR, EndR
<1>4. LegOK(x)
  BY <1>1, <1>2, <1>3 DEF LegOK, Phases, Underway
<1>5. SockOK(x)
  <2>1. PICK d, via : d = r.desc /\ via = r.via
    OBVIOUS
  <2>2. PICK to, port, bind, nodelay :
            /\ SocketOf(d, via) = [to |-> to, port |-> port, bind |-> bind, nodelay |-> nodelay]
            /\ HandedSocket(d, via) = [to |-> to, port |-> port, bind |-> bind,
                                       nodelay |-> client.nodelay]
            /\ client.nodelay => nodelay = client.nodelay
            /\ Way(d, via) = "unixTunnel" => nodelay = client.nodelay
    <3>1. /\ SocketOf(d, via) = [ to |-> SocketOf(d, via).to, port |-> SocketOf(d, via).port,
                                  bind |-> SocketOf(d, via).bind,
                                  nodelay |-> SocketOf(d, via).nodelay ]
          /\ client.nodelay => SocketOf(d, via).nodelay = client.nodelay
          /\ Way(d, via) = "unixTunnel" => SocketOf(d, via).nodelay = client.nodelay
      BY <2>1, <1>2, SocketFacts
    <3>2. QED
      BY <3>1 DEF HandedSocket
  <2>3. r.sock = SocketOf(d, via)
    BY <2>1, <1>1 DEF SockOK, Underway, Phases
  <2>4. x.sock = HandedSocket(d, via)
    <3>1. CASE WayR(r) # "unixTunnel" /\ ~client.nodelay
      <4>1. x.sock = [[to |-> to, port |-> port, bind |-> bind, nodelay |-> nodelay]
                          EXCEPT !.nodelay = FALSE]
        BY <3>1, <2>2, <2>3
      <4>2. x.sock = [to |-> to, port |-> port, bind |-> bind, nodelay |-> FALSE]
        BY <4>1
      <4>3. client.nodelay = FALSE
        BY <3>1, <1>2
      <4>4. QED
        BY <4>2, <4>3, <2>2
    <3>2. CASE ~ (WayR(r) # "unixTunnel" /\ ~client.nodelay)
      <4>1. nodelay = client.nodelay
        BY <3>2, <2>1, <2>2 DEF WayR
      <4>2. QED
        BY <4>1, <3>2, <2>2, <2>3
    <3>3. QED
      BY <3>1, <3>2
  <2>5. QED
    BY <2>1, <2>4 DEF SockOK, Underway
<1>6. TlsOK(x)
  <2>1. PICK with, opts, alpn :
            /\ Seal(r.desc, r.via, FALSE) = [with |-> with, opts |-> opts, alpn |-> alpn, h2 |-> FALSE]
            /\ Seal(r.desc, r.via, h2) = [with |-> with, opts |-> opts, alpn |-> alpn, h2 |-> h2]
            /\ alpn = Alpn(r.desc, WayR(r))
    BY DEF Seal, WayR
  <2>2. r.tls = [with |-> with, opts |-> opts, alpn |-> alpn, h2 |-> FALSE]
    BY <2>1, <1>1 DEF TlsOK
  <2>3. x.tls = Seal(r.desc, r.via, h2) /\ (h2 => alpn \in {"HTTP_2", "default"})
    BY <2>1, <2>2
  <2>4. EndR(r).scheme # "http"
    BY <1>1 DEF LegOK
  <2>5. QED
    BY <2>1, <2>3, <2>4, <1>3 DEF TlsOK
<1>7. ToldOK(x)
  <2>1. CredentialDue(x) => CredentialDue(r)
    BY <1>3 DEF CredentialDue
  <2>2. QED
    BY <2>1, <1>1 DEF ToldOK
<1>8. HeardOK(x)
  BY <1>3 DEF AttemptOK, HeardOK
<1>9. QED
  BY <1>4, <1>5, <1>6, <1>7, <1>8 DEF AttemptOK

\* What is said in two steps is right if each is.
LEMMA SaidBoth ==
    ASSUME NEW d, NEW via, NEW T, NEW U, SaidOK(d, via, T), SaidOK(d, via, U)
    PROVE  SaidOK(d, via, T \cup U)
BY DEF SaidOK

\* The name that is dialled is resolved: that of the target or of its proxy.
LEMMA DialledSaid ==
    ASSUME client.nodelay \in BOOLEAN, NEW d, d.uri.scheme \in Httpish, NEW via, ViaOK(d, via)
    PROVE  SaidOK(d, via, Looked(SocketOf(d, via).to))
<1>1. /\ Way(d, via) \in {"direct", "unix", "unixTunnel", "socks", "forward", "tunnel"}
      /\ Way(d, via) = "direct" <=> via = None
      /\ Way(d, via) \in {"unix", "unixTunnel"} => via.path.kind = "path"
      /\ Way(d, via) \in {"socks", "forward", "tunnel"} => via # None /\ via.kind = "proxy"
  BY WayFacts
<1>2. PICK to : to = SocketOf(d, via).to
  OBVIOUS
<1>3. /\ via = None => to = d.uri.host
      /\ Way(d, via) \in {"unix", "unixTunnel"} => to = via.path
      /\ Way(d, via) \in {"socks", "forward", "tunnel"} => to = via.proxy.uri.host
  BY <1>2, SocketFacts
<1>4. Looked(to) \subseteq IF to.kind = "name" THEN {[to |-> Resolver, what |-> to]} ELSE {}
  BY DEF Looked, Told
<1>5. CASE Way(d, via) \in {"unix", "unixTunnel"}
  <2>1. Looked(to) = {}
    BY <1>1, <1>3, <1>4, <1>5
  <2>2. QED
    BY <2>1, <1>2 DEF SaidOK
<1>6. CASE Way(d, via) \notin {"unix", "unixTunnel"}
  <2>1. \A t \in Looked(to) : t.to = Resolver /\ t.what = to
    BY <1>4
  <2>2. \/ via = None /\ to = d.uri.host
        \/ via # None /\ via.kind = "proxy" /\ to = via.proxy.uri.host
    BY <1>1, <1>3, <1>6
  <2>3. QED
    BY <2>1, <2>2, <1>2 DEF SaidOK
<1>7. QED
  BY <1>5, <1>6

\* The name of the target is resolved for a proxy that does not resolve names.
LEMMA ResolvedSaid ==
    ASSUME NEW d, d.uri.scheme \in Httpish, NEW via, ViaOK(d, via), Way(d, via) = "socks",
           via.proxy.uri.scheme \in {"socks4", "socks5"}
    PROVE  SaidOK(d, via, Looked(d.uri.host))
<1>1. via # None /\ via.kind = "proxy"
  BY WayFacts
<1>2. \A t \in Looked(d.uri.host) : t.to = Resolver
  BY DEF Looked, Told
<1>3. QED
  BY <1>1, <1>2 DEF SaidOK

\* A proxy is told its credential.
LEMMA CredentialSaid ==
    ASSUME NEW d, d.uri.scheme \in Httpish, NEW via, ViaOK(d, via),
           Way(d, via) \in {"socks", "forward", "tunnel"}, NEW what,
           Way(d, via) # "socks" => what = ProxyAuthorization(via.proxy)
    PROVE  /\ SaidOK(d, via, Told(via.proxy.uri.host, what))
           /\ Way(d, via) # "socks" => CredentialTold(via, Told(via.proxy.uri.host, what))
<1>1. HostOK(via.proxy.uri.host)
  BY WayFacts
<1>2. PICK to : to = via.proxy.uri.host
  OBVIOUS
<1>3. to # Resolver
  BY <1>1, <1>2 DEF HostOK, Resolver
<1>4. Told(to, what) = IF what = None THEN {} ELSE {[to |-> to, what |-> what]}
  BY DEF Told
<1>5. \A t \in Told(to, what) : t.to = to /\ t.what = what
  BY <1>4
<1>6. SaidOK(d, via, Told(to, what))
  BY <1>2, <1>3, <1>5 DEF SaidOK
<1>7. ASSUME what # None PROVE \E t \in Told(to, what) : t.to # Resolver
  <2>1. PICK t : t = [to |-> to, what |-> what]
    OBVIOUS
  <2>2. t.to = to /\ t \in Told(to, what)
    BY <2>1, <1>4, <1>7
  <2>3. QED
    BY <2>2, <1>3
<1>8. QED
  BY <1>2, <1>6, <1>7 DEF CredentialTold

\* try_send_request: the connection is used, and the proxy gets its credential if due.
LEMMA FirstUse ==
    ASSUME ScenarioInv, NEW r, AttemptOK(r), r.phase = "ready",
           NEW x, Shape(x), x.phase = "used",
           x.desc = r.desc, x.via = r.via, x.sock = r.sock, x.tls = r.tls, x.heard = r.heard,
           x.told = r.told \cup (IF WayR(r) = "forward" /\ ~DrivenH2(r)
                                 THEN Told(EndR(r).host, ProxyAuthorization(r.via.proxy)) ELSE {})
    PROVE  AttemptOK(x)
<1>1. LegOK(r) /\ SockOK(r) /\ TlsOK(r) /\ ToldOK(r)
  BY DEF AttemptOK
<1>2. /\ r.desc \in wanted /\ r.via = Route(r.desc)
      /\ r.desc.uri.scheme \in Httpish /\ ViaOK(r.desc, r.via)
  BY <1>1, Known
<1>3. WayR(x) = WayR(r) /\ EndR(x) = EndR(r)
  BY DEF WayR, EndR
<1>4. LegOK(x)
  BY <1>1, <1>2, <1>3 DEF LegOK, Phases, Underway
<1>5. SockOK(x)
  BY <1>1 DEF SockOK, Underway
<1>6. TlsOK(x)
  BY <1>1, <1>3 DEF TlsOK
<1>7. ToldOK(x)
  <2>1. PICK d, via : d = r.desc /\ via = r.via
    OBVIOUS
  <2>2. CASE WayR(r) = "forward" /\ ~DrivenH2(r)
    <3>1. PICK C : C = Told(via.proxy.uri.host, ProxyAuthorization(via.proxy))
      OBVIOUS
    <3>2. x.told = r.told \cup C
      BY <2>1, <2>2, <3>1 DEF EndR, WayR, EndUri
    <3>3. Way(d, via) = "forward"
      BY <2>1, <2>2 DEF WayR
    <3>4. SaidOK(d, via, C) /\ CredentialTold(via, C)
      BY <2>1, <3>1, <3>3, <1>2, CredentialSaid
    <3>5. SaidOK(d, via, r.told)
      BY <2>1, <1>1 DEF ToldOK
    <3>6. SaidOK(d, via, x.told)
      BY <3>2, <3>4, <3>5, SaidBoth
    <3>7. CredentialTold(via, x.told)
      BY <3>2, <3>4 DEF CredentialTold
    <3>8. QED
      BY <2>1, <3>6, <3>7 DEF ToldOK
  <2>3. CASE ~(WayR(r) = "forward" /\ ~DrivenH2(r))
    <3>1. x.told = r.told
      BY <2>3
    <3>2. CredentialDue(x) => CredentialDue(r)
      BY <2>3, <1>3 DEF CredentialDue, DrivenH2
    <3>3. QED
      BY <3>1, <3>2, <1>1 DEF ToldOK
  <2>4. QED
    BY <2>2, <2>3
<1>8. HeardOK(x)
  BY <1>3 DEF AttemptOK, HeardOK
<1>9. QED
  BY <1>4, <1>5, <1>6, <1>7, <1>8 DEF AttemptOK

\* An attempt fails with what was read so far, or at the answer of its proxy.
LEMMA Failed ==
    ASSUME ScenarioInv, NEW r, AttemptOK(r), r.phase \in Underway, NEW kind, NEW head,
           \/ /\ head = r.heard
              /\ kind = "proxy" /\ WayR(r) \in {"tunnel", "unixTunnel"} => r.phase # "handshake"
           \/ r.phase = "reply" /\ head # Opened /\ kind = "proxy",
           NEW x, Shape(x), x.phase = "failed", x.heard = head, x.blamed = kind,
           x.desc = r.desc, x.via = r.via, x.sock = None, x.tls = None, x.told = {}
    PROVE  AttemptOK(x)
<1>1. LegOK(r) /\ HeardOK(r) /\ r.phase # "idle" /\ r.phase \notin {"ready", "used", "failed"}
  BY DEF AttemptOK, Underway
<1>2. /\ r.desc \in wanted /\ r.via = Route(r.desc)
  BY <1>1, Known
<1>3. WayR(x) = WayR(r)
  BY DEF WayR
<1>4. LegOK(x)
  BY <1>2 DEF LegOK, Phases, Underway
<1>5. SockOK(x) /\ TlsOK(x)
  BY DEF SockOK, TlsOK, Underway
<1>6. ToldOK(x)
  BY DEF ToldOK, SaidOK, CredentialDue
<1>7. HeardOK(x)
  <2>1. Opened.whole
    BY DEF Opened
  <2>2. QED
    BY <2>1, <1>1, <1>3 DEF HeardOK
<1>8. QED
  BY <1>4, <1>5, <1>6, <1>7 DEF AttemptOK

\* A part of an answer is heard, or time passes: nothing else changes.
LEMMA OnlyTime ==
    ASSUME NEW r, AttemptOK(r), r.phase # "idle",
           NEW x, Shape(x), x.phase = r.phase, x.desc = r.desc, x.via = r.via, x.sock = r.sock,
           x.tls = r.tls, x.told = r.told, x.blamed = r.blamed,
           HeardOK(x)
    PROVE  AttemptOK(x)
<1>1. WayR(x) = WayR(r) /\ EndR(x) = EndR(r)
  BY DEF WayR, EndR
<1>2. LegOK(r) /\ SockOK(r) /\ TlsOK(r) /\ ToldOK(r)
  BY DEF AttemptOK
<1>3. LegOK(x)
  BY <1>1, <1>2 DEF LegOK
<1>4. SockOK(x) /\ TlsOK(x)
  BY <1>1, <1>2 DEF SockOK, TlsOK
<1>5. ToldOK(x)
  BY <1>1, <1>2 DEF ToldOK, CredentialDue, DrivenH2
<1>6. QED
  BY <1>3, <1>4, <1>5 DEF AttemptOK

\* An attempt that does not exist.
LEMMA IdleOK == AttemptOK(Idle)
<1>1. /\ Idle.phase = "idle" /\ Idle.tls = None /\ Idle.told = {} /\ Shape(Idle)
      /\ ~Idle.heard.whole
  BY DEF Idle, Shape, Nothing
<1>2. LegOK(Idle) /\ SockOK(Idle) /\ TlsOK(Idle)
  BY <1>1 DEF LegOK, SockOK, TlsOK, Underway, Phases
<1>3. ToldOK(Idle) /\ HeardOK(Idle)
  BY <1>1 DEF ToldOK, SaidOK, CredentialDue, HeardOK
<1>4. QED
  BY <1>1, <1>2, <1>3 DEF AttemptOK

\* connect_auto: an attempt whose connector cannot be built fails at once.
LEMMA StartFails ==
    ASSUME NEW d \in wanted, NEW via, via = Route(d), NEW blamed,
           NEW x, x = [ phase |-> "failed", desc |-> d, via |-> via, sock |-> None, heard |-> Nothing,
                        tls |-> None, told |-> {}, age |-> 0, blamed |-> blamed ]
    PROVE  AttemptOK(x)
<1>1. /\ x.phase = "failed" /\ x.desc = d /\ x.via = via /\ x.tls = None /\ x.told = {}
      /\ ~x.heard.whole /\ x.heard # Opened
  BY DEF Nothing, Opened
<1>2. Shape(x)
  BY DEF Shape
<1>3. LegOK(x) /\ SockOK(x) /\ TlsOK(x)
  BY <1>1 DEF LegOK, SockOK, TlsOK, Underway, Phases
<1>4. ToldOK(x) /\ HeardOK(x)
  BY <1>1 DEF ToldOK, SaidOK, CredentialDue, HeardOK
<1>5. QED
  BY <1>2, <1>3, <1>4 DEF AttemptOK

\* connect_auto: an attempt starts with its route.
LEMMA StartDials ==
    ASSUME ScenarioInv, NEW d \in wanted, NEW via, via = Route(d),
           ~(Unusable(d) /\ Way(d, via) \in {"direct", "forward", "tunnel"}),
           NEW sock, sock = SocketOf(d, via), NEW told, told = Looked(SocketOf(d, via).to),
           NEW x, x = [ phase |-> "dial", desc |-> d, via |-> via, sock |-> sock, heard |-> Nothing,
                        tls |-> None, told |-> told, age |-> 0, blamed |-> None ]
    PROVE  AttemptOK(x)
<1>1. d.uri.scheme \in Httpish /\ client.nodelay \in BOOLEAN
  BY ScenarioFacts DEF DescriptorOK
<1>2. ViaOK(d, via)
  BY RouteOK
<1>3. /\ x.phase = "dial" /\ x.desc = d /\ x.via = via /\ x.tls = None /\ x.told = told
      /\ x.sock = sock /\ ~x.heard.whole
  BY DEF Nothing
<1>4. Shape(x)
  BY DEF Shape
<1>5. Way(d, via) \in {"direct", "unix", "unixTunnel", "socks", "forward", "tunnel"}
  BY <1>1, <1>2, WayFacts
<1>6. LegOK(x)
  BY <1>3, <1>5 DEF LegOK, Underway, Phases, WayR
<1>7. SockOK(x) /\ TlsOK(x) /\ HeardOK(x)
  BY <1>3 DEF SockOK, TlsOK, HeardOK
<1>8. SaidOK(d, via, told)
  BY <1>1, <1>2, DialledSaid
<1>9. ToldOK(x)
  BY <1>3, <1>8 DEF ToldOK, CredentialDue
<1>10. QED
  BY <1>4, <1>6, <1>7, <1>9 DEF AttemptOK
-----------------------------------------------------------------------------
(***************************************************************************)
(* The effect of a step: one attempt moves, and the session cache is left  *)
(* alone, asked for a session, or loses the connection.                    *)
(***************************************************************************)
Quiet(h, x) ==
    /\ UNCHANGED vars
    /\ ckey[h] # NoKey =>
          x.desc = at[h].desc /\ x.phase \in {"handshake", "ready", "used"} /\ x.tls # None

Asks(h, x) ==
    /\ x.desc = at[h].desc /\ x.phase = "handshake" /\ x.tls # None
    /\ x.desc \in wanted /\ x.via = Route(x.desc) /\ x.tls.with = EndUri(x.desc, x.via).host
    /\ Connect(h, IdOf(x.desc))

Effect(h, x) ==
    /\ AttemptOK(x) /\ at' = [at EXCEPT ![h] = x]
    /\ client' = client /\ wanted' = wanted /\ issuer' = issuer
    /\ Quiet(h, x) \/ Asks(h, x) \/ Dropped(h)

\* What SessionsGoHome says of a step.
GoesHome ==
    \A h \in Connections :
        resumed'[h] # resumed[h] /\ resumed'[h] # NoSession => issuer[resumed'[h]] = at'[h].tls.with

\* The identities and whom they lead to depend on the client alone.
LEMMA HomeStays ==
    ASSUME client' = client, NEW k
    PROVE  Home(k)' = Home(k)
BY DEF Home, Route

\* What Taken leaves was there before.
LEMMA TakenShrinks ==
    ASSUME TypeOK, NEW s \in Sessions, Taken(s), NEW t \in Sessions, NEW k \in Keys, Cached(t, k)'
    PROVE  Cached(t, k)
<1>1. lists[k] \in Seq(Sessions) /\ DOMAIN lists = Keys
  BY DEF TypeOK
<1>2. Has(lists'[k], t)
  BY DEF Cached, Has
<1>3. CASE s \in Tls13 /\ reverse[s] # NoKey
  <2>1. lists' = [lists EXCEPT ![reverse[s]] = Retain(lists[reverse[s]], Sessions \ {s})]
    BY <1>3 DEF Taken
  <2>2. CASE k = reverse[s]
    <3>1. PICK q : q = lists[k]
      OBVIOUS
    <3>2. q \in Seq(Sessions) /\ lists'[k] = Retain(q, Sessions \ {s})
      BY <3>1, <2>1, <2>2, <1>1
    <3>3. Has(q, t)
      BY <3>2, <1>2, Retained
    <3>4. QED
      BY <3>1, <3>3 DEF Has, Cached
  <2>3. CASE k # reverse[s]
    <3>1. lists'[k] = lists[k]
      BY <2>1, <2>3, <1>1
    <3>2. QED
      BY <3>1, <1>2 DEF Has, Cached
  <2>4. QED
    BY <2>2, <2>3
<1>4. CASE ~(s \in Tls13 /\ reverse[s] # NoKey)
  <2>1. lists' = lists
    BY <1>4 DEF Taken
  <2>2. QED
    BY <2>1 DEF Cached
<1>5. QED
  BY <1>3, <1>4

\* What Connect leaves was there before, and what it takes was cached.
LEMMA ConnectTakes ==
    ASSUME Inv, NEW h \in Connections, NEW k \in Keys, Connect(h, k)
    PROVE  /\ \A t \in Sessions, j \in Keys : Cached(t, j)' => Cached(t, j)
           /\ \A g \in Connections : g # h => resumed'[g] = resumed[g] /\ ckey'[g] = ckey[g]
           /\ ckey'[h] = k
           /\ resumed'[h] # resumed[h] => resumed'[h] \in Sessions /\ Cached(resumed'[h], k)
<1>1. TypeOK
  BY DEF Inv
<1>2. /\ lists[k] \in Seq(Sessions) /\ DOMAIN ckey = Connections /\ DOMAIN resumed = Connections
  BY <1>1 DEF TypeOK
<1>3. ckey' = [ckey EXCEPT ![h] = k]
  BY DEF Connect
<1>4. CASE lists[k] = <<>>
  <2>1. lists' = lists /\ resumed' = resumed
    BY <1>4 DEF Connect
  <2>2. QED
    BY <2>1, <1>2, <1>3 DEF Cached
<1>5. CASE lists[k] # <<>>
  <2>1. PICK s : s = lists[k][1]
    OBVIOUS
  <2>2. s \in Sessions /\ 1 \in DOMAIN lists[k]
    BY <2>1, <1>2, <1>5
  <2>3. Taken(s) /\ resumed' = [resumed EXCEPT ![h] = s]
    BY <2>1, <1>5 DEF Connect
  <2>4. \A t \in Sessions, j \in Keys : Cached(t, j)' => Cached(t, j)
    BY <2>2, <2>3, <1>1, TakenShrinks
  <2>5. Cached(s, k)
    BY <2>1, <2>2 DEF Cached
  <2>6. QED
    BY <2>2, <2>3, <2>4, <2>5, <1>2, <1>3
<1>6. QED
  BY <1>4, <1>5

\* The attempts stay right when one of them moves.
LEMMA MoveKeeps ==
    ASSUME AttemptsInv, client' = client, wanted' = wanted, NEW h \in Connections,
           NEW x, AttemptOK(x), at' = [at EXCEPT ![h] = x]
    PROVE  AttemptsInv'
<1>1. DOMAIN at = Connections /\ \A g \in Connections : AttemptOK(at[g])
  BY DEF AttemptsInv
<1>2. ASSUME NEW g \in Connections PROVE AttemptOK(at[g])'
  <2>1. PICK y : y = at'[g]
    OBVIOUS
  <2>2. y = IF g = h THEN x ELSE at[g]
    BY <2>1, <1>1
  <2>3. AttemptOK(y)
    BY <2>2, <1>1
  <2>4. QED
    BY <2>1, <2>3, Frame
<1>3. DOMAIN at' = Connections
  BY <1>1
<1>4. QED
  BY <1>2, <1>3 DEF AttemptsInv

\* A step with such an effect is a step of the session cache, keeps the invariant and
\* offers a session only to the peer that issued it.
LEMMA EffectKeeps ==
    ASSUME ConnectorInv, NEW h \in Connections, NEW x, Effect(h, x)
    PROVE  ConnectorInv' /\ [Next]_vars /\ GoesHome
<1>1. /\ ScenarioInv /\ Inv /\ TypeOK /\ AttemptsInv /\ KeysInv /\ IssuersInv
      /\ DOMAIN issuer = Sessions /\ DOMAIN at = Connections
  BY DEF ConnectorInv, AttemptsInv, Inv
<1>2. /\ AttemptOK(x) /\ at' = [at EXCEPT ![h] = x]
      /\ client' = client /\ wanted' = wanted /\ issuer' = issuer
  BY DEF Effect
<1>3. ScenarioInv' /\ DOMAIN issuer' = Sessions
  BY <1>1, <1>2 DEF ScenarioInv
<1>4. AttemptsInv'
  BY <1>1, <1>2, MoveKeeps
<1>5. DOMAIN ckey = Connections /\ DOMAIN resumed = Connections
  BY <1>1 DEF TypeOK
<1>6. at'[h] = x /\ \A g \in Connections : g # h => at'[g] = at[g]
  BY <1>1, <1>2
<1>7. ASSUME [Next]_vars, KeysInv',
             \A t \in Sessions, j \in Keys : Cached(t, j)' => Cached(t, j),
             GoesHome
      PROVE  ConnectorInv' /\ [Next]_vars /\ GoesHome
  <2>1. Inv'
    BY <1>1, <1>7, Inductive
  <2>2. ASSUME NEW s \in Sessions, NEW k \in Keys, Cached(s, k)'
        PROVE  issuer'[s] = Home(k)'
    <3>1. Cached(s, k)
      BY <1>7, <2>2
    <3>2. issuer[s] = Home(k)
      BY <3>1, <1>1 DEF IssuersInv
    <3>3. Home(k)' = Home(k)
      BY <1>2, HomeStays
    <3>4. QED
      BY <3>2, <3>3, <1>2
  <2>3. IssuersInv'
    BY <2>2 DEF IssuersInv
  <2>4. QED
    BY <2>1, <2>3, <1>3, <1>4, <1>7 DEF ConnectorInv
<1>8. CASE Quiet(h, x)
  <2>1. /\ UNCHANGED vars /\ lists' = lists /\ ckey' = ckey /\ resumed' = resumed
        /\ ckey[h] # NoKey =>
              x.desc = at[h].desc /\ x.phase \in {"handshake", "ready", "used"} /\ x.tls # None
    BY <1>8 DEF Quiet, vars
  <2>2. \A t \in Sessions, j \in Keys : Cached(t, j)' => Cached(t, j)
    BY <2>1 DEF Cached
  <2>3. KeysInv'
    <3>1. SUFFICES ASSUME NEW g \in Connections, ckey[g] # NoKey
                   PROVE  /\ at'[g].phase \in {"handshake", "ready", "used"}
                          /\ at'[g].tls # None /\ ckey[g] = IdOf(at'[g].desc)
      BY <2>1 DEF KeysInv
    <3>2. /\ at[g].phase \in {"handshake", "ready", "used"} /\ at[g].tls # None
          /\ ckey[g] = IdOf(at[g].desc)
      BY <3>1, <1>1 DEF KeysInv
    <3>3. QED
      BY <3>1, <3>2, <2>1, <1>6
  <2>4. GoesHome
    BY <2>1 DEF GoesHome
  <2>5. QED
    BY <2>1, <2>2, <2>3, <2>4, <1>7
<1>9. CASE Asks(h, x)
  <2>1. /\ x.desc = at[h].desc /\ x.phase = "handshake" /\ x.tls # None
        /\ x.desc \in wanted /\ x.via = Route(x.desc) /\ x.tls.with = EndUri(x.desc, x.via).host
    BY <1>9 DEF Asks
  <2>2. PICK d, k : d = x.desc /\ k = IdOf(d)
    OBVIOUS
  <2>3. k \in Keys
    BY <2>1, <2>2, <1>1, ScenarioFacts DEF DescriptorOK
  <2>4. Connect(h, k)
    BY <2>2, <1>9 DEF Asks
  <2>5. /\ \A t \in Sessions, j \in Keys : Cached(t, j)' => Cached(t, j)
        /\ \A g \in Connections : g # h => resumed'[g] = resumed[g] /\ ckey'[g] = ckey[g]
        /\ ckey'[h] = k
        /\ resumed'[h] # resumed[h] => resumed'[h] \in Sessions /\ Cached(resumed'[h], k)
    BY <2>3, <2>4, <1>1, ConnectTakes
  <2>6. KeysInv'
    <3>1. SUFFICES ASSUME NEW g \in Connections, ckey'[g] # NoKey
                   PROVE  /\ at'[g].phase \in {"handshake", "ready", "used"}
                          /\ at'[g].tls # None /\ ckey'[g] = IdOf(at'[g].desc)
      BY DEF KeysInv
    <3>2. CASE g = h
      BY <3>2, <2>1, <2>2, <2>5, <1>6
    <3>3. CASE g # h
      <4>1. ckey[g] # NoKey /\ ckey'[g] = ckey[g] /\ at'[g] = at[g]
        BY <3>1, <3>3, <2>5, <1>6
      <4>2. /\ at[g].phase \in {"handshake", "ready", "used"} /\ at[g].tls # None
            /\ ckey[g] = IdOf(at[g].desc)
        BY <4>1, <1>1 DEF KeysInv
      <4>3. QED
        BY <4>1, <4>2
    <3>4. QED
      BY <3>2, <3>3
  <2>7. GoesHome
    <3>1. SUFFICES ASSUME NEW g \in Connections, resumed'[g] # resumed[g]
                   PROVE  issuer[resumed'[g]] = at'[g].tls.with
      BY DEF GoesHome
    <3>2. g = h
      BY <3>1, <2>5
    <3>3. PICK s : s = resumed'[h]
      OBVIOUS
    <3>4. s \in Sessions /\ Cached(s, k)
      BY <3>1, <3>2, <3>3, <2>5
    <3>5. issuer[s] = Home(k)
      BY <3>4, <2>3, <1>1 DEF IssuersInv
    <3>6. k.uri = d.uri /\ k.proxy = d.proxy
      BY <2>2 DEF IdOf
    <3>7. Route(k) = Route(d) /\ EndUri(k, Route(k)) = EndUri(d, Route(k))
      BY <3>6, SameRoute
    <3>8. Home(k) = EndUri(d, Route(d)).host
      BY <3>7 DEF Home
    <3>9. x.tls.with = EndUri(d, Route(d)).host
      BY <2>1, <2>2
    <3>10. QED
      BY <3>2, <3>3, <3>5, <3>8, <3>9, <1>6
  <2>8. [Next]_vars
    BY <2>3, <2>4 DEF Next
  <2>9. QED
    BY <2>5, <2>6, <2>7, <2>8, <1>7
<1>10. CASE Dropped(h)
  <2>1. /\ [Next]_vars /\ lists' = lists /\ ckey'[h] = NoKey /\ resumed' \in {resumed, [resumed EXCEPT ![h] = NoSession]}
        /\ \A g \in Connections : g # h => ckey'[g] = ckey[g]
    <3>1. CASE ckey[h] = NoKey
      BY <3>1, <1>10 DEF Dropped, vars
    <3>2. CASE ckey[h] # NoKey
      <4>1. Disconnect(h)
        BY <3>2, <1>10 DEF Dropped
      <4>2. QED
        BY <4>1, <1>5 DEF Disconnect, Next
    <3>3. QED
      BY <3>1, <3>2
  <2>2. \A t \in Sessions, j \in Keys : Cached(t, j)' => Cached(t, j)
    BY <2>1 DEF Cached
  <2>3. KeysInv'
    <3>1. SUFFICES ASSUME NEW g \in Connections, ckey'[g] # NoKey
                   PROVE  /\ at'[g].phase \in {"handshake", "ready", "used"}
                          /\ at'[g].tls # None /\ ckey'[g] = IdOf(at'[g].desc)
      BY DEF KeysInv
    <3>2. g # h /\ ckey[g] # NoKey /\ ckey'[g] = ckey[g] /\ at'[g] = at[g]
      BY <3>1, <2>1, <1>6
    <3>3. /\ at[g].phase \in {"handshake", "ready", "used"} /\ at[g].tls # None
          /\ ckey[g] = IdOf(at[g].desc)
      BY <3>2, <1>1 DEF KeysInv
    <3>4. QED
      BY <3>2, <3>3
  <2>4. GoesHome
    BY <2>1, <1>5 DEF GoesHome
  <2>5. QED
    BY <2>1, <2>2, <2>3, <2>4, <1>7
<1>11. QED
  BY <1>8, <1>9, <1>10 DEF Effect

\* A connection of the cache has TLS with the peer that its identity leads to.
LEMMA SealedAtHome ==
    ASSUME ConnectorInv, NEW h \in Connections, ckey[h] # NoKey
    PROVE  at[h].tls.with = Home(ckey[h])
<1>1. PICK r : r = at[h]
  OBVIOUS
<1>2. /\ r.phase \in {"handshake", "ready", "used"} /\ r.tls # None /\ ckey[h] = IdOf(r.desc)
  BY <1>1 DEF ConnectorInv, KeysInv
<1>3. LegOK(r) /\ TlsOK(r)
  BY <1>1 DEF ConnectorInv, AttemptsInv, AttemptOK
<1>4. r.via = Route(r.desc)
  BY <1>2, <1>3 DEF LegOK
<1>5. \E h2 \in BOOLEAN : r.tls = Seal(r.desc, r.via, h2)
  BY <1>2, <1>3 DEF TlsOK
<1>6. r.tls.with = EndUri(r.desc, r.via).host
  BY <1>5 DEF Seal
<1>7. PICK d, k : d = r.desc /\ k = IdOf(d)
  OBVIOUS
<1>8. k.uri = d.uri /\ k.proxy = d.proxy
  BY <1>7 DEF IdOf
<1>9. Route(k) = Route(d) /\ EndUri(k, Route(k)) = EndUri(d, Route(k))
  BY <1>8, SameRoute
<1>10. QED
  BY <1>1, <1>2, <1>4, <1>6, <1>7, <1>9 DEF Home

\* The new-session callback.
LEMMA TicketKeeps ==
    ASSUME ConnectorInv, NEW h \in Connections, NEW s \in Sessions, TicketArrives(h, s)
    PROVE  ConnectorInv' /\ [Next]_vars /\ GoesHome
<1>1. /\ ScenarioInv /\ Inv /\ TypeOK /\ AttemptsInv /\ KeysInv /\ IssuersInv
      /\ DOMAIN issuer = Sessions
  BY DEF ConnectorInv, Inv
<1>2. /\ NewSession(h, s) /\ issuer' = [issuer EXCEPT ![s] = at[h].tls.with]
      /\ client' = client /\ wanted' = wanted /\ at' = at
  BY DEF TicketArrives
<1>3. /\ ckey[h] # NoKey /\ Issuable(h, s) /\ ckey' = ckey /\ resumed' = resumed
      /\ lists' = [lists EXCEPT ![ckey[h]] =
                      Append(Retain(lists[ckey[h]], Sessions \ (Evicted(ckey[h]) \cup {s})), s)]
  BY <1>2 DEF NewSession, Put
<1>4. [Next]_vars
  BY <1>2 DEF Next
<1>5. Inv'
  BY <1>1, <1>4, Inductive
<1>6. ScenarioInv' /\ DOMAIN issuer' = Sessions
  BY <1>1, <1>2 DEF ScenarioInv
<1>7. AttemptsInv'
  <2>1. DOMAIN at' = Connections
    BY <1>1, <1>2 DEF AttemptsInv
  <2>2. ASSUME NEW g \in Connections PROVE AttemptOK(at[g])'
    <3>1. PICK y : y = at[g]
      OBVIOUS
    <3>2. AttemptOK(y) /\ at'[g] = y
      BY <3>1, <1>1, <1>2 DEF AttemptsInv
    <3>3. QED
      BY <3>2, <1>2, Frame
  <2>3. QED
    BY <2>1, <2>2 DEF AttemptsInv
<1>8. KeysInv'
  BY <1>1, <1>2, <1>3 DEF KeysInv
<1>9. GoesHome
  BY <1>3 DEF GoesHome
<1>10. PICK k \in Keys : k = ckey[h] /\ lists[k] \in Seq(Sessions) /\ DOMAIN lists = Keys
  BY <1>1, <1>3 DEF TypeOK
<1>11. PICK q : q = lists[k]
  OBVIOUS
<1>12. \A t \in Sessions : Has(lists'[k], t) => t = s \/ Has(q, t)
  <2>1. PICK E : E = Evicted(k)
    OBVIOUS
  <2>2. E \in SUBSET Sessions /\ q \in Seq(Sessions)
    BY <2>1, <1>10, <1>11 DEF Evicted
  <2>3. lists'[k] = StoredList(q, s, E)
    BY <2>1, <1>3, <1>10, <1>11 DEF StoredList
  <2>4. IsStored(StoredList(q, s, E), q, s, E)
    BY <2>2, Stored
  <2>5. QED
    BY <2>3, <2>4 DEF IsStored
<1>13. ASSUME NEW t \in Sessions, NEW j \in Keys, Cached(t, j)'
       PROVE  issuer'[t] = Home(j)'
  <2>1. Home(j)' = Home(j)
    BY <1>2, HomeStays
  <2>2. j # k => lists'[j] = lists[j]
    BY <1>3, <1>10
  <2>3. Has(lists'[j], t)
    BY <1>13 DEF Cached, Has
  <2>4. Cached(t, j) \/ (t = s /\ j = k)
    <3>1. CASE j = k
      BY <3>1, <2>3, <1>11, <1>12 DEF Has, Cached
    <3>2. CASE j # k
      BY <3>2, <2>2, <2>3 DEF Has, Cached
    <3>3. QED
      BY <3>1, <3>2
  <2>5. CASE t = s
    <3>1. j = k
      BY <2>4, <2>5, <1>3, <1>10 DEF Issuable
    <3>2. at[h].tls.with = Home(k)
      BY <1>3, <1>10, SealedAtHome
    <3>3. issuer'[t] = at[h].tls.with
      BY <2>5, <1>1, <1>2
    <3>4. QED
      BY <3>1, <3>2, <3>3, <2>1
  <2>6. CASE t # s
    <3>1. issuer'[t] = issuer[t]
      BY <2>6, <1>1, <1>2
    <3>2. issuer[t] = Home(j)
      BY <2>4, <2>6, <1>1 DEF IssuersInv
    <3>3. QED
      BY <3>1, <3>2, <2>1
  <2>7. QED
    BY <2>5, <2>6
<1>14. IssuersInv'
  BY <1>13 DEF IssuersInv
<1>15. QED
  BY <1>4, <1>5, <1>6, <1>7, <1>8, <1>9, <1>14 DEF ConnectorInv

\* Time passes for the attempts under way.
LEMMA TickKeeps ==
    ASSUME ConnectorInv, Tick
    PROVE  ConnectorInv' /\ [Next]_vars /\ GoesHome
<1>1. /\ ScenarioInv /\ Inv /\ AttemptsInv /\ KeysInv /\ IssuersInv /\ DOMAIN issuer = Sessions
  BY DEF ConnectorInv
<1>2. /\ UNCHANGED vars /\ client' = client /\ wanted' = wanted /\ issuer' = issuer
      /\ DOMAIN at' = Connections
      /\ \A h \in Connections :
            at'[h] = IF Pending(h) /\ at[h].age < client.timeout THEN [at[h] EXCEPT !.age = @ + 1]
                     ELSE at[h]
  BY DEF Tick
<1>3. lists' = lists /\ ckey' = ckey /\ resumed' = resumed
  BY <1>2 DEF vars
<1>4. ASSUME NEW h \in Connections
      PROVE  /\ AttemptOK(at[h])'
             /\ at'[h].phase = at[h].phase /\ at'[h].tls = at[h].tls /\ at'[h].desc = at[h].desc
  <2>1. PICK r : r = at[h]
    OBVIOUS
  <2>2. AttemptOK(r)
    BY <2>1, <1>1 DEF AttemptsInv
  <2>3. CASE Pending(h) /\ at[h].age < client.timeout
    <3>1. PICK a : a = r.age + 1
      OBVIOUS
    <3>2. at'[h] = [r EXCEPT !.age = a]
      BY <2>1, <2>3, <3>1, <1>2
    <3>3. r.phase # "idle"
      BY <2>1, <2>3 DEF Pending, Active
    <3>4. PICK p, d, v, so, he, tl, to, b :
             /\ r = [ phase |-> p, desc |-> d, via |-> v, sock |-> so, heard |-> he,
                      tls |-> tl, told |-> to, age |-> r.age, blamed |-> b ]
             /\ r.phase = p /\ r.desc = d /\ r.via = v /\ r.sock = so /\ r.tls = tl /\ r.told = to
             /\ r.blamed = b /\ r.heard = he
      BY <2>2 DEF AttemptOK, Shape
    <3>5. PICK x : x = [ phase |-> p, desc |-> d, via |-> v, sock |-> so, heard |-> he,
                         tls |-> tl, told |-> to, age |-> a, blamed |-> b ]
      OBVIOUS
    <3>6. at'[h] = x
      BY <3>2, <3>4, <3>5
    <3>7. /\ Shape(x) /\ x.phase = r.phase /\ x.desc = r.desc /\ x.via = r.via /\ x.sock = r.sock
          /\ x.tls = r.tls /\ x.told = r.told /\ x.blamed = r.blamed /\ x.heard = r.heard
      BY <3>4, <3>5 DEF Shape
    <3>8. AttemptOK(x)
      <4>1. HeardOK(x)
        BY <3>7, <2>2 DEF AttemptOK, HeardOK, WayR
      <4>2. QED
        BY <4>1, <3>3, <3>7, <2>2, OnlyTime
    <3>9. AttemptOK(at[h])'
      BY <3>6, <3>8, <1>2, Frame
    <3>10. QED
      BY <3>6, <3>7, <3>9, <2>1
  <2>4. CASE ~(Pending(h) /\ at[h].age < client.timeout)
    <3>1. at'[h] = r
      BY <2>1, <2>4, <1>2
    <3>2. AttemptOK(at[h])'
      BY <3>1, <2>2, <1>2, Frame
    <3>3. QED
      BY <3>1, <3>2, <2>1
  <2>5. QED
    BY <2>3, <2>4
<1>5. AttemptsInv'
  BY <1>2, <1>4 DEF AttemptsInv
<1>6. KeysInv'
  BY <1>1, <1>3, <1>4 DEF KeysInv
<1>7. IssuersInv'
  <2>1. ASSUME NEW s \in Sessions, NEW k \in Keys, Cached(s, k)' PROVE issuer'[s] = Home(k)'
    <3>1. Cached(s, k)
      BY <2>1, <1>3 DEF Cached
    <3>2. Home(k)' = Home(k)
      BY <1>2, HomeStays
    <3>3. QED
      BY <3>1, <3>2, <1>1, <1>2 DEF IssuersInv
  <2>2. QED
    BY <2>1 DEF IssuersInv
<1>8. Inv' /\ [Next]_vars
  BY <1>1, <1>2, Inductive
<1>9. GoesHome
  BY <1>3 DEF GoesHome
<1>10. ScenarioInv' /\ DOMAIN issuer' = Sessions
  BY <1>1, <1>2 DEF ScenarioInv
<1>11. QED
  BY <1>5, <1>6, <1>7, <1>8, <1>9, <1>10 DEF ConnectorInv
-----------------------------------------------------------------------------
(***************************************************************************)
(* The operations of an attempt have such an effect.                       *)
(***************************************************************************)
\* What the invariant says of one attempt.
LEMMA Here ==
    ASSUME ConnectorInv, NEW h \in Connections
    PROVE  /\ ScenarioInv /\ DOMAIN at = Connections /\ AttemptOK(at[h])
           /\ at[h].phase \notin {"handshake", "ready", "used"} => ckey[h] = NoKey
           /\ ckey[h] # NoKey => at[h].tls # None
BY DEF ConnectorInv, AttemptsInv, KeysInv

\* Start.
LEMMA StartEffect ==
    ASSUME ConnectorInv, NEW h \in Connections, NEW d \in wanted, Start(h, d)
    PROVE  \E x : Effect(h, x)
<1>1. ScenarioInv /\ ckey[h] = NoKey
  BY Here DEF Start
<1>2. PICK via : via = Route(d)
  OBVIOUS
<1>3. /\ client' = client /\ wanted' = wanted /\ issuer' = issuer /\ UNCHANGED vars
      /\ at' = [at EXCEPT ![h] =
                     IF Unusable(d) /\ Way(d, via) \in {"direct", "forward", "tunnel"}
                     THEN [Idle EXCEPT !.phase = "failed", !.desc = d, !.via = via,
                                       !.blamed = IF Way(d, via) = "forward" THEN "proxy" ELSE "connect"]
                     ELSE [Idle EXCEPT !.phase = "dial", !.desc = d, !.via = via,
                                       !.sock = SocketOf(d, via),
                                       !.told = Looked(SocketOf(d, via).to)]]
  BY <1>2 DEF Start
<1>4. ASSUME NEW x, at' = [at EXCEPT ![h] = x], AttemptOK(x) PROVE Effect(h, x)
  BY <1>1, <1>3, <1>4 DEF Effect, Quiet
<1>5. CASE Unusable(d) /\ Way(d, via) \in {"direct", "forward", "tunnel"}
  <2>1. PICK b : b = IF Way(d, via) = "forward" THEN "proxy" ELSE "connect"
    OBVIOUS
  <2>3. PICK x : x = [ phase |-> "failed", desc |-> d, via |-> via, sock |-> None, heard |-> Nothing,
                       tls |-> None, told |-> {}, age |-> 0, blamed |-> b ]
    OBVIOUS
  <2>4. at' = [at EXCEPT ![h] = x]
    <3>1. PICK y : y = [Idle EXCEPT !.phase = "failed", !.desc = d, !.via = via, !.blamed = b]
      OBVIOUS
    <3>2. y = [ phase |-> "failed", desc |-> d, via |-> via, sock |-> None, heard |-> Nothing,
                tls |-> None, told |-> {}, age |-> 0, blamed |-> b ]
      BY <3>1 DEF Idle
    <3>3. QED
      BY <3>1, <3>2, <2>1, <2>3, <1>3, <1>5
  <2>5. AttemptOK(x)
    BY <2>3, <1>2, StartFails
  <2>6. QED
    BY <2>4, <2>5, <1>4
<1>6. CASE ~(Unusable(d) /\ Way(d, via) \in {"direct", "forward", "tunnel"})
  <2>1. PICK sock, told : sock = SocketOf(d, via) /\ told = Looked(SocketOf(d, via).to)
    OBVIOUS
  <2>2. PICK x : x = [ phase |-> "dial", desc |-> d, via |-> via, sock |-> sock, heard |-> Nothing,
                       tls |-> None, told |-> told, age |-> 0, blamed |-> None ]
    OBVIOUS
  <2>3. at' = [at EXCEPT ![h] = x]
    <3>1. PICK y : y = [Idle EXCEPT !.phase = "dial", !.desc = d, !.via = via, !.sock = sock,
                                    !.told = told]
      OBVIOUS
    <3>2. y = [ phase |-> "dial", desc |-> d, via |-> via, sock |-> sock, heard |-> Nothing,
                tls |-> None, told |-> told, age |-> 0, blamed |-> None ]
      BY <3>1 DEF Idle
    <3>3. QED
      BY <3>1, <3>2, <2>1, <2>2, <1>3, <1>6
  <2>4. AttemptOK(x)
    BY <2>1, <2>2, <1>1, <1>2, <1>6, StartDials
  <2>5. QED
    BY <2>3, <2>4, <1>4
<1>7. QED
  BY <1>5, <1>6

\* A step to the next leg that leaves the cache alone.
LEMMA LegEffect ==
    ASSUME ConnectorInv, NEW h \in Connections, NEW r, r = at[h],
           r.phase \in Underway \ {"handshake"},
           client' = client, wanted' = wanted, issuer' = issuer, UNCHANGED vars,
           NEW phase \in Underway \ {"handshake"}, NEW told,
           at' = [at EXCEPT ![h] = [[at[h] EXCEPT !.phase = phase] EXCEPT !.told = told]],
           phase = "proxyTls" => WayR(r) = "tunnel",
           phase \in {"connect", "reply"} => WayR(r) \in {"tunnel", "unixTunnel"},
           phase \in {"resolve", "socks", "socksReply"} => WayR(r) = "socks",
           phase = "resolve" => r.via.proxy.uri.scheme \in {"socks4", "socks5"},
           SaidOK(r.desc, r.via, told),
           phase = "reply" /\ WayR(r) = "tunnel" => CredentialTold(r.via, told)
    PROVE  \E x : Effect(h, x)
<1>1. ScenarioInv /\ AttemptOK(r) /\ ckey[h] = NoKey
  BY Here DEF Underway
<1>2. PICK p, d, v, so, he, tl, to, a, b :
         /\ r = [ phase |-> p, desc |-> d, via |-> v, sock |-> so, heard |-> he,
                  tls |-> tl, told |-> to, age |-> a, blamed |-> b ]
         /\ r.phase = p /\ r.desc = d /\ r.via = v /\ r.sock = so /\ r.tls = tl /\ r.told = to
         /\ r.blamed = b /\ r.heard = he
  BY <1>1 DEF AttemptOK, Shape
<1>3. PICK x : x = [ phase |-> phase, desc |-> d, via |-> v, sock |-> so, heard |-> he,
                     tls |-> tl, told |-> told, age |-> a, blamed |-> b ]
  OBVIOUS
<1>4. at' = [at EXCEPT ![h] = x]
  <2>1. PICK y : y = [r EXCEPT !.phase = phase]
    OBVIOUS
  <2>2. y = [ phase |-> phase, desc |-> d, via |-> v, sock |-> so, heard |-> he,
              tls |-> tl, told |-> to, age |-> a, blamed |-> b ]
    BY <1>2, <2>1
  <2>3. x = [y EXCEPT !.told = told]
    BY <1>3, <2>2
  <2>4. QED
    BY <2>1, <2>3
<1>5. /\ Shape(x) /\ x.phase = phase /\ x.desc = r.desc /\ x.via = r.via /\ x.sock = r.sock
      /\ x.tls = r.tls /\ x.told = told /\ x.heard = r.heard
  BY <1>2, <1>3 DEF Shape
<1>6. AttemptOK(x)
  BY <1>1, <1>5, NextLeg
<1>7. QED
  BY <1>1, <1>4, <1>6 DEF Effect, Quiet

\* A step that changes the leg alone.
LEMMA PhaseEffect ==
    ASSUME ConnectorInv, NEW h \in Connections, NEW r, r = at[h],
           r.phase \in Underway \ {"handshake"},
           client' = client, wanted' = wanted, issuer' = issuer, UNCHANGED vars,
           NEW phase \in {"proxyTls", "connect", "resolve", "socks"},
           at' = [at EXCEPT ![h] = [at[h] EXCEPT !.phase = phase]],
           phase = "proxyTls" => WayR(r) = "tunnel",
           phase = "connect" => WayR(r) \in {"tunnel", "unixTunnel"},
           phase \in {"resolve", "socks"} => WayR(r) = "socks",
           phase = "resolve" => r.via.proxy.uri.scheme \in {"socks4", "socks5"}
    PROVE  \E x : Effect(h, x)
<1>1. AttemptOK(r)
  BY Here
<1>2. PICK p, d, v, so, he, tl, to, a, b :
         /\ r = [ phase |-> p, desc |-> d, via |-> v, sock |-> so, heard |-> he,
                  tls |-> tl, told |-> to, age |-> a, blamed |-> b ]
         /\ r.phase = p /\ r.desc = d /\ r.via = v /\ r.sock = so /\ r.tls = tl /\ r.told = to
         /\ r.blamed = b /\ r.heard = he
  BY <1>1 DEF AttemptOK, Shape
<1>3. PICK y : y = [r EXCEPT !.phase = phase]
  OBVIOUS
<1>4. y = [ phase |-> phase, desc |-> d, via |-> v, sock |-> so, heard |-> he,
            tls |-> tl, told |-> to, age |-> a, blamed |-> b ]
  BY <1>2, <1>3
<1>5. [y EXCEPT !.told = to] = y
  BY <1>4
<1>6. at' = [at EXCEPT ![h] = [[at[h] EXCEPT !.phase = phase] EXCEPT !.told = to]]
  BY <1>3, <1>5
<1>7. SaidOK(r.desc, r.via, to)
  BY <1>1, <1>2 DEF AttemptOK, ToldOK
<1>8. phase \in Underway \ {"handshake"} /\ phase \notin {"reply", "socksReply"}
  BY DEF Underway, Phases
<1>9. QED
  BY <1>6, <1>7, <1>8, LegEffect

\* ProxySealed.
LEMMA SealedEffect ==
    ASSUME ConnectorInv, NEW h \in Connections, ProxySealed(h)
    PROVE  \E x : Effect(h, x)
<1>1. PICK r : r = at[h]
  OBVIOUS
<1>2. LegOK(r) /\ r.phase = "proxyTls"
  BY <1>1, Here DEF ProxySealed, AttemptOK
<1>3. /\ client' = client /\ wanted' = wanted /\ issuer' = issuer /\ UNCHANGED vars
      /\ at' = [at EXCEPT ![h] = [at[h] EXCEPT !.phase = "connect"]]
  BY DEF ProxySealed
<1>4. WayR(r) = "tunnel" /\ r.phase \in Underway \ {"handshake"}
  BY <1>2 DEF LegOK, Underway, Phases
<1>5. QED
  BY <1>1, <1>3, <1>4, PhaseEffect

\* Commands.
LEMMA CommandsEffect ==
    ASSUME ConnectorInv, NEW h \in Connections, Commands(h)
    PROVE  \E x : Effect(h, x)
<1>1. PICK r : r = at[h]
  OBVIOUS
<1>2. AttemptOK(r) /\ LegOK(r) /\ r.phase = "connect" /\ ScenarioInv
  BY <1>1, Here DEF Commands, AttemptOK
<1>3. WayR(r) \in {"tunnel", "unixTunnel"} /\ r.phase \in Underway \ {"handshake"}
  BY <1>2 DEF LegOK, Underway, Phases
<1>4. PICK C : C = IF WayR(r) = "unixTunnel" THEN {} ELSE Told(r.sock.to, ProxyAuthorization(r.via.proxy))
  OBVIOUS
<1>5. /\ client' = client /\ wanted' = wanted /\ issuer' = issuer /\ UNCHANGED vars
      /\ at' = [at EXCEPT ![h] = [[at[h] EXCEPT !.phase = "reply"] EXCEPT !.told = r.told \cup C]]
  BY <1>1, <1>4 DEF Commands, WayOf, WayR
<1>6. SaidOK(r.desc, r.via, r.told \cup C) /\ (WayR(r) = "tunnel" => CredentialTold(r.via, r.told \cup C))
  <2>1. PICK d, via : d = r.desc /\ via = r.via
    OBVIOUS
  <2>2. d.uri.scheme \in Httpish /\ ViaOK(d, via) /\ client.nodelay \in BOOLEAN
    BY <2>1, <1>2, Known
  <2>3. SaidOK(d, via, r.told)
    BY <2>1, <1>2 DEF AttemptOK, ToldOK
  <2>4. CASE WayR(r) = "unixTunnel"
    <3>1. r.told \cup C = r.told
      BY <2>4, <1>4
    <3>2. QED
      BY <3>1, <2>1, <2>3, <2>4
  <2>5. CASE WayR(r) = "tunnel"
    <3>1. Way(d, via) = "tunnel"
      BY <2>1, <2>5 DEF WayR
    <3>2. r.sock = SocketOf(d, via)
      BY <2>1, <1>2, <1>3 DEF AttemptOK, SockOK
    <3>3. r.sock.to = via.proxy.uri.host
      BY <3>1, <3>2, <2>2, SocketFacts
    <3>4. C = Told(via.proxy.uri.host, ProxyAuthorization(via.proxy))
      BY <3>3, <2>1, <2>5, <1>4
    <3>5. SaidOK(d, via, C) /\ CredentialTold(via, C)
      BY <3>1, <3>4, <2>2, CredentialSaid
    <3>6. SaidOK(d, via, r.told \cup C)
      BY <3>5, <2>3, SaidBoth
    <3>7. CredentialTold(via, r.told \cup C)
      BY <3>5 DEF CredentialTold
    <3>8. QED
      BY <3>6, <3>7, <2>1
  <2>6. QED
    BY <2>4, <2>5, <1>3
<1>7. "reply" \in Underway \ {"handshake"}
  BY DEF Underway, Phases
<1>8. PICK told : told = r.told \cup C
  OBVIOUS
<1>9. QED
  BY <1>1, <1>3, <1>5, <1>6, <1>7, <1>8, LegEffect

\* Resolves.
LEMMA ResolvesEffect ==
    ASSUME ConnectorInv, NEW h \in Connections, Resolves(h)
    PROVE  \E x : Effect(h, x)
<1>1. PICK r : r = at[h]
  OBVIOUS
<1>2. AttemptOK(r) /\ LegOK(r) /\ r.phase = "resolve" /\ ScenarioInv
  BY <1>1, Here DEF Resolves, AttemptOK
<1>3. /\ WayR(r) = "socks" /\ r.via.proxy.uri.scheme \in {"socks4", "socks5"}
      /\ r.phase \in Underway \ {"handshake"} /\ "socks" \in Underway \ {"handshake"}
  BY <1>2 DEF LegOK, Underway, Phases
<1>4. PICK told : told = r.told \cup Looked(r.desc.uri.host)
  OBVIOUS
<1>5. /\ client' = client /\ wanted' = wanted /\ issuer' = issuer /\ UNCHANGED vars
      /\ at' = [at EXCEPT ![h] = [[at[h] EXCEPT !.phase = "socks"] EXCEPT !.told = told]]
  BY <1>1, <1>4 DEF Resolves
<1>6. SaidOK(r.desc, r.via, told)
  <2>1. PICK d, via : d = r.desc /\ via = r.via
    OBVIOUS
  <2>2. d.uri.scheme \in Httpish /\ ViaOK(d, via)
    BY <2>1, <1>2, Known
  <2>3. SaidOK(d, via, r.told)
    BY <2>1, <1>2 DEF AttemptOK, ToldOK
  <2>4. Way(d, via) = "socks" /\ via.proxy.uri.scheme \in {"socks4", "socks5"}
    BY <2>1, <1>3 DEF WayR
  <2>5. SaidOK(d, via, Looked(d.uri.host))
    BY <2>2, <2>4, ResolvedSaid
  <2>6. QED
    BY <2>1, <2>3, <2>5, <1>4, SaidBoth
<1>7. QED
  BY <1>1, <1>3, <1>5, <1>6, LegEffect

\* SocksCommands.
LEMMA SocksEffect ==
    ASSUME ConnectorInv, NEW h \in Connections, SocksCommands(h)
    PROVE  \E x : Effect(h, x)
<1>1. PICK r : r = at[h]
  OBVIOUS
<1>2. AttemptOK(r) /\ LegOK(r) /\ r.phase = "socks" /\ ScenarioInv
  BY <1>1, Here DEF SocksCommands, AttemptOK
<1>3. /\ WayR(r) = "socks"
      /\ r.phase \in Underway \ {"handshake"} /\ "socksReply" \in Underway \ {"handshake"}
  BY <1>2 DEF LegOK, Underway, Phases
<1>4. PICK C : C = IF r.via.proxy.uri.scheme \in {"socks5", "socks5h"}
                   THEN Told(r.sock.to, RawAuthOf(r.via.proxy)) ELSE {}
  OBVIOUS
<1>5. PICK told : told = r.told \cup C
  OBVIOUS
<1>6. /\ client' = client /\ wanted' = wanted /\ issuer' = issuer /\ UNCHANGED vars
      /\ at' = [at EXCEPT ![h] = [[at[h] EXCEPT !.phase = "socksReply"] EXCEPT !.told = told]]
  BY <1>1, <1>4, <1>5 DEF SocksCommands
<1>7. SaidOK(r.desc, r.via, told)
  <2>1. PICK d, via : d = r.desc /\ via = r.via
    OBVIOUS
  <2>2. d.uri.scheme \in Httpish /\ ViaOK(d, via) /\ client.nodelay \in BOOLEAN
    BY <2>1, <1>2, Known
  <2>3. SaidOK(d, via, r.told)
    BY <2>1, <1>2 DEF AttemptOK, ToldOK
  <2>4. Way(d, via) = "socks"
    BY <2>1, <1>3 DEF WayR
  <2>5. r.sock = SocketOf(d, via)
    BY <2>1, <1>2, <1>3 DEF AttemptOK, SockOK
  <2>6. r.sock.to = via.proxy.uri.host
    BY <2>2, <2>4, <2>5, SocketFacts
  <2>7. SaidOK(d, via, Told(via.proxy.uri.host, RawAuthOf(via.proxy)))
    BY <2>2, <2>4, CredentialSaid
  <2>8. SaidOK(d, via, {})
    BY DEF SaidOK
  <2>9. SaidOK(d, via, C)
    BY <2>1, <2>6, <2>7, <2>8, <1>4
  <2>10. QED
    BY <2>1, <2>3, <2>9, <1>5, SaidBoth
<1>8. QED
  BY <1>1, <1>3, <1>6, <1>7, LegEffect

\* EnterHandshake.
LEMMA EnterEffect ==
    ASSUME ConnectorInv, NEW h \in Connections, NEW r, r = at[h],
           r.phase \in {"dial", "reply", "socksReply"},
           EndR(r).scheme # "http",
           Unusable(r.desc) => WayR(r) \in {"unix", "unixTunnel"},
           WayR(r) = "tunnel" => r.phase = "reply",
           NEW f, WayR(r) \in {"tunnel", "unixTunnel"} => f = Opened,
           client' = client, wanted' = wanted, issuer' = issuer, EnterHandshake(h, f)
    PROVE  \E x : Effect(h, x)
<1>1. ScenarioInv /\ AttemptOK(r) /\ LegOK(r) /\ ckey[h] = NoKey /\ DOMAIN at = Connections
  BY Here DEF AttemptOK
<1>2. PICK seal : seal = Seal(r.desc, r.via, FALSE)
  OBVIOUS
<1>4. PICK p, d, v, so, he, tl, to, a, b :
         /\ r = [ phase |-> p, desc |-> d, via |-> v, sock |-> so, heard |-> he,
                  tls |-> tl, told |-> to, age |-> a, blamed |-> b ]
         /\ r.phase = p /\ r.desc = d /\ r.via = v /\ r.sock = so /\ r.tls = tl /\ r.told = to
         /\ r.blamed = b /\ r.heard = he
  BY <1>1 DEF AttemptOK, Shape
<1>5. PICK y : y = [r EXCEPT !.phase = "handshake", !.heard = f, !.tls = seal]
  OBVIOUS
<1>6. /\ at' = [at EXCEPT ![h] = y]
      /\ IF Resumes(r.desc, WayR(r)) THEN Connect(h, IdOf(r.desc)) ELSE UNCHANGED vars
  BY <1>2, <1>5, <1>1 DEF EnterHandshake, Offered, Seal, WayOf, WayR
<1>7. y = [ phase |-> "handshake", desc |-> d, via |-> v, sock |-> so, heard |-> f,
            tls |-> seal, told |-> to, age |-> a, blamed |-> b ]
  <2>1. PICK z : z = [r EXCEPT !.phase = "handshake"]
    OBVIOUS
  <2>2. z = [ phase |-> "handshake", desc |-> d, via |-> v, sock |-> so, heard |-> he,
              tls |-> tl, told |-> to, age |-> a, blamed |-> b ]
    BY <2>1, <1>4
  <2>3. PICK w : w = [z EXCEPT !.heard = f]
    OBVIOUS
  <2>4. w = [ phase |-> "handshake", desc |-> d, via |-> v, sock |-> so, heard |-> f,
              tls |-> tl, told |-> to, age |-> a, blamed |-> b ]
    BY <2>2, <2>3
  <2>5. y = [w EXCEPT !.tls = seal]
    BY <2>1, <2>3, <1>5
  <2>6. QED
    BY <2>4, <2>5
<1>8. /\ Shape(y) /\ y.phase = "handshake" /\ y.desc = r.desc /\ y.via = r.via /\ y.sock = r.sock
      /\ y.tls = seal /\ y.told = r.told /\ y.heard = f
  BY <1>4, <1>7 DEF Shape
<1>9. AttemptOK(y)
  BY <1>1, <1>2, <1>8, HandshakeBegins
<1>10. r.desc \in wanted /\ r.via = Route(r.desc) /\ ViaOK(r.desc, r.via)
  BY <1>1, Known
<1>11. seal # None /\ seal.with = EndUri(r.desc, r.via).host
  <2>1. seal # None
    BY <1>1, <1>2, <1>10, SealReal
  <2>2. QED
    BY <2>1, <1>2 DEF Seal
<1>12. Quiet(h, y) \/ Asks(h, y)
  <2>1. CASE Resumes(r.desc, WayR(r))
    BY <2>1, <1>6, <1>8, <1>10, <1>11 DEF Asks
  <2>2. CASE ~Resumes(r.desc, WayR(r))
    BY <2>2, <1>1, <1>6 DEF Quiet
  <2>3. QED
    BY <2>1, <2>2
<1>13. QED
  BY <1>6, <1>9, <1>12 DEF Effect

\* Established.
LEMMA EstablishedEffect ==
    ASSUME ConnectorInv, NEW h \in Connections, NEW r, r = at[h],
           r.phase \in {"dial", "socksReply"},
           Unusable(r.desc) => WayR(r) \in {"unix", "unixTunnel"},
           WayR(r) \notin {"tunnel", "unixTunnel"},
           client' = client, wanted' = wanted, issuer' = issuer, Established(h)
    PROVE  \E x : Effect(h, x)
<1>1. ScenarioInv /\ AttemptOK(r) /\ ckey[h] = NoKey /\ DOMAIN at = Connections
  BY Here
<1>2. CASE EndR(r).scheme # "http"
  <2>1. EnterHandshake(h, r.heard)
    BY <1>2 DEF Established, EndR
  <2>2. QED
    BY <2>1, <1>2, EnterEffect
<1>3. CASE EndR(r).scheme = "http"
  <2>2. PICK y : y = [r EXCEPT !.phase = "ready"]
    OBVIOUS
  <2>3. at' = [at EXCEPT ![h] = y] /\ UNCHANGED vars
    BY <2>2, <1>1, <1>3 DEF Established, EndR
  <2>4. PICK p, d, v, so, he, tl, to, a, b :
           /\ r = [ phase |-> p, desc |-> d, via |-> v, sock |-> so, heard |-> he,
                    tls |-> tl, told |-> to, age |-> a, blamed |-> b ]
           /\ r.phase = p /\ r.desc = d /\ r.via = v /\ r.sock = so /\ r.tls = tl /\ r.told = to
           /\ r.blamed = b /\ r.heard = he
    BY <1>1 DEF AttemptOK, Shape
  <2>5. y = [ phase |-> "ready", desc |-> d, via |-> v, sock |-> so, heard |-> he,
              tls |-> tl, told |-> to, age |-> a, blamed |-> b ]
    BY <2>2, <2>4
  <2>6. /\ Shape(y) /\ y.phase = "ready" /\ y.desc = r.desc /\ y.via = r.via /\ y.sock = r.sock
        /\ y.tls = r.tls /\ y.told = r.told
    BY <2>4, <2>5 DEF Shape
  <2>7. AttemptOK(y)
    BY <2>6, <1>1, <1>3, PlainReady
  <2>8. QED
    BY <2>3, <2>7, <1>1 DEF Effect, Quiet
<1>4. QED
  BY <1>2, <1>3

\* Fails.
LEMMA FailsEffect ==
    ASSUME ConnectorInv, NEW h \in Connections, NEW r, r = at[h], r.phase \in Underway,
           NEW kind \in {"proxy", "connect", "timeout"},
           NEW head,
           \/ /\ head = r.heard
              /\ kind = "proxy" /\ WayR(r) \in {"tunnel", "unixTunnel"} => r.phase # "handshake"
           \/ r.phase = "reply" /\ head # Opened /\ kind = "proxy",
           client' = client, wanted' = wanted, issuer' = issuer, Fails(h, kind, head)
    PROVE  \E x : Effect(h, x)
<1>1. ScenarioInv /\ AttemptOK(r) /\ DOMAIN at = Connections
  BY Here
<1>2. PICK none : none = {}
  OBVIOUS
<1>3. PICK p, d, v, so, he, tl, to, a, b :
         /\ r = [ phase |-> p, desc |-> d, via |-> v, sock |-> so, heard |-> he,
                  tls |-> tl, told |-> to, age |-> a, blamed |-> b ]
         /\ r.phase = p /\ r.desc = d /\ r.via = v /\ r.sock = so /\ r.tls = tl /\ r.told = to
         /\ r.blamed = b /\ r.heard = he
  BY <1>1 DEF AttemptOK, Shape
<1>4. PICK y : y = [r EXCEPT !.phase = "failed", !.sock = None, !.tls = None, !.age = 0,
                             !.told = none, !.heard = head, !.blamed = kind]
  OBVIOUS
<1>5. at' = [at EXCEPT ![h] = y] /\ Dropped(h)
  BY <1>1, <1>2, <1>4 DEF Fails
<1>6. y = [ phase |-> "failed", desc |-> d, via |-> v, sock |-> None, heard |-> head,
            tls |-> None, told |-> none, age |-> 0, blamed |-> kind ]
  BY <1>3, <1>4
<1>7. /\ Shape(y) /\ y.phase = "failed" /\ y.desc = r.desc /\ y.via = r.via /\ y.sock = None
      /\ y.tls = None /\ y.told = none /\ y.blamed = kind /\ y.heard = head
  BY <1>3, <1>6 DEF Shape
<1>8. AttemptOK(y)
  BY <1>1, <1>2, <1>7, Failed
<1>9. QED
  BY <1>5, <1>8 DEF Effect

\* Dialled.
LEMMA DialledEffect ==
    ASSUME ConnectorInv, NEW h \in Connections, Dialled(h)
    PROVE  \E x : Effect(h, x)
<1>1. PICK r : r = at[h]
  OBVIOUS
<1>2. AttemptOK(r) /\ LegOK(r) /\ r.phase = "dial" /\ ScenarioInv
  BY <1>1, Here DEF Dialled, AttemptOK
<1>3. r.phase \in Underway \ {"handshake"}
  BY <1>2 DEF Underway, Phases
<1>4. PICK way, s : way = WayR(r) /\ s = r.via.proxy.uri.scheme
  OBVIOUS
<1>5. /\ way \in {"direct", "unix", "unixTunnel", "socks", "forward", "tunnel"}
      /\ way = "socks" => s \in Socks
  <2>1. PICK d, via : d = r.desc /\ via = r.via
    OBVIOUS
  <2>2. d.uri.scheme \in Httpish /\ ViaOK(d, via)
    BY <2>1, <1>2, Known
  <2>3. /\ Way(d, via) \in {"direct", "unix", "unixTunnel", "socks", "forward", "tunnel"}
        /\ Way(d, via) = "socks" => via.proxy.uri.scheme \in Socks
    BY <2>2, WayFacts
  <2>4. QED
    BY <2>1, <2>3, <1>4 DEF WayR
<1>6. client' = client /\ wanted' = wanted /\ issuer' = issuer
  BY DEF Dialled
<1>7. CASE way \in {"direct", "forward", "unix"}
  <2>1. Established(h)
    BY <1>1, <1>4, <1>7 DEF Dialled, WayOf, WayR
  <2>2. (Unusable(r.desc) => WayR(r) \in {"unix", "unixTunnel"}) /\ WayR(r) \notin {"tunnel", "unixTunnel"}
    BY <1>2, <1>3, <1>4, <1>7 DEF LegOK
  <2>3. QED
    BY <2>1, <2>2, <1>1, <1>2, <1>6, EstablishedEffect
<1>8. ASSUME NEW phase \in {"proxyTls", "connect", "resolve", "socks"},
             at' = [at EXCEPT ![h].phase = phase], UNCHANGED vars,
             phase = "proxyTls" => way = "tunnel",
             phase = "connect" => way \in {"tunnel", "unixTunnel"},
             phase \in {"resolve", "socks"} => way = "socks",
             phase = "resolve" => s \in {"socks4", "socks5"}
      PROVE  \E x : Effect(h, x)
  <2>1. at' = [at EXCEPT ![h] = [at[h] EXCEPT !.phase = phase]]
    BY <1>8
  <2>2. QED
    BY <2>1, <1>8, <1>1, <1>3, <1>4, <1>6, PhaseEffect
<1>9. CASE way = "unixTunnel"
  <2>1. at' = [at EXCEPT ![h].phase = "connect"] /\ UNCHANGED vars
    BY <1>1, <1>4, <1>9 DEF Dialled, WayOf, WayR
  <2>2. QED
    BY <2>1, <1>9, <1>8
<1>10. CASE way = "tunnel"
  <2>1. PICK phase : phase = IF s = "https" THEN "proxyTls" ELSE "connect"
    OBVIOUS
  <2>2. at' = [at EXCEPT ![h].phase = phase] /\ UNCHANGED vars
    BY <2>1, <1>1, <1>4, <1>10 DEF Dialled, WayOf, WayR
  <2>3. QED
    BY <2>1, <2>2, <1>10, <1>8
<1>11. CASE way = "socks"
  <2>1. PICK phase : phase = IF s \in RemoteNames THEN "socks" ELSE "resolve"
    OBVIOUS
  <2>2. at' = [at EXCEPT ![h].phase = phase] /\ UNCHANGED vars
    BY <2>1, <1>1, <1>4, <1>11 DEF Dialled, WayOf, WayR
  <2>3. phase = "resolve" => s \in {"socks4", "socks5"}
    BY <2>1, <1>5, <1>11 DEF RemoteNames, Socks
  <2>4. QED
    BY <2>1, <2>2, <2>3, <1>11, <1>8
<1>12. QED
  BY <1>5, <1>7, <1>9, <1>10, <1>11

\* TunnelOpens.
LEMMA TunnelEffect ==
    ASSUME ConnectorInv, NEW h \in Connections, TunnelOpens(h)
    PROVE  \E x : Effect(h, x)
<1>1. PICK r : r = at[h]
  OBVIOUS
<1>2. AttemptOK(r) /\ LegOK(r) /\ r.phase = "reply" /\ ScenarioInv
  BY <1>1, Here DEF TunnelOpens, AttemptOK
<1>3. /\ WayR(r) \in {"tunnel", "unixTunnel"}
      /\ Unusable(r.desc) => WayR(r) \in {"unix", "unixTunnel"}
  BY <1>2 DEF LegOK, Underway, Phases
<1>4. EndR(r).scheme # "http"
  <2>1. PICK d, via : d = r.desc /\ via = r.via
    OBVIOUS
  <2>2. d.uri.scheme \in Httpish /\ ViaOK(d, via)
    BY <2>1, <1>2, Known
  <2>3. d.uri.scheme = "https" /\ EndUri(d, via) = d.uri
    BY <2>1, <2>2, <1>3, WayFacts DEF WayR
  <2>4. QED
    BY <2>1, <2>3 DEF EndR
<1>5. PICK head \in Heads : Verdict(head) = "open" /\ EnterHandshake(h, head)
  BY DEF TunnelOpens, Longer
<1>6. client' = client /\ wanted' = wanted /\ issuer' = issuer
  BY DEF TunnelOpens
<1>7. head = Opened
  BY <1>5 DEF Verdict, Heads, Opened
<1>8. QED
  BY <1>1, <1>2, <1>3, <1>4, <1>5, <1>6, <1>7, EnterEffect

\* TunnelRefused.
LEMMA RefusedEffect ==
    ASSUME ConnectorInv, NEW h \in Connections, TunnelRefused(h)
    PROVE  \E x : Effect(h, x)
<1>1. PICK r : r = at[h]
  OBVIOUS
<1>2. r.phase = "reply" /\ r.phase \in Underway
  BY <1>1 DEF TunnelRefused, Underway, Phases
<1>3. PICK head \in Heads : Verdict(head) = "refused" /\ Fails(h, "proxy", head)
  BY DEF TunnelRefused, Longer
<1>4. client' = client /\ wanted' = wanted /\ issuer' = issuer
  BY DEF TunnelRefused
<1>5. head # Opened
  BY <1>3 DEF Verdict, Opened
<1>6. QED
  BY <1>1, <1>2, <1>3, <1>4, <1>5, FailsEffect

\* SocksAgrees.
LEMMA AgreesEffect ==
    ASSUME ConnectorInv, NEW h \in Connections, SocksAgrees(h)
    PROVE  \E x : Effect(h, x)
<1>1. PICK r : r = at[h]
  OBVIOUS
<1>2. LegOK(r) /\ r.phase = "socksReply"
  BY <1>1, Here DEF SocksAgrees, AttemptOK
<1>3. WayR(r) = "socks" /\ r.phase \in Underway
  BY <1>2 DEF LegOK, Underway, Phases
<1>4. client' = client /\ wanted' = wanted /\ issuer' = issuer
  BY DEF SocksAgrees
<1>5. CASE Unusable(r.desc)
  <2>1. Fails(h, "connect", r.heard)
    BY <1>1, <1>5 DEF SocksAgrees
  <2>2. QED
    BY <2>1, <1>1, <1>2, <1>3, <1>4, <1>5, FailsEffect
<1>6. CASE ~Unusable(r.desc)
  <2>1. Established(h)
    BY <1>1, <1>6 DEF SocksAgrees
  <2>2. QED
    BY <2>1, <1>1, <1>2, <1>3, <1>4, <1>6, EstablishedEffect
<1>7. QED
  BY <1>5, <1>6

\* PeerFails.
LEMMA PeerEffect ==
    ASSUME ConnectorInv, NEW h \in Connections, PeerFails(h)
    PROVE  \E x : Effect(h, x)
<1>1. PICK r : r = at[h]
  OBVIOUS
<1>2. r.phase \in Underway
  BY <1>1 DEF PeerFails, Active, Underway, Phases
<1>3. PICK kind : kind = Blame(h)
  OBVIOUS
<1>4. /\ kind \in {"proxy", "connect", "timeout"}
      /\ kind = "proxy" /\ WayR(r) \in {"tunnel", "unixTunnel"} => r.phase # "handshake"
  BY <1>1, <1>3 DEF Blame, WayOf, WayR
<1>5. Fails(h, kind, r.heard) /\ client' = client /\ wanted' = wanted /\ issuer' = issuer
  BY <1>1, <1>3 DEF PeerFails
<1>6. QED
  BY <1>1, <1>2, <1>4, <1>5, FailsEffect

\* TimesOut.
LEMMA TimeoutEffect ==
    ASSUME ConnectorInv, NEW h \in Connections, TimesOut(h)
    PROVE  \E x : Effect(h, x)
<1>1. PICK r : r = at[h]
  OBVIOUS
<1>2. r.phase \in Underway
  BY <1>1 DEF TimesOut, Expired, Pending, Active, Underway, Phases
<1>3. Fails(h, "timeout", r.heard) /\ client' = client /\ wanted' = wanted /\ issuer' = issuer
  BY <1>1 DEF TimesOut
<1>4. QED
  BY <1>1, <1>2, <1>3, FailsEffect

\* Close.
LEMMA CloseEffect ==
    ASSUME ConnectorInv, NEW h \in Connections, Close(h)
    PROVE  \E x : Effect(h, x)
<1>1. /\ at' = [at EXCEPT ![h] = Idle] /\ Dropped(h)
      /\ client' = client /\ wanted' = wanted /\ issuer' = issuer
  BY DEF Close
<1>2. Effect(h, Idle)
  BY <1>1, IdleOK DEF Effect
<1>3. QED
  BY <1>2

\* HearsPart.
LEMMA HearsEffect ==
    ASSUME ConnectorInv, NEW h \in Connections, HearsPart(h)
    PROVE  \E x : Effect(h, x)
<1>1. PICK r : r = at[h]
  OBVIOUS
<1>2. AttemptOK(r) /\ r.phase = "reply" /\ ckey[h] = NoKey /\ DOMAIN at = Connections
  BY <1>1, Here DEF HearsPart
<1>3. PICK f \in Heads : ~f.whole /\ at' = [at EXCEPT ![h].heard = f]
  BY DEF HearsPart, Longer, Verdict
<1>4. PICK y : y = [r EXCEPT !.heard = f]
  OBVIOUS
<1>5. /\ at' = [at EXCEPT ![h] = y] /\ UNCHANGED vars
      /\ client' = client /\ wanted' = wanted /\ issuer' = issuer
  BY <1>1, <1>3, <1>4 DEF HearsPart
<1>6. PICK p, d, v, so, he, tl, to, a, b :
         /\ r = [ phase |-> p, desc |-> d, via |-> v, sock |-> so, heard |-> he,
                  tls |-> tl, told |-> to, age |-> a, blamed |-> b ]
         /\ r.phase = p /\ r.desc = d /\ r.via = v /\ r.sock = so /\ r.tls = tl /\ r.told = to
         /\ r.blamed = b /\ r.heard = he
  BY <1>2 DEF AttemptOK, Shape
<1>7. y = [ phase |-> p, desc |-> d, via |-> v, sock |-> so, heard |-> f,
            tls |-> tl, told |-> to, age |-> a, blamed |-> b ]
  BY <1>4, <1>6
<1>8. /\ Shape(y) /\ y.phase = r.phase /\ y.desc = r.desc /\ y.via = r.via /\ y.sock = r.sock
      /\ y.tls = r.tls /\ y.told = r.told /\ y.blamed = r.blamed /\ y.heard = f
  BY <1>6, <1>7 DEF Shape
<1>9. AttemptOK(y)
  <2>1. HeardOK(y)
    BY <1>2, <1>3, <1>8 DEF HeardOK
  <2>2. QED
    BY <2>1, <1>2, <1>8, OnlyTime
<1>10. QED
  BY <1>2, <1>5, <1>9 DEF Effect, Quiet

\* HandshakeDone.
LEMMA DoneEffect ==
    ASSUME ConnectorInv, NEW h \in Connections, HandshakeDone(h)
    PROVE  \E x : Effect(h, x)
<1>1. PICK r : r = at[h]
  OBVIOUS
<1>2. AttemptOK(r) /\ LegOK(r) /\ TlsOK(r) /\ r.phase = "handshake" /\ ScenarioInv /\ DOMAIN at = Connections
  BY <1>1, Here DEF HandshakeDone, AttemptOK
<1>3. PICK h2 \in BOOLEAN :
         /\ h2 => r.tls.alpn \in {"HTTP_2", "default"}
         /\ at' = [at EXCEPT ![h].phase = "ready", ![h].sock = Restored(h), ![h].tls.h2 = h2]
  BY <1>1 DEF HandshakeDone
<1>4. client' = client /\ wanted' = wanted /\ issuer' = issuer /\ UNCHANGED vars
  BY DEF HandshakeDone
<1>5. PICK sock, seal : sock = Restored(h) /\ seal = [r.tls EXCEPT !.h2 = h2]
  OBVIOUS
<1>6. PICK p, d, v, so, he, tl, to, a, b :
         /\ r = [ phase |-> p, desc |-> d, via |-> v, sock |-> so, heard |-> he,
                  tls |-> tl, told |-> to, age |-> a, blamed |-> b ]
         /\ r.phase = p /\ r.desc = d /\ r.via = v /\ r.sock = so /\ r.tls = tl /\ r.told = to
         /\ r.blamed = b /\ r.heard = he
  BY <1>2 DEF AttemptOK, Shape
<1>7. PICK z : z = [r EXCEPT !.phase = "ready"]
  OBVIOUS
<1>8. z = [ phase |-> "ready", desc |-> d, via |-> v, sock |-> so, heard |-> he,
            tls |-> tl, told |-> to, age |-> a, blamed |-> b ]
  BY <1>6, <1>7
<1>9. PICK w : w = [z EXCEPT !.sock = sock]
  OBVIOUS
<1>10. w = [ phase |-> "ready", desc |-> d, via |-> v, sock |-> sock, heard |-> he,
             tls |-> tl, told |-> to, age |-> a, blamed |-> b ]
  BY <1>8, <1>9
<1>11. PICK y : y = [w EXCEPT !.tls = seal]
  OBVIOUS
<1>12. y = [ phase |-> "ready", desc |-> d, via |-> v, sock |-> sock, heard |-> he,
             tls |-> seal, told |-> to, age |-> a, blamed |-> b ]
  BY <1>10, <1>11
<1>13. at' = [at EXCEPT ![h] = y]
  <2>1. w.tls = r.tls
    BY <1>6, <1>10
  <2>2. y = [w EXCEPT !.tls.h2 = h2]
    BY <2>1, <1>5, <1>11
  <2>3. QED
    BY <2>2, <1>1, <1>2, <1>3, <1>5, <1>7, <1>9
<1>14. /\ Shape(y) /\ y.phase = "ready" /\ y.desc = r.desc /\ y.via = r.via /\ y.sock = sock
       /\ y.tls = seal /\ y.told = r.told /\ y.heard = r.heard
  BY <1>6, <1>12 DEF Shape
<1>15. sock = IF WayR(r) # "unixTunnel" /\ ~client.nodelay
              THEN [r.sock EXCEPT !.nodelay = FALSE] ELSE r.sock
  BY <1>1, <1>5 DEF Restored, WayOf, WayR
<1>16. AttemptOK(y)
  BY <1>2, <1>3, <1>5, <1>14, <1>15, SealedReady
<1>17. seal # None
  <2>1. r.desc \in wanted /\ ViaOK(r.desc, r.via)
    BY <1>2, Known
  <2>2. PICK with, opts, alpn :
            /\ Seal(r.desc, r.via, FALSE) = [with |-> with, opts |-> opts, alpn |-> alpn, h2 |-> FALSE]
            /\ Seal(r.desc, r.via, h2) = [with |-> with, opts |-> opts, alpn |-> alpn, h2 |-> h2]
    BY DEF Seal
  <2>3. r.tls = [with |-> with, opts |-> opts, alpn |-> alpn, h2 |-> FALSE]
    BY <2>2, <1>2 DEF TlsOK
  <2>4. seal = Seal(r.desc, r.via, h2)
    BY <2>2, <2>3, <1>5
  <2>5. QED
    BY <2>1, <2>4, <1>2, SealReal
<1>18. QED
  BY <1>1, <1>4, <1>13, <1>14, <1>16, <1>17 DEF Effect, Quiet

\* Sends.
LEMMA SendsEffect ==
    ASSUME ConnectorInv, NEW h \in Connections, Sends(h)
    PROVE  \E x : Effect(h, x)
<1>1. PICK r : r = at[h]
  OBVIOUS
<1>2. AttemptOK(r) /\ r.phase = "ready" /\ ScenarioInv /\ DOMAIN at = Connections
      /\ (ckey[h] # NoKey => r.tls # None)
  BY <1>1, Here DEF Sends
<1>3. PICK C : C = IF WayR(r) = "forward" /\ ~DrivenH2(r)
                   THEN Told(EndR(r).host, ProxyAuthorization(r.via.proxy)) ELSE {}
  OBVIOUS
<1>4. PICK told : told = r.told \cup C
  OBVIOUS
<1>5. /\ client' = client /\ wanted' = wanted /\ issuer' = issuer /\ UNCHANGED vars
      /\ at' = [at EXCEPT ![h] = [[at[h] EXCEPT !.phase = "used"] EXCEPT !.told = told]]
  BY <1>1, <1>3, <1>4 DEF Sends, Forwarded, IsH2, DrivenH2, WayOf, WayR, EndR
<1>6. PICK p, d, v, so, he, tl, to, a, b :
         /\ r = [ phase |-> p, desc |-> d, via |-> v, sock |-> so, heard |-> he,
                  tls |-> tl, told |-> to, age |-> a, blamed |-> b ]
         /\ r.phase = p /\ r.desc = d /\ r.via = v /\ r.sock = so /\ r.tls = tl /\ r.told = to
         /\ r.blamed = b /\ r.heard = he
  BY <1>2 DEF AttemptOK, Shape
<1>7. PICK z : z = [r EXCEPT !.phase = "used"]
  OBVIOUS
<1>8. z = [ phase |-> "used", desc |-> d, via |-> v, sock |-> so, heard |-> he,
            tls |-> tl, told |-> to, age |-> a, blamed |-> b ]
  BY <1>6, <1>7
<1>9. PICK y : y = [z EXCEPT !.told = told]
  OBVIOUS
<1>10. y = [ phase |-> "used", desc |-> d, via |-> v, sock |-> so, heard |-> he,
             tls |-> tl, told |-> told, age |-> a, blamed |-> b ]
  BY <1>8, <1>9
<1>11. at' = [at EXCEPT ![h] = y]
  BY <1>1, <1>5, <1>7, <1>9
<1>12. /\ Shape(y) /\ y.phase = "used" /\ y.desc = r.desc /\ y.via = r.via /\ y.sock = r.sock
       /\ y.tls = r.tls /\ y.told = told /\ y.heard = r.heard
  BY <1>6, <1>10 DEF Shape
<1>13. AttemptOK(y)
  BY <1>2, <1>3, <1>4, <1>12, FirstUse
<1>14. QED
  BY <1>1, <1>2, <1>5, <1>11, <1>12, <1>13 DEF Effect, Quiet

\* Every step of the connector keeps the invariant, is a step of the session cache or
\* leaves it alone, and offers a session only to the peer that issued it.
LEMMA ConnectorSteps == ConnectorInv /\ [ConnectorNext]_connectorVars => ConnectorInv' /\ [Next]_vars /\ GoesHome
<1> SUFFICES ASSUME ConnectorInv, [ConnectorNext]_connectorVars
             PROVE  ConnectorInv' /\ [Next]_vars /\ GoesHome
  OBVIOUS
<1>1. ASSUME NEW h \in Connections, \E x : Effect(h, x)
      PROVE  ConnectorInv' /\ [Next]_vars /\ GoesHome
  BY <1>1, EffectKeeps
<1>2. CASE Tick
  BY <1>2, TickKeeps
<1>3. ASSUME NEW h \in Connections, NEW d \in wanted, Start(h, d)
      PROVE  ConnectorInv' /\ [Next]_vars /\ GoesHome
  BY <1>1, <1>3, StartEffect
<1>4. ASSUME NEW h \in Connections, Dialled(h) \/ ProxySealed(h) \/ Commands(h) \/ HearsPart(h)
      PROVE  ConnectorInv' /\ [Next]_vars /\ GoesHome
  BY <1>1, <1>4, DialledEffect, SealedEffect, CommandsEffect, HearsEffect
<1>5. ASSUME NEW h \in Connections,
             TunnelOpens(h) \/ TunnelRefused(h) \/ Resolves(h) \/ SocksCommands(h) \/ SocksAgrees(h)
      PROVE  ConnectorInv' /\ [Next]_vars /\ GoesHome
  BY <1>1, <1>5, TunnelEffect, RefusedEffect, ResolvesEffect, SocksEffect, AgreesEffect
<1>6. ASSUME NEW h \in Connections,
             HandshakeDone(h) \/ PeerFails(h) \/ TimesOut(h) \/ Sends(h) \/ Close(h)
      PROVE  ConnectorInv' /\ [Next]_vars /\ GoesHome
  BY <1>1, <1>6, DoneEffect, PeerEffect, TimeoutEffect, SendsEffect, CloseEffect
<1>7. ASSUME NEW h \in Connections, NEW s \in Sessions, TicketArrives(h, s)
      PROVE  ConnectorInv' /\ [Next]_vars /\ GoesHome
  BY <1>7, TicketKeeps
<1>8. CASE UNCHANGED connectorVars
  <2>1. /\ client' = client /\ wanted' = wanted /\ at' = at /\ issuer' = issuer /\ UNCHANGED vars
        /\ lists' = lists /\ ckey' = ckey /\ resumed' = resumed
    BY <1>8 DEF connectorVars, vars
  <2>2. /\ ScenarioInv /\ Inv /\ AttemptsInv /\ KeysInv /\ IssuersInv /\ DOMAIN issuer = Sessions
    BY DEF ConnectorInv
  <2>3. ScenarioInv' /\ DOMAIN issuer' = Sessions
    BY <2>1, <2>2 DEF ScenarioInv
  <2>4. Inv' /\ [Next]_vars
    BY <2>1, <2>2, Inductive
  <2>5. ASSUME NEW g \in Connections PROVE AttemptOK(at[g])'
    <3>1. PICK y : y = at[g]
      OBVIOUS
    <3>2. AttemptOK(y) /\ at'[g] = y
      BY <3>1, <2>1, <2>2 DEF AttemptsInv
    <3>3. QED
      BY <3>2, <2>1, Frame
  <2>6. AttemptsInv' /\ KeysInv'
    BY <2>1, <2>2, <2>5 DEF AttemptsInv, KeysInv
  <2>7. IssuersInv'
    <3>1. ASSUME NEW s \in Sessions, NEW k \in Keys, Cached(s, k)' PROVE issuer'[s] = Home(k)'
      <4>1. Cached(s, k)
        BY <3>1, <2>1 DEF Cached
      <4>2. Home(k)' = Home(k)
        BY <2>1, HomeStays
      <4>3. QED
        BY <4>1, <4>2, <2>1, <2>2 DEF IssuersInv
    <3>2. QED
      BY <3>1 DEF IssuersInv
  <2>8. GoesHome
    BY <2>1 DEF GoesHome
  <2>9. QED
    BY <2>3, <2>4, <2>6, <2>7, <2>8 DEF ConnectorInv
<1>9. QED
  BY <1>2, <1>3, <1>4, <1>5, <1>6, <1>7, <1>8 DEF ConnectorNext

\* The invariant holds of a new client.
LEMMA ConnectorStarts == ConnectorInit => ConnectorInv
<1> SUFFICES ASSUME ConnectorInit PROVE ConnectorInv
  OBVIOUS
<1>1. ScenarioInv /\ Inv /\ DOMAIN issuer = Sessions
  BY Initial DEF ConnectorInit, ScenarioInv
<1>2. AttemptsInv
  BY IdleOK DEF ConnectorInit, AttemptsInv
<1>3. KeysInv
  BY DEF ConnectorInit, Init, KeysInv
<1>4. IssuersInv
  BY DEF ConnectorInit, Init, IssuersInv, Cached
<1>5. QED
  BY <1>1, <1>2, <1>3, <1>4 DEF ConnectorInv
-----------------------------------------------------------------------------
(***************************************************************************)
(* What the invariant implies.                                             *)
(***************************************************************************)
\* What is known of a connection that is handed out.
LEMMA UsableFacts ==
    ASSUME ConnectorInv, NEW h \in Connections, Usable(h)
    PROVE  /\ LegOK(at[h]) /\ at[h].phase \in {"ready", "used"} /\ ScenarioInv
           /\ at[h].desc \in wanted /\ at[h].via = Route(at[h].desc) /\ DescriptorOK(at[h].desc)
           /\ at[h].desc.uri.scheme \in Httpish /\ ViaOK(at[h].desc, at[h].via)
           /\ client.nodelay \in BOOLEAN
           /\ at[h].sock = HandedSocket(at[h].desc, at[h].via)
           /\ IF EndUri(at[h].desc, at[h].via).scheme = "http" THEN at[h].tls = None
              ELSE /\ at[h].tls # None
                   /\ \E h2 \in BOOLEAN :
                         /\ at[h].tls = Seal(at[h].desc, at[h].via, h2)
                         /\ h2 => Alpn(at[h].desc, WayOf(h)) \in {"HTTP_2", "default"}
<1>1. PICK r : r = at[h]
  OBVIOUS
<1>2. ScenarioInv /\ LegOK(r) /\ SockOK(r) /\ TlsOK(r) /\ r.phase \in {"ready", "used"}
  BY <1>1, Here DEF AttemptOK, Usable
<1>3. /\ r.desc \in wanted /\ r.via = Route(r.desc) /\ DescriptorOK(r.desc)
      /\ r.desc.uri.scheme \in Httpish /\ ViaOK(r.desc, r.via) /\ client.nodelay \in BOOLEAN
  BY <1>2, Known
<1>4. r.sock = HandedSocket(r.desc, r.via)
  BY <1>2 DEF SockOK
<1>5. CASE EndUri(r.desc, r.via).scheme = "http"
  BY <1>1, <1>2, <1>3, <1>4, <1>5 DEF TlsOK, EndR
<1>6. CASE EndUri(r.desc, r.via).scheme # "http"
  <2>1. PICK h2 \in BOOLEAN :
           /\ r.tls = Seal(r.desc, r.via, h2)
           /\ h2 => Alpn(r.desc, WayR(r)) \in {"HTTP_2", "default"}
    BY <1>2, <1>6 DEF TlsOK, EndR
  <2>2. r.tls # None
    BY <2>1, <1>2, <1>3, SealReal
  <2>3. WayR(r) = WayOf(h)
    BY <1>1 DEF WayR, WayOf
  <2>4. QED
    BY <2>1, <2>2, <2>3, <1>1, <1>2, <1>3, <1>4, <1>6
<1>7. QED
  BY <1>5, <1>6

\* A connection handed out is the one that was asked for.
LEMMA InvHandedOut == ConnectorInv => HandedOutRight
<1> SUFFICES ASSUME ConnectorInv PROVE HandedOutRight
  OBVIOUS
<1>1. ASSUME NEW h \in Connections, Usable(h)
      PROVE  /\ LET d == at[h].desc
                    end == IF at[h].tls = None THEN None ELSE at[h].tls.with
                IN  IF d.uri.scheme = "https" THEN end = d.uri.host
                    ELSE end # None => /\ at[h].via.proxy.uri.scheme = "https"
                                       /\ end = at[h].via.proxy.uri.host
                                       /\ at[h].sock.to = end
             /\ at[h].sock.nodelay = client.nodelay
             /\ WayOf(h) = "forward" /\ at[h].tls # None /\ at[h].tls.h2 =>
                    at[h].desc.version = "HTTP_2"
  <2>1. PICK d, via, tls, sock :
           d = at[h].desc /\ via = at[h].via /\ tls = at[h].tls /\ sock = at[h].sock
    OBVIOUS
  <2>2. /\ DescriptorOK(d) /\ d.uri.scheme \in Httpish /\ ViaOK(d, via)
        /\ client.nodelay \in BOOLEAN /\ sock = HandedSocket(d, via)
        /\ IF EndUri(d, via).scheme = "http" THEN tls = None
           ELSE /\ tls # None
                /\ \E h2 \in BOOLEAN : /\ tls = Seal(d, via, h2)
                                       /\ h2 => Alpn(d, Way(d, via)) \in {"HTTP_2", "default"}
    BY <1>1, <2>1, UsableFacts DEF WayOf
  <2>3. sock.nodelay = client.nodelay /\ sock.to = SocketOf(d, via).to
    BY <2>2 DEF HandedSocket
  <2>4. /\ Way(d, via) \in {"direct", "unix", "unixTunnel", "socks", "forward", "tunnel"}
        /\ Way(d, via) = "forward" => via.proxy.uri.scheme \in {"http", "https"}
        /\ Way(d, via) \in {"unix", "forward"} => d.uri.scheme = "http"
        /\ Way(d, via) \in {"unixTunnel", "tunnel"} => d.uri.scheme = "https"
        /\ EndUri(d, via) = IF Way(d, via) = "forward" THEN via.proxy.uri ELSE d.uri
    BY <2>2, WayFacts
  <2>5. Way(d, via) = "forward" => SocketOf(d, via).to = via.proxy.uri.host
    BY <2>2, SocketFacts
  <2>6. tls # None => tls.with = EndUri(d, via).host
    BY <2>2 DEF Seal
  <2>7. CASE d.uri.scheme = "https"
    <3>1. EndUri(d, via) = d.uri
      BY <2>4, <2>7
    <3>2. tls # None /\ tls.with = d.uri.host
      BY <3>1, <2>2, <2>6, <2>7
    <3>3. Way(d, via) # "forward"
      BY <2>4, <2>7
    <3>4. QED
      BY <3>2, <3>3, <2>1, <2>3, <2>7 DEF WayOf
  <2>8. CASE d.uri.scheme = "http"
    <3>1. ASSUME tls # None
          PROVE  /\ Way(d, via) = "forward" /\ via.proxy.uri.scheme = "https"
                 /\ tls.with = via.proxy.uri.host /\ sock.to = tls.with
      <4>1. EndUri(d, via).scheme # "http"
        BY <3>1, <2>2
      <4>2. Way(d, via) = "forward"
        BY <4>1, <2>4, <2>8
      <4>3. QED
        BY <4>1, <4>2, <2>3, <2>4, <2>5, <2>6, <3>1
    <3>2. ASSUME Way(d, via) = "forward", tls # None, tls.h2 PROVE d.version = "HTTP_2"
      <4>1. PICK h2 \in BOOLEAN : /\ tls = Seal(d, via, h2)
                                  /\ h2 => Alpn(d, Way(d, via)) \in {"HTTP_2", "default"}
        BY <3>2, <2>2
      <4>2. tls.h2 = h2
        BY <4>1 DEF Seal
      <4>3. Alpn(d, "forward") \in {"HTTP_2", "default"}
        BY <4>1, <4>2, <3>2
      <4>4. None \notin {"HTTP_2", "default"}
        BY ConnectorAssumption
      <4>5. d.version \in {"HTTP_2", "default"}
        BY <4>3, <4>4 DEF Alpn
      <4>6. d.version \in {"HTTP_11", "HTTP_2", None}
        BY <2>2 DEF DescriptorOK
      <4>7. QED
        BY <4>4, <4>5, <4>6
    <3>3. QED
      BY <3>1, <3>2, <2>1, <2>3, <2>8 DEF WayOf
  <2>9. QED
    BY <2>2, <2>7, <2>8 DEF Httpish
<1>2. QED
  BY <1>1 DEF HandedOutRight, TargetSealed, NagleRestored, ProxyKeepsVersion

\* Credentials and names were told to nobody but their parties, and were told in time.
LEMMA InvCredentials == ConnectorInv => CredentialsPlaced
<1> SUFFICES ASSUME ConnectorInv PROVE CredentialsPlaced
  OBVIOUS
<1>1. \A h \in Connections : ToldOK(at[h])
  BY Here DEF AttemptOK
<1>2. SecretsKept
  BY <1>1 DEF SecretsKept, ToldOK, SaidOK
<1>3. ASSUME NEW h \in Connections, at[h].phase = "used", WayOf(h) \in {"forward", "tunnel"},
             ~(WayOf(h) = "forward" /\ IsH2(h))
      PROVE  LET extra == at[h].via.proxy.extra
                 creds == {t.what : t \in {u \in at[h].told : u.to # Resolver}}
             IN  /\ Cardinality(creds) <= 1
                 /\ extra.auth # None => creds # {}
                 /\ extra.misc # None /\ extra.misc.auth # None => creds = {extra.misc.auth}
  <2>1. PICK r, T, via : r = at[h] /\ T = r.told /\ via = r.via
    OBVIOUS
  <2>2. PICK C, P : /\ C = {t.what : t \in {u \in T : u.to # Resolver}}
                    /\ P = ProxyAuthorization(via.proxy)
    OBVIOUS
  <2>3. WayR(r) \in {"forward", "tunnel"} /\ CredentialDue(r)
    BY <1>3, <2>1 DEF WayOf, WayR, CredentialDue, IsH2, DrivenH2
  <2>4. SaidOK(r.desc, via, T) /\ CredentialTold(via, T)
    BY <2>1, <2>3, <1>1 DEF ToldOK
  <2>5. \A u \in T : u.to # Resolver => u.what = P
    BY <2>2, <2>3, <2>4, <2>1 DEF SaidOK, WayR
  <2>6. C \subseteq {P}
    BY <2>2, <2>5
  <2>7. P # None => C = {P}
    <3>1. SUFFICES ASSUME P # None PROVE P \in C
      BY <2>6
    <3>2. PICK t \in T : t.to # Resolver
      BY <3>1, <2>2, <2>4 DEF CredentialTold
    <3>3. t.what = P
      BY <3>2, <2>5
    <3>4. QED
      BY <3>2, <3>3, <2>2
  <2>8. Cardinality(C) <= 1
    <3>1. C = {} \/ C = {P}
      BY <2>6
    <3>2. Cardinality({}) = 0 /\ Cardinality({P}) = 1
      BY FS_EmptySet, FS_Singleton
    <3>3. QED
      BY <3>1, <3>2
  <2>9. PICK extra : extra = via.proxy.extra
    OBVIOUS
  <2>10. extra.misc # None /\ extra.misc.auth # None => P = extra.misc.auth
    BY <2>2, <2>9 DEF ProxyAuthorization
  <2>11. extra.auth # None => P # None
    BY <2>2, <2>9 DEF ProxyAuthorization, BasicAuthOf
  <2>12. QED
    BY <2>1, <2>2, <2>7, <2>8, <2>9, <2>10, <2>11
<1>4. ProxyAuthorized
  BY <1>3 DEF ProxyAuthorized
<1>5. QED
  BY <1>2, <1>4 DEF CredentialsPlaced

\* An excluded host is not reached through the proxy it is excluded from.
LEMMA InvBypass == ConnectorInv => BypassHonoured
<1> SUFFICES ASSUME ConnectorInv, NEW h \in Connections, at[h].via # None, at[h].via.kind = "proxy"
             PROVE  \E m \in {at[h].desc.proxy} \cup Range(client.proxies) :
                        /\ m # None /\ at[h].via.proxy \in {m.http, m.https}
                        /\ NotExcluded(m, at[h].desc.uri.host)
  BY DEF BypassHonoured, NotExcluded
<1>1. PICK r : r = at[h]
  OBVIOUS
<1>2. LegOK(r) /\ ScenarioInv
  BY <1>1, Here DEF AttemptOK
<1>3. r.phase # "idle"
  BY <1>1, <1>2 DEF LegOK, Idle
<1>4. PICK d, via : d = r.desc /\ via = r.via /\ ViaOK(d, via)
  BY <1>2, <1>3, Known
<1>5. \A path : via # ViaUnix(path)
  BY <1>1, <1>4 DEF ViaUnix
<1>6. PICK m \in {d.proxy} \cup Range(client.proxies) : \E i \in {m.http, m.https} :
             m # None /\ via = ViaProxy(i) /\ NotExcluded(m, d.uri.host)
  BY <1>1, <1>4, <1>5 DEF ViaOK
<1>7. via.proxy \in {m.http, m.https}
  BY <1>6 DEF ViaProxy
<1>8. QED
  BY <1>1, <1>4, <1>6, <1>7

\* TLS with the target of a tunnel begins after the whole answer of its proxy.
LEMMA InvTunnel == ConnectorInv => TunnelEarned
<1> SUFFICES ASSUME ConnectorInv, NEW h \in Connections, WayOf(h) \in {"tunnel", "unixTunnel"}
             PROVE  /\ at[h].tls # None \/ ckey[h] # NoKey => at[h].heard = Opened
                    /\ at[h].phase = "failed" /\ at[h].heard = Opened => at[h].blamed # "proxy"
                    /\ at[h].heard.whole /\ at[h].heard # Opened =>
                          at[h].phase = "failed" /\ at[h].blamed = "proxy"
  BY DEF TunnelEarned
<1>1. HeardOK(at[h]) /\ TlsOK(at[h]) /\ (ckey[h] # NoKey => at[h].tls # None)
  BY Here DEF AttemptOK
<1>2. QED
  BY <1>1 DEF HeardOK, TlsOK, WayOf, WayR

\* Connections of one identity can replace each other.
LEMMA InvInterchangeable == ConnectorInv => Interchangeable
<1> SUFFICES ASSUME ConnectorInv, NEW g \in Connections, NEW h \in Connections,
                    Usable(g), Usable(h), IdOf(at[g].desc) = IdOf(at[h].desc)
             PROVE  /\ at[g].via = at[h].via
                    /\ at[g].sock = at[h].sock
                    /\ (at[g].tls = None) = (at[h].tls = None)
                    /\ at[g].tls # None =>
                          [at[g].tls EXCEPT !.h2 = FALSE] = [at[h].tls EXCEPT !.h2 = FALSE]
  BY DEF Interchangeable
<1>1. PICK d, e, via : d = at[g].desc /\ e = at[h].desc /\ via = at[g].via
  OBVIOUS
<1>2. d.uri = e.uri /\ d.proxy = e.proxy /\ d.version = e.version /\ d.bind = e.bind
  BY <1>1 DEF IdOf
<1>3. /\ d \in wanted /\ e \in wanted /\ via = Route(d) /\ at[h].via = Route(e) /\ ScenarioInv
      /\ LegOK(at[g]) /\ LegOK(at[h])
      /\ at[g].phase \in {"ready", "used"} /\ at[h].phase \in {"ready", "used"}
  BY <1>1, UsableFacts
<1>4. at[h].via = via /\ Way(d, via) = Way(e, via) /\ EndUri(d, via) = EndUri(e, via)
  BY <1>2, <1>3, SameRoute
<1>5. SocketOf(d, via) = SocketOf(e, via)
  BY <1>2, <1>4 DEF SocketOf, BindOf
<1>6. HandedSocket(d, via) = HandedSocket(e, via)
  BY <1>5 DEF HandedSocket
<1>7. at[g].sock = at[h].sock
  BY <1>1, <1>4, <1>6, UsableFacts
<1>8. OptionsOf(d, Way(d, via)) = OptionsOf(e, Way(e, via))
  <2>1. CASE Way(d, via) \in {"unix", "unixTunnel"}
    BY <2>1, <1>4 DEF OptionsOf
  <2>2. CASE Way(d, via) \notin {"unix", "unixTunnel"}
    <3>1. ~Unusable(d) /\ ~Unusable(e)
      BY <2>2, <1>1, <1>3, <1>4 DEF LegOK, WayR
    <3>2. d.tls = e.tls
      BY <3>1, <1>1, <1>3, ScenarioFacts
    <3>3. QED
      BY <3>2, <1>4 DEF OptionsOf
  <2>3. QED
    BY <2>1, <2>2
<1>9. Alpn(d, Way(d, via)) = Alpn(e, Way(e, via))
  BY <1>2, <1>4 DEF Alpn
<1>10. CASE EndUri(d, via).scheme = "http"
  <2>1. at[g].tls = None /\ at[h].tls = None
    BY <1>1, <1>4, <1>10, UsableFacts
  <2>2. QED
    BY <2>1, <1>1, <1>4, <1>7
<1>11. CASE EndUri(d, via).scheme # "http"
  <2>1. PICK b \in BOOLEAN : at[g].tls = Seal(d, via, b)
    BY <1>1, <1>11, UsableFacts
  <2>2. PICK c \in BOOLEAN : at[h].tls = Seal(e, via, c)
    BY <1>1, <1>4, <1>11, UsableFacts
  <2>3. at[g].tls # None /\ at[h].tls # None
    BY <1>1, <1>4, <1>11, UsableFacts
  <2>4. PICK with, opts, alpn :
           with = EndUri(d, via).host /\ opts = OptionsOf(d, Way(d, via)) /\ alpn = Alpn(d, Way(d, via))
    OBVIOUS
  <2>5. /\ at[g].tls = [with |-> with, opts |-> opts, alpn |-> alpn, h2 |-> b]
        /\ at[h].tls = [with |-> with, opts |-> opts, alpn |-> alpn, h2 |-> c]
    BY <2>1, <2>2, <2>4, <1>4, <1>8, <1>9 DEF Seal
  <2>6. [at[g].tls EXCEPT !.h2 = FALSE] = [at[h].tls EXCEPT !.h2 = FALSE]
    <3>1. PICK f : f = FALSE
      OBVIOUS
    <3>2. PICK y : y = [at[g].tls EXCEPT !.h2 = f]
      OBVIOUS
    <3>3. PICK z : z = [at[h].tls EXCEPT !.h2 = f]
      OBVIOUS
    <3>4. y = [with |-> with, opts |-> opts, alpn |-> alpn, h2 |-> f]
      BY <3>2, <2>5
    <3>5. z = [with |-> with, opts |-> opts, alpn |-> alpn, h2 |-> f]
      BY <3>3, <2>5
    <3>6. QED
      BY <3>1, <3>2, <3>3, <3>4, <3>5
  <2>7. QED
    BY <2>3, <2>6, <1>1, <1>4, <1>7
<1>12. QED
  BY <1>10, <1>11
-----------------------------------------------------------------------------
(***************************************************************************)
(* The theorems.                                                           *)
(***************************************************************************)
\* ConnectorInv holds in every state, and every step is one of the session cache or
\* leaves it alone.
LEMMA Always ==
    ConnectorSpec => []ConnectorInv /\ [][Next]_vars /\ [][GoesHome]_connectorVars
<1>1. ConnectorInv /\ [ConnectorNext]_connectorVars => [GoesHome]_connectorVars
  BY ConnectorSteps
<1>2. QED
  BY <1>1, ConnectorStarts, ConnectorSteps, PTL DEF ConnectorSpec

\* The connector uses the session cache as SessionCache says (setup_ssl2 and the
\* new-session callback): its attempts are connections of that module.
THEOREM CacheSafety == ConnectorSpec => CacheUsed
<1>1. ConnectorInit => Init
  BY DEF ConnectorInit
<1>2. QED
  BY <1>1, Always, PTL DEF ConnectorSpec, CacheUsed, Spec

\* So LruTlsSessionCache stays consistent however the attempts interleave, and no two
\* handshakes get one TLS 1.3 session.
THEOREM SharedCacheSafety == ConnectorSpec => [](IndexInv /\ SingleUse)
BY CacheSafety, IndexSafety, SingleUseSafety, PTL DEF CacheUsed

\* connect_auto, connect_via_proxy and HttpsConnector hand out the connection that was
\* asked for: TLS with the right peer, Nagle's algorithm and the version as they should be.
THEOREM HandedOutSafety == ConnectorSpec => []HandedOutRight
BY Always, InvHandedOut, PTL

\* Tunnel, SOCKS and try_send_request tell a proxy its credentials, and nobody else.
THEOREM CredentialsSafety == ConnectorSpec => []CredentialsPlaced
BY Always, InvCredentials, PTL

\* connect_auto goes through no proxy that the destination is excluded from.
THEOREM BypassSafety == ConnectorSpec => []BypassHonoured
BY Always, InvBypass, PTL

\* TLS with the target of a tunnel begins, and a session is spent on it, only after
\* tunnel() has read the whole head of a 200; what fails later is not put down to the
\* proxy, and what it refuses is.
THEOREM TunnelSafety == ConnectorSpec => []TunnelEarned
BY Always, InvTunnel, PTL

\* Connections of one ConnectionId are equivalent, and sessions go back only to the peer
\* that issued them.
THEOREM IdentitySafety == ConnectorSpec => IdentityHolds
<1>1. ConnectorSpec => []Interchangeable
  BY Always, InvInterchangeable, PTL
<1>2. ConnectorSpec => SessionsGoHome
  BY Always, PTL DEF SessionsGoHome, GoesHome
<1>3. QED
  BY <1>1, <1>2, PTL DEF IdentityHolds
=============================================================================
