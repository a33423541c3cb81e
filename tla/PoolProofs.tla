----------------------------- MODULE PoolProofs -----------------------------
(***************************************************************************)
(* Safety of the connection pool for every number of keys, connections and *)
(* checkouts and for every configuration.                                  *)
(*                                                                         *)
(* Types are not preserved by themselves: a Pooled is put back under       *)
(* the key of its connection, which must be one.  WellFormed adds what the *)
(* types need, and TypeOK /\ WellFormed is the invariant under all others. *)
(*                                                                         *)
(* First types, the lock of HTTP/2 attempts and ownership; then the        *)
(* waiters and the idle lists.                                             *)
(***************************************************************************)
EXTENDS Pool, RetainProofs, SequenceTheorems

Established == {"open", "poisoned", "closed"}

WellFormed ==
    /\ \A c \in Conns : phase[c] # "free" => ckey[c] \in Keys
    /\ \A c \in Conns : phase[c] \notin Established => ~fresh[c] /\ ~h2[c] /\ ~busy[c]
    /\ \A o \in Checkouts : cstate[o] # "none" => okey[o] \in Keys
    /\ \A o \in Checkouts : cstate[o] \in {"sent", "held"} <=> cconn[o] # NoConn
    /\ \A o \in Checkouts : cconn[o] # NoConn => phase[cconn[o]] \in Established
    /\ \A k \in Keys : \A i \in DOMAIN idle[k] : phase[idle[k][i].conn] \in Established

TypeInv == TypeOK /\ WellFormed
-----------------------------------------------------------------------------
(***************************************************************************)
(* The operators the pool is built from.                                   *)
(***************************************************************************)
\* First and Last pick the ends of a set of positions, as the loops over the
\* waiters and over an idle list do.
LEMMA FirstLast ==
    ASSUME NEW n \in Nat, NEW I \in SUBSET (1..n), I # {}
    PROVE  /\ First(I) \in I /\ \A j \in I : First(I) <= j
           /\ Last(I) \in I /\ \A j \in I : j <= Last(I)
<1>b. I \subseteq Nat
  OBVIOUS
<1>1. \E i \in I : \A j \in I : i <= j
  BY <1>b, LeastNatural
<1>2. First(I) \in I /\ \A j \in I : First(I) <= j
  BY <1>1 DEF First
<1> DEFINE T == {n - i : i \in I}
<1>a. \A i \in I : n - i \in Nat
  OBVIOUS
<1>3. T \subseteq Nat /\ T # {}
  BY <1>a, Zenon
<1>4. PICK x \in T : \A y \in T : x <= y
  BY <1>3, LeastNatural
<1>5. PICK i \in I : x = n - i
  BY <1>4
<1>6. \A j \in I : n - i <= n - j
  BY <1>4, <1>5
<1>7. \A j \in I : j <= i
  BY <1>6
<1>8. \E a \in I : \A j \in I : j <= a
  BY <1>7
<1>9. Last(I) \in I /\ \A j \in I : j <= Last(I)
  BY <1>8 DEF Last
<1>10. QED
  BY <1>2, <1>9

\* The clock bounds are natural numbers.
LEMMA ClockTypes == Period \in Nat \ {0} /\ AgeCap \in Nat /\ 0 \in 0..AgeCap /\ 0 \in 0..Period
BY PoolAssumption DEF Period, AgeCap, NoTimeout

\* The part of the state that put works on.
IdleType ==
    /\ idle \in [Keys -> Seq(IdleEntries)]
    /\ lru \in Seq(Keys)
    /\ interval \in BOOLEAN
    /\ left \in 0..Period

\* Each position of a list after a put is an old one or, at the end of the list
\* of k, the connection c.
PutsAt(k, c) ==
    \A j \in Keys : \A i \in DOMAIN idle'[j] :
        \/ i \in DOMAIN idle[j] /\ idle'[j][i] = idle[j][i]
        \/ j = k /\ i = Len(idle'[k]) /\ idle'[j][i].conn = c /\ idle'[j][i].age = 0

\* What PoolInner::put does to the idle lists: types are kept and c is placed at
\* most once.  Nothing changes when a waiter takes a unique connection.
LEMMA PutIdleFacts ==
    ASSUME IdleType, NEW k \in Keys, NEW c \in Conns, NEW shared \in BOOLEAN,
           PutIdle(k, c, shared)
    PROVE  /\ IdleType'
           /\ PutsAt(k, c)
           /\ ~shared /\ Live(k) # {} => idle' = idle
<1> DEFINE kept == [j \in Keys |-> IF j \in Evicted(k) THEN <<>> ELSE idle[j]]
           e == [conn |-> c, age |-> 0]
<1>1. CASE PutRejected(k, shared) \/ (~shared /\ Live(k) # {})
  BY <1>1 DEF PutIdle, IdleType, PutsAt
<1>2. CASE ~ (PutRejected(k, shared) \/ (~shared /\ Live(k) # {}))
  <2>1. e \in IdleEntries
    BY ClockTypes DEF IdleEntries
  <2>2. kept \in [Keys -> Seq(IdleEntries)]
    BY DEF IdleType
  <2>3. lru' = Append(Retain(lru, Keys \ (Evicted(k) \cup {k})), k)
    BY <1>2 DEF PutIdle
  <2>4. lru' \in Seq(Keys)
    <3>1. Retain(lru, Keys \ (Evicted(k) \cup {k})) \in Seq(Keys)
      BY RetainFacts DEF IdleType
    <3>2. QED
      BY <2>3, <3>1
  <2>5. CASE Len(idle[k]) >= MaxIdle
    <3>1. idle' = kept /\ UNCHANGED <<interval, left>>
      BY <1>2, <2>5 DEF PutIdle
    <3>2. QED
      BY <1>2, <2>2, <2>4, <3>1 DEF IdleType, PutsAt
  <2>6. CASE ~ (Len(idle[k]) >= MaxIdle)
    <3>1. idle' = [kept EXCEPT ![k] = Append(@, e)] /\ SpawnIdleInterval
      BY <1>2, <2>6 DEF PutIdle
    <3>2. interval' \in BOOLEAN /\ left' \in 0..Period
      <4>1. Period \in 0..Period
        BY ClockTypes
      <4>2. (interval' = TRUE /\ left' = Period) \/ (interval' = interval /\ left' = left)
        BY <3>1 DEF SpawnIdleInterval
      <4>3. QED
        BY <4>1, <4>2, Zenon DEF IdleType
    <3>3. idle' \in [Keys -> Seq(IdleEntries)]
      <4> HIDE DEF kept, e
      <4>1. Append(kept[k], e) \in Seq(IdleEntries)
        BY <2>1, <2>2
      <4>2. QED
        BY <3>1, <2>2, <4>1
    <3>4. ASSUME NEW j \in Keys, NEW i \in DOMAIN idle'[j]
          PROVE  \/ i \in DOMAIN idle[j] /\ idle'[j][i] = idle[j][i]
                 \/ j = k /\ i = Len(idle'[k]) /\ idle'[j][i].conn = c /\ idle'[j][i].age = 0
      <4>1. CASE j # k
        BY <3>1, <3>4, <4>1
      <4>2. CASE j = k
        <5>1. idle'[k] = Append(kept[k], e) /\ kept[k] \in Seq(IdleEntries)
          BY <3>1, <2>2
        <5>2. kept[k] = <<>> \/ kept[k] = idle[k]
          OBVIOUS
        <5> HIDE DEF kept, e
        <5>3. i \in 1..(Len(kept[k]) + 1) /\ Len(idle'[k]) = Len(kept[k]) + 1
          BY <5>1, <4>2, <3>4, <2>1
        <5>4. CASE i = Len(kept[k]) + 1
          <6>1. idle'[k][i] = e
            BY <5>1, <5>4, <2>1
          <6>2. QED
            BY <6>1, <5>3, <5>4, <4>2 DEF e
        <5>5. CASE i # Len(kept[k]) + 1
          <6>1. i \in DOMAIN kept[k] /\ idle'[k][i] = kept[k][i]
            BY <5>1, <5>3, <5>5, <2>1
          <6>2. QED
            BY <6>1, <5>2, <4>2
        <5>6. QED
          BY <5>4, <5>5
      <4>3. QED
        BY <4>1, <4>2
    <3>5. QED
      BY <1>2, <2>4, <3>2, <3>3, <3>4 DEF IdleType, PutsAt
  <2>7. QED
    BY <2>5, <2>6
<1>3. QED
  BY <1>1, <1>2
\* An entry that ages stays the same connection's entry.
LEMMA OlderFacts ==
    ASSUME NEW e \in IdleEntries
    PROVE  Older(e) \in IdleEntries /\ Older(e).conn = e.conn
<1>1. PICK c \in Conns, a \in 0..AgeCap : e = [conn |-> c, age |-> a]
  BY DEF IdleEntries
<1>2. Older(e) = [conn |-> c, age |-> IF a < AgeCap THEN a + 1 ELSE a]
  BY <1>1 DEF Older
<1>3. (IF a < AgeCap THEN a + 1 ELSE a) \in 0..AgeCap
  BY ClockTypes
<1>4. QED
  BY <1>1, <1>2, <1>3 DEF IdleEntries

\* Who receives a connection that is put: checkouts that are parked on its key,
\* one at most if the connection is unique, and none unless one is alive.
LEMMA ReceiverFacts ==
    ASSUME waiters \in [Keys -> Seq(Checkouts)], NEW k \in Keys, NEW shared \in BOOLEAN
    PROVE  /\ \A o \in PutReceivers(k, shared) : o \in Checkouts /\ cstate[o] = "waiting"
           /\ ~shared => \A o, p \in PutReceivers(k, shared) : o = p
           /\ Live(k) = {} => PutReceivers(k, shared) = {}
           /\ \A o \in PutReceivers(k, shared) : \E i \in Live(k) : o = waiters[k][i]
           /\ PutQueue(k, shared) \in Seq(Checkouts)
<1>1. \A i \in Live(k) : i \in 1..Len(waiters[k]) /\ waiters[k][i] \in Checkouts
                         /\ cstate[waiters[k][i]] = "waiting"
  BY DEF Live
<1>2. \A o \in PutReceivers(k, shared) : \E i \in Live(k) : o = waiters[k][i]
  BY DEF PutReceivers, PutRejected
<1>3. ~shared => \A o, p \in PutReceivers(k, shared) : o = p
  BY DEF PutReceivers, PutRejected
<1>4. PutQueue(k, shared) \in Seq(Checkouts)
  <2>1. CASE shared \/ Live(k) = {}
    BY <2>1 DEF PutQueue
  <2>2. CASE ~ (shared \/ Live(k) = {})
    <3>1. Len(waiters[k]) \in Nat /\ Live(k) \in SUBSET (1..Len(waiters[k]))
      BY <1>1
    <3>2. First(Live(k)) \in 1..Len(waiters[k])
      BY <2>2, <3>1, FirstLast
    <3>3. PutQueue(k, shared) = SubSeq(waiters[k], First(Live(k)) + 1, Len(waiters[k]))
      BY <2>2 DEF PutQueue
    <3>4. QED
      BY <3>1, <3>2, <3>3
  <2>3. QED
    BY <2>1, <2>2
<1>5. QED
  BY <1>1, <1>2, <1>3, <1>4

\* What checkout o takes from the idle list of k: the connection c at the usable
\* position i.  Of the list only the positions before i remain, and c itself at
\* position i if it can be shared.
Takes(o, k, i, c) ==
    /\ idle[k][i].conn = c /\ IsOpen(c) /\ ~Expires(idle[k][i])
    /\ cconn' = [cconn EXCEPT ![o] = c]
    /\ \A j \in Keys : j # k => idle'[j] = idle[j]
    /\ \A p \in DOMAIN idle'[k] :
          \/ p \in DOMAIN idle[k] /\ p < i /\ idle'[k][p] = idle[k][p]
          \/ h2[c] /\ p = i /\ idle'[k][p].conn = c /\ idle'[k][p].age = 0

\* A checkout that finds something idle takes one usable connection.
LEMMA CheckoutIdleFacts ==
    ASSUME IdleType, NEW o \in Checkouts, NEW k \in Keys, CheckoutIdle(o, k)
    PROVE  IdleType' /\ \E i \in DOMAIN idle[k] : \E c \in Conns : Takes(o, k, i, c)
<1> DEFINE i == Last(Usable(k))
           c == idle[k][i].conn
           e == [conn |-> c, age |-> 0]
           rest == SubSeq(idle[k], 1, i - 1)
           list == IF h2[c] THEN Append(rest, e) ELSE rest
           keys == Retain(lru, Keys \ {k})
<1>1. idle[k] \in Seq(IdleEntries) /\ Len(idle[k]) \in Nat /\ DOMAIN idle[k] = 1..Len(idle[k])
  BY LenProperties DEF IdleType
<1>2. Usable(k) \in SUBSET (1..Len(idle[k])) /\ Usable(k) # {}
  BY <1>1 DEF CheckoutIdle, Usable
<1>3. i \in Usable(k) /\ i \in 1..Len(idle[k])
  BY <1>1, <1>2, FirstLast
<1>4. idle[k][i] \in IdleEntries /\ IsOpen(c) /\ ~Expires(idle[k][i])
  <2> HIDE DEF i
  <2>1. idle[k][i] \in IdleEntries
    BY <1>1, <1>3
  <2>2. IsOpen(idle[k][i].conn) /\ ~Expires(idle[k][i])
    BY <1>3 DEF Usable
  <2>3. QED
    BY <2>1, <2>2
<1>5. c \in Conns /\ e \in IdleEntries
  BY <1>4, ClockTypes DEF IdleEntries
<1>6. /\ idle' = [idle EXCEPT ![k] = list]
      /\ lru' = IF list = <<>> THEN keys ELSE Append(keys, k)
      /\ cconn' = [cconn EXCEPT ![o] = c]
      /\ interval' = interval /\ left' = left
  BY DEF CheckoutIdle
<1>7. keys \in Seq(Keys)
  BY RetainFacts DEF IdleType
<1> HIDE DEF i, c, e
<1>8. \A p \in 1..(i - 1) : idle[k][p] \in IdleEntries
  BY <1>1, <1>3
<1>9. rest \in Seq(IdleEntries) /\ Len(rest) = i - 1 /\ \A p \in 1..(i - 1) : rest[p] = idle[k][p]
  BY <1>1, <1>3, <1>8, SubSeqProperties
<1>10. DOMAIN rest = 1..(i - 1)
  BY <1>9, LenProperties
<1> HIDE DEF rest
<1>11. /\ Append(rest, e) \in Seq(IdleEntries)
       /\ DOMAIN Append(rest, e) = 1..i
       /\ Append(rest, e)[i] = e
       /\ \A p \in 1..(i - 1) : Append(rest, e)[p] = rest[p]
  <2>1. Len(Append(rest, e)) = i /\ Append(rest, e) \in Seq(IdleEntries)
    BY <1>3, <1>5, <1>9, AppendProperties
  <2>2. QED
    BY <2>1, <1>3, <1>5, <1>9, AppendProperties, LenProperties
<1>12. list \in Seq(IdleEntries)
  BY <1>9, <1>11
<1>13. ASSUME NEW p \in DOMAIN list
       PROVE  \/ p \in DOMAIN idle[k] /\ p < i /\ list[p] = idle[k][p]
              \/ h2[c] /\ p = i /\ list[p] = e
  <2>1. CASE h2[c]
    <3>1. list = Append(rest, e) /\ p \in 1..i
      BY <2>1, <1>13, <1>11
    <3> HIDE DEF list
    <3>2. CASE p = i
      BY <2>1, <3>1, <3>2, <1>11
    <3>3. CASE p # i
      BY <3>1, <3>3, <1>1, <1>3, <1>9, <1>11
    <3>4. QED
      BY <3>2, <3>3
  <2>2. CASE ~h2[c]
    <3>1. list = rest /\ p \in 1..(i - 1)
      BY <2>2, <1>13, <1>10
    <3>2. QED
      BY <3>1, <1>1, <1>3, <1>9
  <2>3. QED
    BY <2>1, <2>2
<1> HIDE DEF list, keys
<1>14. IdleType'
  BY <1>6, <1>7, <1>12 DEF IdleType
<1>15. idle'[k] = list /\ \A j \in Keys : j # k => idle'[j] = idle[j]
  BY <1>6 DEF IdleType
<1>16. i \in DOMAIN idle[k] /\ idle[k][i].conn = c
  BY <1>1, <1>3 DEF c
<1>17. e.conn = c /\ e.age = 0
  BY DEF e
<1>18. Takes(o, k, i, c)
  BY <1>4, <1>6, <1>13, <1>15, <1>16, <1>17 DEF Takes
<1>19. QED
  BY <1>5, <1>14, <1>16, <1>18
-----------------------------------------------------------------------------
(***************************************************************************)
(* Types.                                                                  *)
(***************************************************************************)
\* Every step of the pool preserves the types and well-formedness.
LEMMA TypeStep == TypeInv /\ [PoolNext]_poolVars => TypeInv'
<1> SUFFICES ASSUME TypeInv, [PoolNext]_poolVars PROVE TypeInv'
  OBVIOUS
<1> USE DEF TypeInv, TypeOK, WellFormed, Established, innerVars, connVars, outVars
<1>1. ASSUME NEW o \in Checkouts, WaiterServed(o) PROVE TypeInv'
  BY <1>1, PoolAssumption DEF WaiterServed, Phases, CheckoutStates
<1>2. ASSUME NEW o \in Checkouts, WaiterGetsClosed(o) PROVE TypeInv'
  BY <1>2, PoolAssumption DEF WaiterGetsClosed, Phases, CheckoutStates
<1>3. ASSUME NEW o \in Checkouts, WaiterCanceled(o) PROVE TypeInv'
  BY <1>3, PoolAssumption DEF WaiterCanceled, Phases, CheckoutStates
<1>4. ASSUME NEW o \in Checkouts, CheckoutDrop(o) PROVE TypeInv'
  BY <1>4, PoolAssumption DEF CheckoutDrop, Phases, CheckoutStates
<1>5. ASSUME NEW c \in Conns, NEW k \in Keys, Connecting(c, k) PROVE TypeInv'
  BY <1>5, PoolAssumption DEF Connecting, Phases, CheckoutStates
<1>6. ASSUME NEW c \in Conns, NEW k \in Keys, ConnectingH2(c, k) PROVE TypeInv'
  BY <1>6, PoolAssumption DEF ConnectingH2, Phases, CheckoutStates
<1>7. ASSUME NEW c \in Conns, AlpnH2(c) PROVE TypeInv'
  BY <1>7, PoolAssumption DEF AlpnH2, Phases, CheckoutStates
<1>8. ASSUME NEW c \in Conns, ConnectingDrop(c) PROVE TypeInv'
  BY <1>8, PoolAssumption DEF ConnectingDrop, Phases, CheckoutStates
<1>9. ASSUME NEW c \in Conns, PooledUnique(c) PROVE TypeInv'
  BY <1>9, PoolAssumption DEF PooledUnique, Phases, CheckoutStates
<1>10. ASSUME NEW c \in Conns, StartExchange(c) PROVE TypeInv'
  BY <1>10, PoolAssumption DEF StartExchange, Phases, CheckoutStates
<1>11. ASSUME NEW c \in Conns, EndExchange(c) PROVE TypeInv'
  BY <1>11, PoolAssumption DEF EndExchange, Phases, CheckoutStates
<1>12. ASSUME NEW c \in Conns, Close(c) PROVE TypeInv'
  BY <1>12, PoolAssumption DEF Close, Phases, CheckoutStates
<1>13. ASSUME NEW c \in Conns, Poison(c) PROVE TypeInv'
  BY <1>13, PoolAssumption DEF Poison, Phases, CheckoutStates
<1>14. ASSUME NEW o \in Checkouts, NEW k \in Keys, CheckoutIdle(o, k) PROVE TypeInv'
  <2>1. IdleType
    BY DEF IdleType
  <2>2. IdleType' /\ \E i \in DOMAIN idle[k] : \E c \in Conns : Takes(o, k, i, c)
    BY <1>14, <2>1, CheckoutIdleFacts
  <2>3. PICK i \in DOMAIN idle[k], c \in Conns : Takes(o, k, i, c)
    BY <2>2
  <2>4. \A j \in Keys : \A p \in DOMAIN idle'[j] : phase[idle'[j][p].conn] \in Established
    <3>1. phase[c] \in Established
      BY <2>3 DEF Takes, IsOpen
    <3>2. ASSUME NEW j \in Keys, NEW p \in DOMAIN idle'[j], j # k
          PROVE  phase[idle'[j][p].conn] \in Established
      <4>1. idle'[j] = idle[j]
        BY <2>3, <3>2 DEF Takes
      <4>2. QED
        BY <3>2, <4>1
    <3>3. ASSUME NEW p \in DOMAIN idle'[k] PROVE phase[idle'[k][p].conn] \in Established
      <4>1. CASE p \in DOMAIN idle[k] /\ idle'[k][p] = idle[k][p]
        BY <4>1
      <4>2. CASE idle'[k][p].conn = c
        BY <4>2, <3>1
      <4>3. QED
        BY <2>3, <4>1, <4>2 DEF Takes
    <3>4. QED
      BY <3>2, <3>3
  <2>5. TypeOK'
    <3>1. cconn' \in [Checkouts -> Conns \cup {NoConn}]
      BY <2>3 DEF Takes
    <3>2. cstate' \in [Checkouts -> CheckoutStates] /\ okey' \in [Checkouts -> Keys \cup {NoKey}]
      BY <1>14 DEF CheckoutIdle, CheckoutStates
    <3>3. UNCHANGED <<connecting, waiters, alive, phase, ckey, h2, busy, fresh>>
      BY <1>14 DEF CheckoutIdle
    <3>4. QED
      BY <2>2, <3>1, <3>2, <3>3 DEF IdleType
  <2>6. WellFormed'
    <3>1. cconn' = [cconn EXCEPT ![o] = c] /\ phase[c] \in Established /\ c # NoConn
      BY <2>3, PoolAssumption DEF Takes, IsOpen
    <3>2. cstate' = [cstate EXCEPT ![o] = "held"] /\ okey' = [okey EXCEPT ![o] = k]
      BY <1>14 DEF CheckoutIdle
    <3>3. UNCHANGED <<phase, ckey, h2, busy, fresh>>
      BY <1>14 DEF CheckoutIdle
    <3>4. QED
      BY <2>4, <3>1, <3>2, <3>3
  <2>7. QED
    BY <2>5, <2>6
<1>15. ASSUME NEW o \in Checkouts, NEW k \in Keys, CheckoutWait(o, k) PROVE TypeInv'
  <2>1. Retain(lru, Keys \ {k}) \in Seq(Keys)
    BY RetainFacts
  <2>2. Append(waiters[k], o) \in Seq(Checkouts)
    OBVIOUS
  <2>3. QED
    BY <1>15, <2>1, <2>2, PoolAssumption DEF CheckoutWait, CheckoutStates
<1>16. ASSUME NEW o \in Checkouts, CleanWaiters(o) PROVE TypeInv'
  <2>1. okey[o] \in Keys
    BY <1>16 DEF CleanWaiters
  <2>2. Retain(waiters[okey[o]], {w \in Checkouts : cstate[w] = "waiting"}) \in Seq(Checkouts)
    BY <2>1, RetainFacts
  <2>3. QED
    BY <1>16, <2>1, <2>2, PoolAssumption DEF CleanWaiters, CheckoutStates
<1>17. ASSUME NEW c \in Conns, ConnectingDropLocked(c) PROVE TypeInv'
  <2>1. ckey[c] \in Keys
    BY <1>17 DEF ConnectingDropLocked
  <2>2. \A o \in Dropped(ckey[c]) : o \in Checkouts /\ cstate[o] = "waiting"
    BY <2>1 DEF Dropped, Live
  <2>3. QED
    BY <1>17, <2>1, <2>2, PoolAssumption DEF ConnectingDropLocked, Phases, CheckoutStates
<1>18. ASSUME NEW c \in Conns, Vanish(c) PROVE TypeInv'
  BY <1>18, PoolAssumption DEF Vanish, Referenced, InChannel, IsHeld, IsIdle, Phases
<1>19. ASSUME Tick PROVE TypeInv'
  <2> DEFINE aged(k) == [i \in DOMAIN idle[k] |-> Older(idle[k][i])]
  <2>1. \A e \in IdleEntries : Older(e) \in IdleEntries /\ Older(e).conn = e.conn
    BY OlderFacts
  <2>2. ASSUME NEW k \in Keys
        PROVE  /\ aged(k) \in Seq(IdleEntries)
               /\ \A i \in DOMAIN idle[k] : aged(k)[i].conn = idle[k][i].conn
    <3>1. idle[k] \in Seq(IdleEntries)
      OBVIOUS
    <3>2. QED
      BY <3>1, <2>1
  <2>3. idle' = [k \in Keys |-> aged(k)] /\ left' \in 0..Period
    BY <1>19, ClockTypes DEF Tick
  <2>4. \A k \in Keys : \A i \in DOMAIN idle'[k] :
           i \in DOMAIN idle[k] /\ idle'[k][i].conn = idle[k][i].conn
    BY <2>2, <2>3
  <2>5. idle' \in [Keys -> Seq(IdleEntries)]
    BY <2>2, <2>3
  <2> HIDE DEF aged
  <2>6. QED
    BY <1>19, <2>3, <2>4, <2>5 DEF Tick
<1>20. ASSUME ClearExpired PROVE TypeInv'
  <2>1. ASSUME NEW k \in Keys
        PROVE  /\ Retained(k) \in Seq(IdleEntries)
               /\ \A i \in DOMAIN Retained(k) : IsOpen(Retained(k)[i].conn)
    BY RetainFacts DEF Retained
  <2>2. Retain(lru, {k \in Keys : Retained(k) # <<>>}) \in Seq(Keys)
    BY RetainFacts
  <2>3. Period \in 0..Period
    BY ClockTypes
  <2>4. idle' = [k \in Keys |-> Retained(k)] /\ lru' \in Seq(Keys) /\ left' \in 0..Period
    BY <1>20, <2>2, <2>3 DEF ClearExpired
  <2>5. idle' \in [Keys -> Seq(IdleEntries)]
    BY <2>1, <2>4
  <2>6. \A k \in Keys : \A i \in DOMAIN idle'[k] : phase[idle'[k][i].conn] \in Established
    BY <2>1, <2>4 DEF IsOpen
  <2>7. QED
    BY <1>20, <2>4, <2>5, <2>6 DEF ClearExpired
<1>21. ASSUME DropPool PROVE TypeInv'
  <2>1. idle' \in [Keys -> Seq(IdleEntries)] /\ \A k \in Keys : DOMAIN idle'[k] = {}
    BY <1>21 DEF DropPool
  <2>2. waiters' \in [Keys -> Seq(Checkouts)] /\ lru' \in Seq(Keys) /\ alive' \in BOOLEAN
    <3>1. <<>> \in Seq(Checkouts) /\ <<>> \in Seq(Keys)
      OBVIOUS
    <3>2. waiters' = [k \in Keys |-> <<>>] /\ lru' = <<>> /\ alive' = FALSE
      BY <1>21 DEF DropPool
    <3>3. QED
      BY <3>1, <3>2
  <2>3. UNCHANGED <<connecting, interval, left, connVars, outVars>>
    BY <1>21 DEF DropPool
  <2>4. QED
    BY <2>1, <2>2, <2>3
<1>22. ASSUME IdleTaskEnds PROVE TypeInv'
  BY <1>22, ClockTypes DEF IdleTaskEnds
<1>23. CASE UNCHANGED poolVars
  BY <1>23 DEF poolVars
<1>24. ASSUME NEW c \in Conns, PooledShared(c) PROVE TypeInv'
  <2> DEFINE k == ckey[c]
             R == PutReceivers(k, TRUE)
  <2>1. k \in Keys /\ IdleType
    BY <1>24 DEF PooledShared, IdleType
  <2>2. /\ \A o \in R : o \in Checkouts /\ cstate[o] = "waiting"
        /\ \A o \in Dropped(k) : o \in Checkouts /\ cstate[o] = "waiting"
    <3> HIDE DEF k
    <3>1. \A o \in R : o \in Checkouts /\ cstate[o] = "waiting"
      BY <2>1, ReceiverFacts
    <3>2. \A o \in Dropped(k) : o \in Checkouts /\ cstate[o] = "waiting"
      BY <2>1 DEF Dropped, Live
    <3>3. QED
      BY <3>1, <3>2
  <2>3. PutIdle(k, c, TRUE)
    BY <1>24 DEF PooledShared
  <2>4. IdleType' /\ PutsAt(k, c)
    BY <2>1, <2>3, PutIdleFacts
  <2>5. /\ phase[c] = "locked" /\ phase' = [phase EXCEPT ![c] = "open"]
        /\ h2' = [h2 EXCEPT ![c] = TRUE] /\ fresh' = [fresh EXCEPT ![c] = TRUE]
        /\ connecting' = connecting \ {k}
        /\ waiters' = [waiters EXCEPT ![k] = <<>>]
        /\ cstate' = [o \in Checkouts |->
                         CASE o \in R -> "sent"
                           [] o \notin R /\ o \in Dropped(k) -> "canceled"
                           [] OTHER -> cstate[o]]
        /\ cconn' = [o \in Checkouts |-> IF o \in R THEN c ELSE cconn[o]]
        /\ UNCHANGED <<alive, ckey, busy, okey>>
    BY <1>24 DEF PooledShared
  <2> HIDE DEF k, R
  <2>6. TypeOK'
    BY <2>1, <2>2, <2>4, <2>5 DEF IdleType, Phases, CheckoutStates
  <2>7. \A j \in Keys : \A i \in DOMAIN idle'[j] : phase'[idle'[j][i].conn] \in Established
    BY <2>4, <2>5 DEF PutsAt
  <2>8. WellFormed'
    BY <2>2, <2>5, <2>7, PoolAssumption
  <2>9. QED
    BY <2>6, <2>8
<1>25. ASSUME NEW c \in Conns, PooledDrop(c) PROVE TypeInv'
  <2> DEFINE k == ckey[c]
             R == IF Reinserted(c) THEN PutReceivers(k, FALSE) ELSE {}
  <2>1. k \in Keys /\ IdleType /\ phase[c] \in Established
    BY <1>25 DEF PooledDrop, IdleType
  <2>2. \A o \in R : o \in Checkouts /\ cstate[o] = "waiting"
    BY <2>1, ReceiverFacts
  <2>3. IdleType' /\ PutsAt(k, c) /\ waiters' \in [Keys -> Seq(Checkouts)]
    <3>1. CASE Reinserted(c)
      <4>1. PutIdle(k, c, FALSE) /\ waiters' = [waiters EXCEPT ![k] = PutQueue(k, FALSE)]
        BY <1>25, <3>1 DEF PooledDrop
      <4> HIDE DEF k
      <4>2. PutQueue(k, FALSE) \in Seq(Checkouts)
        BY <2>1, ReceiverFacts
      <4>3. waiters' \in [Keys -> Seq(Checkouts)]
        BY <4>1, <4>2
      <4>4. QED
        BY <2>1, <4>1, <4>3, PutIdleFacts
    <3>2. CASE ~Reinserted(c)
      BY <1>25, <3>2, <2>1 DEF PooledDrop, IdleType, PutsAt
    <3>3. QED
      BY <3>1, <3>2
  <2>4. /\ fresh' = [fresh EXCEPT ![c] = FALSE]
        /\ cstate' = [o \in Checkouts |-> IF o \in R THEN "sent" ELSE cstate[o]]
        /\ cconn' = [o \in Checkouts |-> IF o \in R THEN c ELSE cconn[o]]
        /\ UNCHANGED <<connecting, alive, phase, ckey, h2, busy, okey>>
    BY <1>25 DEF PooledDrop
  <2> HIDE DEF k, R
  <2>5. TypeOK'
    BY <2>1, <2>2, <2>3, <2>4 DEF IdleType, CheckoutStates
  <2>6. \A j \in Keys : \A i \in DOMAIN idle'[j] : phase'[idle'[j][i].conn] \in Established
    BY <2>1, <2>3, <2>4 DEF PutsAt
  <2>7. WellFormed'
    BY <2>1, <2>2, <2>4, <2>6, PoolAssumption
  <2>8. QED
    BY <2>5, <2>7
<1>26. ASSUME NEW o \in Checkouts, PooledDropReused(o) PROVE TypeInv'
  <2> DEFINE c == cconn[o]
             k == okey[o]
             R == IF Reinserted(c) THEN PutReceivers(k, FALSE) ELSE {}
  <2>1. k \in Keys /\ IdleType /\ cstate[o] = "held" /\ c \in Conns /\ phase[c] \in Established
    BY <1>26 DEF PooledDropReused, IdleType
  <2>2. \A w \in R : w \in Checkouts /\ cstate[w] = "waiting"
    BY <2>1, ReceiverFacts
  <2>3. IdleType' /\ PutsAt(k, c) /\ waiters' \in [Keys -> Seq(Checkouts)]
    <3>1. CASE Reinserted(c)
      <4>1. PutIdle(k, c, FALSE) /\ waiters' = [waiters EXCEPT ![k] = PutQueue(k, FALSE)]
        BY <1>26, <3>1 DEF PooledDropReused
      <4> HIDE DEF k, c
      <4>2. PutQueue(k, FALSE) \in Seq(Checkouts)
        BY <2>1, ReceiverFacts
      <4>3. waiters' \in [Keys -> Seq(Checkouts)]
        BY <4>1, <4>2
      <4>4. QED
        BY <2>1, <4>1, <4>3, PutIdleFacts
    <3>2. CASE ~Reinserted(c)
      BY <1>26, <3>2, <2>1 DEF PooledDropReused, IdleType, PutsAt
    <3>3. QED
      BY <3>1, <3>2
  <2>4. /\ cstate' = [w \in Checkouts |->
                         CASE w \in R -> "sent"
                           [] w \notin R /\ w = o -> "none"
                           [] OTHER -> cstate[w]]
        /\ cconn' = [w \in Checkouts |->
                         CASE w \in R -> c
                           [] w \notin R /\ w = o -> NoConn
                           [] OTHER -> cconn[w]]
        /\ okey' = [okey EXCEPT ![o] = NoKey]
        /\ UNCHANGED <<connecting, alive, phase, ckey, h2, busy, fresh>>
    BY <1>26 DEF PooledDropReused
  <2> HIDE DEF k, c, R
  <2>5. TypeOK'
    BY <2>1, <2>2, <2>3, <2>4 DEF IdleType, CheckoutStates
  <2>6. \A j \in Keys : \A i \in DOMAIN idle'[j] : phase'[idle'[j][i].conn] \in Established
    BY <2>1, <2>3, <2>4 DEF PutsAt
  <2>7. WellFormed'
    BY <2>1, <2>2, <2>4, <2>6, PoolAssumption
  <2>8. QED
    BY <2>5, <2>7
<1>27. QED
  BY <1>1, <1>2, <1>3, <1>4, <1>5, <1>6, <1>7, <1>8, <1>9, <1>10, <1>11, <1>12, <1>13,
     <1>14, <1>15, <1>16, <1>17, <1>18, <1>19, <1>20, <1>21, <1>22, <1>23, <1>24, <1>25, <1>26
     DEF PoolNext, CheckoutNext, ConnNext

\* The types hold initially.
LEMMA TypeInit == Init => TypeInv
<1> SUFFICES ASSUME Init PROVE TypeInv
  OBVIOUS
<1>1. idle \in [Keys -> Seq(IdleEntries)] /\ \A k \in Keys : DOMAIN idle[k] = {}
  BY DEF Init
<1>2. TypeOK
  <2>1. lru \in Seq(Keys) /\ waiters \in [Keys -> Seq(Checkouts)]
    <3>1. <<>> \in Seq(Checkouts) /\ <<>> \in Seq(Keys)
      OBVIOUS
    <3>2. QED
      BY <3>1 DEF Init
  <2>2. left \in 0..Period
    BY ClockTypes DEF Init
  <2>3. QED
    BY <1>1, <2>1, <2>2 DEF Init, TypeOK, Phases, CheckoutStates
<1>3. WellFormed
  BY <1>1 DEF Init, WellFormed, Established
<1>4. QED
  BY <1>2, <1>3 DEF TypeInv

\* Every state the pool can reach is well-formed.
THEOREM TypeInvariant == PoolSpec => []TypeInv
BY TypeInit, TypeStep, PTL DEF PoolSpec

\* Every state the pool can reach has the types of PoolInner, whatever the
\* order in which handles are polled and dropped.
THEOREM TypeCorrect == PoolSpec => []TypeOK
<1>1. TypeInv => TypeOK
  BY DEF TypeInv
<1>2. QED
  BY <1>1, TypeInvariant, PTL
-----------------------------------------------------------------------------
(***************************************************************************)
(* The HTTP/2 lock.                                                        *)
(***************************************************************************)
\* Every step keeps one attempt per taken lock.
LEMMA LockStep == TypeInv /\ LockInv /\ [PoolNext]_poolVars => LockInv'
<1> SUFFICES ASSUME TypeInv, LockInv, [PoolNext]_poolVars PROVE LockInv'
  OBVIOUS
<1> USE DEF TypeInv, TypeOK, LockInv, innerVars, connVars, outVars
<1>1. ASSUME NEW c \in Conns, NEW k \in Keys, Connecting(c, k) PROVE LockInv'
  BY <1>1 DEF Connecting
<1>2. ASSUME NEW c \in Conns, NEW k \in Keys, ConnectingH2(c, k) PROVE LockInv'
  BY <1>2 DEF ConnectingH2
<1>3. ASSUME NEW c \in Conns, AlpnH2(c) PROVE LockInv'
  <2>1. ckey[c] \in Keys
    BY <1>3 DEF AlpnH2, WellFormed
  <2>2. /\ phase' = [phase EXCEPT ![c] = "locked"] /\ ckey' = ckey
        /\ connecting' = connecting \cup {ckey[c]} /\ ckey[c] \notin connecting
    BY <1>3 DEF AlpnH2
  <2>3. \A d \in Conns : phase[d] = "locked" => ckey[d] # ckey[c]
    BY <2>1, <2>2
  <2>4. QED
    BY <2>1, <2>2, <2>3
<1>4. ASSUME NEW c \in Conns, ConnectingDrop(c) PROVE LockInv'
  BY <1>4 DEF ConnectingDrop
<1>5. ASSUME NEW c \in Conns, ConnectingDropLocked(c) PROVE LockInv'
  <2>1. ckey[c] \in Keys /\ phase[c] = "locked"
    BY <1>5 DEF ConnectingDropLocked, WellFormed
  <2>2. /\ phase' = [phase EXCEPT ![c] = "free"] /\ ckey' = [ckey EXCEPT ![c] = NoKey]
        /\ connecting' = connecting \ {ckey[c]}
    BY <1>5 DEF ConnectingDropLocked
  <2>3. QED
    BY <2>1, <2>2
<1>6. ASSUME NEW c \in Conns, PooledUnique(c) PROVE LockInv'
  BY <1>6 DEF PooledUnique
<1>7. ASSUME NEW c \in Conns, PooledShared(c) PROVE LockInv'
  <2>1. ckey[c] \in Keys /\ phase[c] = "locked"
    BY <1>7 DEF PooledShared, WellFormed
  <2>2. /\ phase' = [phase EXCEPT ![c] = "open"] /\ ckey' = ckey
        /\ connecting' = connecting \ {ckey[c]}
    BY <1>7 DEF PooledShared
  <2>3. QED
    BY <2>1, <2>2
<1>8. ASSUME NEW c \in Conns, Close(c) \/ Poison(c) \/ Vanish(c) PROVE LockInv'
  <2>1. CASE Close(c)
    BY <2>1 DEF Close
  <2>2. CASE Poison(c)
    BY <2>2 DEF Poison
  <2>3. CASE Vanish(c)
    BY <2>3 DEF Vanish
  <2>4. QED
    BY <1>8, <2>1, <2>2, <2>3
<1>9. CASE UNCHANGED <<connecting, phase, ckey>>
  BY <1>9
<1>10. QED
  <2>1. ASSUME NEW o \in Checkouts, CheckoutNext(o) PROVE UNCHANGED <<connecting, phase, ckey>>
    BY <2>1 DEF CheckoutNext, CheckoutIdle, CheckoutWait, WaiterServed, WaiterGetsClosed,
                WaiterCanceled, CheckoutDrop, CleanWaiters, PooledDropReused
  <2>2. ASSUME NEW c \in Conns, PooledDrop(c) \/ StartExchange(c) \/ EndExchange(c)
        PROVE  UNCHANGED <<connecting, phase, ckey>>
    BY <2>2 DEF PooledDrop, StartExchange, EndExchange
  <2>3. ASSUME Tick \/ ClearExpired \/ DropPool \/ IdleTaskEnds \/ UNCHANGED poolVars
        PROVE  UNCHANGED <<connecting, phase, ckey>>
    BY <2>3 DEF Tick, ClearExpired, DropPool, IdleTaskEnds, poolVars
  <2>4. QED
    BY <1>1, <1>2, <1>3, <1>4, <1>5, <1>6, <1>7, <1>8, <1>9, <2>1, <2>2, <2>3
       DEF PoolNext, ConnNext

\* At most one HTTP/2 attempt per key is under way, and `connecting` names
\* exactly those keys: the debug_assert of PoolInner::connected cannot fail and
\* no lock is ever left behind.
THEOREM LockSafety == PoolSpec => []LockInv
<1>1. Init => LockInv
  BY DEF Init, LockInv
<1>2. QED
  BY <1>1, LockStep, TypeInvariant, PTL DEF PoolSpec
-----------------------------------------------------------------------------
(***************************************************************************)
(* Ownership of HTTP/1 connections.                                        *)
(***************************************************************************)
\* Dropping handles without moving a connection cannot duplicate it.
LEMMA Forget ==
    ASSUME TypeInv, TypeInv', UniqueOwnership, idle' = idle,
           \A o \in Checkouts : cconn'[o] = cconn[o] \/ cconn'[o] = NoConn,
           \A c \in Conns : (fresh'[c] => fresh[c]) /\ (h2[c] => h2'[c])
    PROVE  UniqueOwnership'
<1> SUFFICES ASSUME NEW c \in Conns, ~h2'[c]
             PROVE  (/\ \A o, p \in Checkouts : cconn[o] = c /\ cconn[p] = c => o = p
                     /\ IsIdle(c) => \A o \in Checkouts : cconn[o] # c
                     /\ fresh[c] => ~IsIdle(c) /\ \A o \in Checkouts : cconn[o] # c
                     /\ \A k, l \in Keys : \A i \in DOMAIN idle[k], j \in DOMAIN idle[l] :
                           idle[k][i].conn = c /\ idle[l][j].conn = c => k = l /\ i = j)'
  BY DEF UniqueOwnership
<1>1. \A o \in Checkouts : cconn'[o] = c => cconn[o] = c
  BY PoolAssumption
<1>2. IsIdle(c)' <=> IsIdle(c)
  BY DEF IsIdle
<1>3. QED
  BY <1>1, <1>2 DEF UniqueOwnership

\* Removing positions from the idle lists cannot duplicate a connection.
LEMMA Shrink ==
    ASSUME TypeInv, TypeInv', UniqueOwnership, UNCHANGED <<cconn, fresh, h2>>,
           \A k \in Keys : \E f \in [DOMAIN idle'[k] -> DOMAIN idle[k]] :
              /\ \A i \in DOMAIN idle'[k] : idle'[k][i].conn = idle[k][f[i]].conn
              /\ \A i, j \in DOMAIN idle'[k] : f[i] = f[j] => i = j
    PROVE  UniqueOwnership'
<1> SUFFICES ASSUME NEW c \in Conns, ~h2'[c]
             PROVE  (/\ \A o, p \in Checkouts : cconn[o] = c /\ cconn[p] = c => o = p
                     /\ IsIdle(c) => \A o \in Checkouts : cconn[o] # c
                     /\ fresh[c] => ~IsIdle(c) /\ \A o \in Checkouts : cconn[o] # c
                     /\ \A k, l \in Keys : \A i \in DOMAIN idle[k], j \in DOMAIN idle[l] :
                           idle[k][i].conn = c /\ idle[l][j].conn = c => k = l /\ i = j)'
  BY DEF UniqueOwnership
<1>1. IsIdle(c)' => IsIdle(c)
  BY DEF IsIdle
<1>2. ASSUME NEW k \in Keys, NEW l \in Keys, NEW i \in DOMAIN idle'[k], NEW j \in DOMAIN idle'[l],
             idle'[k][i].conn = c, idle'[l][j].conn = c
      PROVE  k = l /\ i = j
  <2>1. PICK f \in [DOMAIN idle'[k] -> DOMAIN idle[k]] :
           /\ \A x \in DOMAIN idle'[k] : idle'[k][x].conn = idle[k][f[x]].conn
           /\ \A x, y \in DOMAIN idle'[k] : f[x] = f[y] => x = y
    OBVIOUS
  <2>2. PICK g \in [DOMAIN idle'[l] -> DOMAIN idle[l]] :
           \A x \in DOMAIN idle'[l] : idle'[l][x].conn = idle[l][g[x]].conn
    OBVIOUS
  <2>3. k = l
    BY <1>2, <2>1, <2>2 DEF UniqueOwnership
  <2>4. f[i] = f[j]
    BY <1>2, <2>1, <2>3 DEF UniqueOwnership
  <2>5. QED
    BY <2>1, <2>3, <2>4
<1>3. QED
  BY <1>1, <1>2 DEF UniqueOwnership

\* Giving a unique connection back moves it: from its holder to one parked
\* checkout, or to one position of one list.
LEMMA Reinsert ==
    ASSUME TypeInv, TypeInv', UniqueOwnership, h2' = h2,
           NEW d \in Conns, NEW k \in Keys, NEW R \in SUBSET Checkouts,
           ~h2[d], ~IsIdle(d),
           \A o \in R : cconn[o] = NoConn,
           \A o, p \in R : o = p,
           R # {} => idle' = idle,
           PutsAt(k, d),
           \A o \in Checkouts : o \in R => cconn'[o] = d,
           \A o \in Checkouts : o \notin R => cconn'[o] # d /\ (cconn'[o] = cconn[o] \/ cconn'[o] = NoConn),
           \A c \in Conns : fresh'[c] => fresh[c] /\ c # d
    PROVE  UniqueOwnership'
<1> SUFFICES ASSUME NEW c \in Conns, ~h2'[c]
             PROVE  (/\ \A o, p \in Checkouts : cconn[o] = c /\ cconn[p] = c => o = p
                     /\ IsIdle(c) => \A o \in Checkouts : cconn[o] # c
                     /\ fresh[c] => ~IsIdle(c) /\ \A o \in Checkouts : cconn[o] # c
                     /\ \A l, m \in Keys : \A i \in DOMAIN idle[l], j \in DOMAIN idle[m] :
                           idle[l][i].conn = c /\ idle[m][j].conn = c => l = m /\ i = j)'
  BY DEF UniqueOwnership
<1>1. CASE c # d
  <2>1. \A o \in Checkouts : cconn'[o] = c => cconn[o] = c
    BY <1>1, PoolAssumption
  <2>2. \A l \in Keys : \A i \in DOMAIN idle'[l] :
           idle'[l][i].conn = c => i \in DOMAIN idle[l] /\ idle[l][i].conn = c
    BY <1>1 DEF PutsAt
  <2>3. IsIdle(c)' => IsIdle(c)
    BY <2>2 DEF IsIdle
  <2>4. QED
    BY <2>1, <2>2, <2>3 DEF UniqueOwnership
<1>2. CASE c = d
  <2>1. ~fresh'[c]
    BY <1>2
  <2>2. \A o \in Checkouts : cconn'[o] = c => o \in R
    BY <1>2
  <2>3. \A l \in Keys : \A i \in DOMAIN idle'[l] :
           idle'[l][i].conn = c => l = k /\ i = Len(idle'[k])
    BY <1>2 DEF PutsAt, IsIdle
  <2>4. IsIdle(c)' => R = {}
    BY <1>2 DEF IsIdle
  <2>5. QED
    BY <2>1, <2>2, <2>3, <2>4
<1>3. QED
  BY <1>1, <1>2

\* Every step of the pool keeps HTTP/1 connections in one place.
LEMMA OwnershipStep ==
    TypeInv /\ UniqueOwnership /\ [PoolNext]_poolVars => UniqueOwnership'
<1> SUFFICES ASSUME TypeInv, UniqueOwnership, [PoolNext]_poolVars PROVE UniqueOwnership'
  OBVIOUS
<1>0. TypeInv'
  BY TypeStep
<1> USE DEF innerVars, connVars, outVars
<1>1. CASE UNCHANGED <<idle, cconn, fresh, h2>>
  BY <1>0, <1>1, Forget
<1>2. ASSUME NEW o \in Checkouts, WaiterGetsClosed(o) \/ CheckoutDrop(o) PROVE UniqueOwnership'
  <2>1. cconn' = [cconn EXCEPT ![o] = NoConn] /\ UNCHANGED <<idle, fresh, h2>>
    BY <1>2 DEF WaiterGetsClosed, CheckoutDrop
  <2>2. QED
    BY <1>0, <2>1, Forget DEF TypeInv, TypeOK
<1>3. ASSUME NEW o \in Checkouts, NEW k \in Keys, CheckoutIdle(o, k) PROVE UniqueOwnership'
  <2>1. PICK i \in DOMAIN idle[k], c \in Conns : Takes(o, k, i, c)
    BY <1>3, CheckoutIdleFacts DEF TypeInv, TypeOK, IdleType
  <2>2. cconn[o] = NoConn /\ cconn' = [cconn EXCEPT ![o] = c] /\ UNCHANGED <<fresh, h2>>
    BY <1>3, <2>1 DEF CheckoutIdle, Takes, TypeInv, WellFormed
  <2>3. IsIdle(c) /\ idle[k][i].conn = c
    BY <2>1 DEF IsIdle, Takes
  <2>4. \A l \in Keys : \A p \in DOMAIN idle'[l] :
           \/ p \in DOMAIN idle[l] /\ idle'[l][p] = idle[l][p] /\ (l = k => p < i)
           \/ l = k /\ h2[c] /\ idle'[l][p].conn = c
    BY <2>1 DEF Takes
  <2> SUFFICES ASSUME NEW d \in Conns, ~h2'[d]
               PROVE  (/\ \A w, v \in Checkouts : cconn[w] = d /\ cconn[v] = d => w = v
                       /\ IsIdle(d) => \A w \in Checkouts : cconn[w] # d
                       /\ fresh[d] => ~IsIdle(d) /\ \A w \in Checkouts : cconn[w] # d
                       /\ \A l, m \in Keys : \A p \in DOMAIN idle[l], q \in DOMAIN idle[m] :
                             idle[l][p].conn = d /\ idle[m][q].conn = d => l = m /\ p = q)'
    BY DEF UniqueOwnership
  <2>5. \A l \in Keys : \A p \in DOMAIN idle'[l] : idle'[l][p].conn = d =>
           p \in DOMAIN idle[l] /\ idle[l][p].conn = d /\ (l = k => p < i)
    BY <2>2, <2>4
  <2>6. IsIdle(d)' => IsIdle(d)
    BY <2>5 DEF IsIdle
  <2>7. CASE d # c
    <3>1. \A w \in Checkouts : cconn'[w] = d => cconn[w] = d
      BY <2>2, <2>7 DEF TypeInv, TypeOK
    <3>2. QED
      BY <2>2, <2>5, <2>6, <3>1 DEF UniqueOwnership
  <2>8. CASE d = c
    <3>1. ~fresh[d] /\ \A w \in Checkouts : cconn[w] # d
      BY <2>2, <2>3, <2>8 DEF UniqueOwnership
    <3>2. \A w \in Checkouts : cconn'[w] = d => w = o
      BY <2>2, <3>1 DEF TypeInv, TypeOK
    <3>3. ~IsIdle(d)'
      <4>1. SUFFICES ASSUME NEW l \in Keys, NEW p \in DOMAIN idle'[l], idle'[l][p].conn = d
                     PROVE  FALSE
        BY DEF IsIdle
      <4>2. p \in DOMAIN idle[l] /\ idle[l][p].conn = d /\ (l = k => p < i)
        BY <2>5, <4>1
      <4>3. l = k /\ p = i
        BY <2>2, <2>3, <2>8, <4>2 DEF UniqueOwnership
      <4>4. i \in Nat
        BY DEF TypeInv, TypeOK
      <4>5. QED
        BY <4>2, <4>3, <4>4
    <3>4. QED
      BY <2>2, <3>1, <3>2, <3>3 DEF IsIdle
  <2>9. QED
    BY <2>7, <2>8
<1>4. ASSUME NEW o \in Checkouts, NEW k \in Keys, CheckoutWait(o, k) PROVE UniqueOwnership'
  <2>1. ASSUME NEW j \in Keys
        PROVE  \E f \in [DOMAIN idle'[j] -> DOMAIN idle[j]] :
                  /\ \A i \in DOMAIN idle'[j] : idle'[j][i].conn = idle[j][f[i]].conn
                  /\ \A x, y \in DOMAIN idle'[j] : f[x] = f[y] => x = y
    <3> DEFINE f == [i \in DOMAIN idle'[j] |-> i]
    <3>1. idle'[j] = idle[j] \/ DOMAIN idle'[j] = {}
      BY <1>4 DEF CheckoutWait, TypeInv, TypeOK
    <3>2. f \in [DOMAIN idle'[j] -> DOMAIN idle[j]]
      BY <3>1
    <3>3. QED
      BY <3>1, <3>2
  <2>2. UNCHANGED <<cconn, fresh, h2>>
    BY <1>4 DEF CheckoutWait
  <2>3. QED
    BY <1>0, <2>1, <2>2, Shrink
<1>5. ASSUME Tick \/ DropPool PROVE UniqueOwnership'
  <2>1. ASSUME NEW j \in Keys
        PROVE  \E f \in [DOMAIN idle'[j] -> DOMAIN idle[j]] :
                  /\ \A i \in DOMAIN idle'[j] : idle'[j][i].conn = idle[j][f[i]].conn
                  /\ \A x, y \in DOMAIN idle'[j] : f[x] = f[y] => x = y
    <3> DEFINE f == [i \in DOMAIN idle'[j] |-> i]
    <3>1. CASE Tick
      <4>1. idle'[j] = [i \in DOMAIN idle[j] |-> Older(idle[j][i])]
        BY <3>1 DEF Tick
      <4>2. \A i \in DOMAIN idle[j] : idle'[j][i].conn = idle[j][i].conn
        BY <4>1, OlderFacts DEF TypeInv, TypeOK
      <4>3. f \in [DOMAIN idle'[j] -> DOMAIN idle[j]]
        BY <4>1
      <4>4. QED
        BY <4>1, <4>2, <4>3
    <3>2. CASE DropPool
      <4>1. DOMAIN idle'[j] = {}
        BY <3>2 DEF DropPool
      <4>2. f \in [DOMAIN idle'[j] -> DOMAIN idle[j]]
        BY <4>1
      <4>3. QED
        BY <4>1, <4>2
    <3>3. QED
      BY <1>5, <3>1, <3>2
  <2>2. UNCHANGED <<cconn, fresh, h2>>
    BY <1>5 DEF Tick, DropPool
  <2>3. QED
    BY <1>0, <2>1, <2>2, Shrink
<1>6. ASSUME ClearExpired PROVE UniqueOwnership'
  <2>1. ASSUME NEW k \in Keys
        PROVE  \E f \in [DOMAIN idle'[k] -> DOMAIN idle[k]] :
                  /\ \A i \in DOMAIN idle'[k] : idle'[k][i].conn = idle[k][f[i]].conn
                  /\ \A x, y \in DOMAIN idle'[k] : f[x] = f[y] => x = y
    <3> DEFINE S == {e \in IdleEntries : IsOpen(e.conn) /\ ~Expires(e)}
    <3>1. idle'[k] = Retain(idle[k], S) /\ idle[k] \in Seq(IdleEntries) /\ idle'[k] \in Seq(IdleEntries)
      BY <1>0, <1>6 DEF ClearExpired, Retained, TypeInv, TypeOK
    <3> HIDE DEF S
    <3>a. PICK f \in [DOMAIN idle'[k] -> DOMAIN idle[k]] : Selects(f, idle'[k], idle[k], S)
      BY <3>1, RetainFacts
    <3>2. /\ \A i \in DOMAIN idle'[k] : idle'[k][i] = idle[k][f[i]]
          /\ \A x, y \in DOMAIN idle'[k] : x < y => f[x] < f[y]
      BY <3>a DEF Selects
    <3>3. ASSUME NEW x \in DOMAIN idle'[k], NEW y \in DOMAIN idle'[k], f[x] = f[y] PROVE x = y
      <4>1. x \in Nat /\ y \in Nat /\ f[x] \in Nat
        BY <3>1, <3>2
      <4>2. QED
        BY <3>2, <3>3, <4>1
    <3>4. QED
      BY <3>2, <3>3
  <2>2. UNCHANGED <<cconn, fresh, h2>>
    BY <1>6 DEF ClearExpired
  <2>3. QED
    BY <1>0, <2>1, <2>2, Shrink
<1>7. ASSUME NEW c \in Conns, Vanish(c) PROVE UniqueOwnership'
  <2>1. h2' = [h2 EXCEPT ![c] = FALSE] /\ UNCHANGED <<idle, cconn, fresh>>
    BY <1>7 DEF Vanish
  <2>2. ~fresh[c] /\ ~IsIdle(c) /\ \A o \in Checkouts : cconn[o] # c
    BY <1>7, PoolAssumption DEF Vanish, Referenced, InChannel, IsHeld, TypeInv, WellFormed
  <2>3. \A d \in Conns : IsIdle(d)' <=> IsIdle(d)
    BY <2>1 DEF IsIdle
  <2>4. \A d \in Conns : d # c /\ ~h2'[d] => ~h2[d]
    BY <2>1 DEF TypeInv, TypeOK
  <2>5. \A k \in Keys : \A i \in DOMAIN idle[k] : idle[k][i].conn # c
    BY <2>2 DEF IsIdle
  <2>6. QED
    BY <2>1, <2>2, <2>3, <2>4, <2>5 DEF UniqueOwnership
<1>8. ASSUME NEW c \in Conns, PooledUnique(c) PROVE UniqueOwnership'
  <2>1. fresh' = [fresh EXCEPT ![c] = TRUE] /\ UNCHANGED <<idle, cconn, h2>>
    BY <1>8 DEF PooledUnique
  <2>2. ~IsIdle(c) /\ \A o \in Checkouts : cconn[o] # c
    BY <1>8, PoolAssumption DEF PooledUnique, IsIdle, TypeInv, WellFormed, Established
  <2>3. \A d \in Conns : IsIdle(d)' <=> IsIdle(d)
    BY <2>1 DEF IsIdle
  <2>4. \A d \in Conns : d # c /\ fresh'[d] => fresh[d]
    BY <2>1 DEF TypeInv, TypeOK
  <2>5. QED
    BY <2>1, <2>2, <2>3, <2>4 DEF UniqueOwnership
<1>9. ASSUME NEW c \in Conns, PooledShared(c) PROVE UniqueOwnership'
  <2> DEFINE k == ckey[c]
             R == PutReceivers(k, TRUE)
  <2>1. k \in Keys /\ IdleType /\ PutIdle(k, c, TRUE)
    BY <1>9 DEF PooledShared, IdleType, TypeInv, TypeOK, WellFormed
  <2>2. PutsAt(k, c)
    <3> HIDE DEF k
    <3> QED
      BY <2>1, PutIdleFacts
  <2>3. /\ h2' = [h2 EXCEPT ![c] = TRUE] /\ fresh' = [fresh EXCEPT ![c] = TRUE]
        /\ cconn' = [o \in Checkouts |-> IF o \in R THEN c ELSE cconn[o]]
    BY <1>9 DEF PooledShared
  <2> HIDE DEF k, R
  <2>4. \A d \in Conns : ~h2'[d] => d # c /\ ~h2[d] /\ (fresh'[d] => fresh[d])
    BY <2>3 DEF TypeInv, TypeOK
  <2>5. \A d \in Conns : \A o \in Checkouts : d # c /\ cconn'[o] = d => cconn[o] = d
    BY <2>3
  <2>6. \A d \in Conns : \A l \in Keys : \A i \in DOMAIN idle'[l] :
           d # c /\ idle'[l][i].conn = d => i \in DOMAIN idle[l] /\ idle[l][i].conn = d
    BY <2>2 DEF PutsAt
  <2>7. \A d \in Conns : d # c /\ IsIdle(d)' => IsIdle(d)
    BY <2>6 DEF IsIdle
  <2>8. QED
    BY <2>4, <2>5, <2>6, <2>7 DEF UniqueOwnership
<1>10. ASSUME NEW c \in Conns, PooledDrop(c) PROVE UniqueOwnership'
  <2> DEFINE k == ckey[c]
             R == PutReceivers(k, FALSE)
  <2>1. fresh[c] /\ fresh' = [fresh EXCEPT ![c] = FALSE] /\ h2' = h2
    BY <1>10 DEF PooledDrop
  <2>2. \A d \in Conns : fresh'[d] => fresh[d] /\ d # c
    BY <2>1 DEF TypeInv, TypeOK
  <2>3. CASE ~Reinserted(c)
    <3>1. idle' = idle /\ \A o \in Checkouts : cconn'[o] = cconn[o]
      BY <1>10, <2>3 DEF PooledDrop
    <3>2. QED
      BY <1>0, <2>1, <2>2, <3>1, Forget
  <2>4. CASE Reinserted(c)
    <3>1. k \in Keys /\ IdleType /\ waiters \in [Keys -> Seq(Checkouts)]
      BY <2>1 DEF IdleType, TypeInv, TypeOK, WellFormed, Established
    <3>2. PutIdle(k, c, FALSE) /\ cconn' = [o \in Checkouts |-> IF o \in R THEN c ELSE cconn[o]]
      BY <1>10, <2>4 DEF PooledDrop
    <3>3. ~h2[c] /\ ~IsIdle(c) /\ \A o \in Checkouts : cconn[o] # c
      BY <2>1, <2>4 DEF Reinserted, UniqueOwnership
    <3> HIDE DEF k
    <3>4. /\ \A o \in R : o \in Checkouts /\ cstate[o] = "waiting"
          /\ \A o, p \in R : o = p
          /\ Live(k) = {} => R = {}
      BY <3>1, ReceiverFacts
    <3>5. PutsAt(k, c) /\ (Live(k) # {} => idle' = idle)
      BY <3>1, <3>2, PutIdleFacts
    <3> HIDE DEF R
    <3>6. R \in SUBSET Checkouts /\ \A o \in R : cconn[o] = NoConn
      BY <3>4 DEF TypeInv, WellFormed
    <3>7. /\ \A o \in Checkouts : o \in R => cconn'[o] = c
          /\ \A o \in Checkouts : o \notin R => cconn'[o] = cconn[o] /\ cconn'[o] # c
      BY <3>2, <3>3
    <3>8. R # {} => idle' = idle
      BY <3>4, <3>5
    <3>9. QED
      BY <1>0, <2>1, <2>2, <3>1, <3>3, <3>4, <3>5, <3>6, <3>7, <3>8, Reinsert
  <2>5. QED
    BY <2>3, <2>4
<1>11. ASSUME NEW o \in Checkouts, PooledDropReused(o) PROVE UniqueOwnership'
  <2> DEFINE c == cconn[o]
             k == okey[o]
             R == PutReceivers(k, FALSE)
  <2>1. cstate[o] = "held" /\ c \in Conns /\ k \in Keys /\ UNCHANGED <<fresh, h2>>
    BY <1>11 DEF PooledDropReused, TypeInv, TypeOK, WellFormed
  <2>2. CASE ~Reinserted(c)
    <3>1. idle' = idle /\ \A w \in Checkouts : cconn'[w] = cconn[w] \/ cconn'[w] = NoConn
      BY <1>11, <2>2 DEF PooledDropReused
    <3>2. QED
      BY <1>0, <2>1, <3>1, Forget
  <2>3. CASE Reinserted(c)
    <3>1. IdleType /\ waiters \in [Keys -> Seq(Checkouts)]
      BY DEF IdleType, TypeInv, TypeOK
    <3>2. /\ PutIdle(k, c, FALSE)
          /\ cconn' = [w \in Checkouts |->
                          CASE w \in R -> c
                            [] w \notin R /\ w = o -> NoConn
                            [] OTHER -> cconn[w]]
      BY <1>11, <2>3 DEF PooledDropReused
    <3>3. ~h2[c] /\ ~IsIdle(c) /\ ~fresh[c] /\ \A w \in Checkouts : w # o => cconn[w] # c
      BY <2>1, <2>3 DEF Reinserted, UniqueOwnership
    <3> HIDE DEF k, c
    <3>4. /\ \A w \in R : w \in Checkouts /\ cstate[w] = "waiting"
          /\ \A w, v \in R : w = v
          /\ Live(k) = {} => R = {}
      BY <2>1, <3>1, ReceiverFacts
    <3>5. PutsAt(k, c) /\ (Live(k) # {} => idle' = idle)
      BY <2>1, <3>1, <3>2, PutIdleFacts
    <3> HIDE DEF R
    <3>6. R \in SUBSET Checkouts /\ \A w \in R : cconn[w] = NoConn
      BY <3>4 DEF TypeInv, WellFormed
    <3>7. /\ \A w \in Checkouts : w \in R => cconn'[w] = c
          /\ \A w \in Checkouts : w \notin R =>
                cconn'[w] # c /\ (cconn'[w] = cconn[w] \/ cconn'[w] = NoConn)
      BY <2>1, <3>2, <3>3, PoolAssumption
    <3>8. R # {} => idle' = idle
      BY <3>4, <3>5
    <3>9. \A d \in Conns : fresh'[d] => fresh[d] /\ d # c
      BY <2>1, <3>3
    <3>10. QED
      BY <1>0, <2>1, <3>3, <3>4, <3>5, <3>6, <3>7, <3>8, <3>9, Reinsert
  <2>4. QED
    BY <2>2, <2>3
<1>12. QED
  <2>1. ASSUME NEW o \in Checkouts, WaiterServed(o) \/ WaiterCanceled(o) \/ CleanWaiters(o)
        PROVE  UNCHANGED <<idle, cconn, fresh, h2>>
    BY <2>1 DEF WaiterServed, WaiterCanceled, CleanWaiters
  <2>2. ASSUME NEW c \in Conns,
               \/ \E k \in Keys : Connecting(c, k) \/ ConnectingH2(c, k)
               \/ AlpnH2(c) \/ ConnectingDrop(c) \/ ConnectingDropLocked(c)
        PROVE  UNCHANGED <<idle, cconn, fresh, h2>>
    BY <2>2 DEF Connecting, ConnectingH2, AlpnH2, ConnectingDrop, ConnectingDropLocked
  <2>3. ASSUME NEW c \in Conns, StartExchange(c) \/ EndExchange(c) \/ Close(c) \/ Poison(c)
        PROVE  UNCHANGED <<idle, cconn, fresh, h2>>
    BY <2>3 DEF StartExchange, EndExchange, Close, Poison
  <2>4. ASSUME IdleTaskEnds \/ UNCHANGED poolVars PROVE UNCHANGED <<idle, cconn, fresh, h2>>
    BY <2>4 DEF IdleTaskEnds, poolVars
  <2>5. QED
    BY <1>1, <1>2, <1>3, <1>4, <1>5, <1>6, <1>7, <1>8, <1>9, <1>10, <1>11, <2>1, <2>2, <2>3, <2>4
       DEF PoolNext, CheckoutNext, ConnNext

\* No HTTP/1 connection is ever owned twice, for any number of requests, hosts
\* and connections: two requests cannot write on one socket.
THEOREM OwnershipSafety == PoolSpec => []UniqueOwnership
<1>1. Init => UniqueOwnership
  BY PoolAssumption DEF Init, UniqueOwnership, IsIdle
<1>2. QED
  BY <1>1, OwnershipStep, TypeInvariant, PTL DEF PoolSpec
-----------------------------------------------------------------------------
(***************************************************************************)
(* The waiters of the pool and its idle lists: no parked checkout is lost, *)
(* connections stay under their own key, nothing is idle where somebody    *)
(* waits, and what the expiry of idle connections rests on.                *)
(***************************************************************************)

\* The queue of a key holds every checkout parked on it, once, and besides them
\* only checkouts that are being dropped and have not cleaned up yet.
QueueInv ==
    /\ \A k \in Keys : \A i \in DOMAIN waiters[k] :
          cstate[waiters[k][i]] \in {"waiting", "dropping"} /\ okey[waiters[k][i]] = k
    /\ \A k \in Keys : \A i, j \in DOMAIN waiters[k] : waiters[k][i] = waiters[k][j] => i = j
    /\ \A o \in Checkouts : cstate[o] = "waiting" =>
          \E i \in DOMAIN waiters[okey[o]] : waiters[okey[o]][i] = o
-----------------------------------------------------------------------------
\* The queue that a put of a unique connection leaves is the part behind the
\* receiver: nobody else who is alive is popped.
LEMMA PutQueueFacts ==
    ASSUME TypeInv, QueueInv, NEW k \in Keys
    PROVE  LET R == PutReceivers(k, FALSE)
               Q == PutQueue(k, FALSE)
           IN  /\ \A i \in DOMAIN Q : \E j \in DOMAIN waiters[k] :
                     Q[i] = waiters[k][j] /\ Q[i] \notin R
               /\ \A i, j \in DOMAIN Q : Q[i] = Q[j] => i = j
               /\ \A i \in Live(k) : waiters[k][i] \in R \/ \E j \in DOMAIN Q : Q[j] = waiters[k][i]
<1> DEFINE q == waiters[k]
           R == PutReceivers(k, FALSE)
           Q == PutQueue(k, FALSE)
           n == First(Live(k))
<1>1. q \in Seq(Checkouts) /\ Len(q) \in Nat /\ DOMAIN q = 1..Len(q)
  BY LenProperties DEF TypeInv, TypeOK
<1>2. \A i, j \in DOMAIN q : q[i] = q[j] => i = j
  BY DEF QueueInv
<1>3. CASE Live(k) = {}
  <2>1. Q = <<>> /\ DOMAIN <<>> = {}
    BY <1>3 DEF PutQueue
  <2>2. QED
    BY <1>3, <2>1
<1>4. CASE Live(k) # {}
  <2>1. Live(k) \in SUBSET (1..Len(q))
    BY <1>1 DEF Live
  <2>2. n \in Live(k) /\ n \in 1..Len(q) /\ \A j \in Live(k) : n <= j
    BY <1>1, <1>4, <2>1, FirstLast
  <2>3. R = {q[n]}
    BY <2>2 DEF PutReceivers, PutRejected
  <2>4. Q = SubSeq(q, n + 1, Len(q))
    BY <1>4 DEF PutQueue
  <2> HIDE DEF n, R, Q, q
  <2>5. \A i \in (n + 1)..Len(q) : q[i] \in Checkouts
    BY <1>1, <2>2
  <2>6. /\ Q \in Seq(Checkouts) /\ Len(Q) = Len(q) - n
        /\ \A i \in 1..(Len(q) - n) : Q[i] = q[n + i]
    BY <1>1, <2>2, <2>4, <2>5, SubSeqProperties
  <2>7. DOMAIN Q = 1..(Len(q) - n)
    BY <2>6, LenProperties
  <2>8. \A i \in DOMAIN Q : Q[i] = q[n + i] /\ n + i \in DOMAIN q /\ n + i # n
    BY <1>1, <2>2, <2>6, <2>7
  <2>9. \A i \in DOMAIN Q : \E j \in DOMAIN q : Q[i] = q[j] /\ Q[i] \notin R
    BY <1>1, <1>2, <2>2, <2>3, <2>8
  <2>10. ASSUME NEW i \in DOMAIN Q, NEW j \in DOMAIN Q, Q[i] = Q[j] PROVE i = j
    <3>1. n + i = n + j
      BY <1>2, <2>8, <2>10
    <3>2. QED
      BY <1>1, <2>2, <2>7, <3>1
  <2>11. ASSUME NEW i \in Live(k) PROVE q[i] \in R \/ \E j \in DOMAIN Q : Q[j] = q[i]
    <3>1. CASE i = n
      BY <2>3, <3>1
    <3>2. CASE i # n
      <4>1. i - n \in DOMAIN Q /\ n + (i - n) = i
        BY <1>1, <2>1, <2>2, <2>7, <3>2
      <4>2. QED
        BY <2>8, <4>1
    <3>3. QED
      BY <3>1, <3>2
  <2>12. QED
    BY <2>9, <2>10, <2>11 DEF q, R, Q
<1>5. QED
  BY <1>3, <1>4

\* A step that moves no sender keeps the queues right if it disturbs nobody in
\* them and parks nobody.
LEMMA QueueFrame ==
    ASSUME TypeInv, TypeInv', QueueInv, waiters' = waiters,
           \A o \in Checkouts : cstate[o] \in {"waiting", "dropping"} =>
              cstate'[o] \in {"waiting", "dropping"} /\ okey'[o] = okey[o],
           \A o \in Checkouts : cstate'[o] = "waiting" => cstate[o] = "waiting"
    PROVE  QueueInv'
<1>1. \A k \in Keys : \A i \in DOMAIN waiters[k] : waiters[k][i] \in Checkouts
  BY DEF TypeInv, TypeOK
<1>2. QED
  BY <1>1 DEF QueueInv

\* A put of a unique connection under key k keeps the queues right.  X is the
\* checkout whose Pooled was dropped, if there is one.
LEMMA QueuePut ==
    ASSUME TypeInv, TypeInv', QueueInv, NEW k \in Keys, NEW X \in SUBSET Checkouts,
           \A o \in X : cstate[o] \notin {"waiting", "dropping"} /\ cstate'[o] # "waiting",
           waiters' = [waiters EXCEPT ![k] = PutQueue(k, FALSE)],
           \A o \in Checkouts : o \in PutReceivers(k, FALSE) => cstate'[o] = "sent",
           \A o \in Checkouts : o \notin PutReceivers(k, FALSE) /\ o \notin X =>
              cstate'[o] = cstate[o] /\ okey'[o] = okey[o]
    PROVE  QueueInv'
<1> DEFINE R == PutReceivers(k, FALSE)
           Q == PutQueue(k, FALSE)
<1>1. /\ \A i \in DOMAIN Q : \E j \in DOMAIN waiters[k] : Q[i] = waiters[k][j] /\ Q[i] \notin R
      /\ \A i, j \in DOMAIN Q : Q[i] = Q[j] => i = j
      /\ \A i \in Live(k) : waiters[k][i] \in R \/ \E j \in DOMAIN Q : Q[j] = waiters[k][i]
  BY PutQueueFacts
<1>2. \A o \in R : \E i \in Live(k) : o = waiters[k][i]
  BY ReceiverFacts DEF TypeInv, TypeOK
<1>3. waiters'[k] = Q /\ \A j \in Keys : j # k => waiters'[j] = waiters[j]
  BY DEF TypeInv, TypeOK
<1>4. \A j \in Keys : \A i \in DOMAIN waiters[j] : waiters[j][i] \in Checkouts
  BY DEF TypeInv, TypeOK
<1> HIDE DEF R, Q
<1>5. \A o \in R : o \in Checkouts /\ okey[o] = k
  BY <1>2, <1>4 DEF QueueInv, Live
<1>6. ASSUME NEW j \in Keys, NEW i \in DOMAIN waiters'[j]
      PROVE  cstate'[waiters'[j][i]] \in {"waiting", "dropping"} /\ okey'[waiters'[j][i]] = j
  <2>1. PICK l \in DOMAIN waiters[j] : waiters'[j][i] = waiters[j][l] /\ waiters[j][l] \notin R
    <3>1. CASE j = k
      <4>1. waiters'[j] = Q
        BY <1>3, <3>1
      <4>2. i \in DOMAIN Q /\ waiters'[j][i] = Q[i]
        BY <4>1, <1>6
      <4>3. PICK l \in DOMAIN waiters[k] : Q[i] = waiters[k][l] /\ Q[i] \notin R
        BY <1>1, <4>2
      <4>4. QED
        BY <3>1, <4>2, <4>3
    <3>2. CASE j # k
      <4>1. waiters'[j] = waiters[j] /\ i \in DOMAIN waiters[j]
        BY <1>3, <1>6, <3>2
      <4>2. okey[waiters[j][i]] = j
        BY <4>1 DEF QueueInv
      <4>3. waiters[j][i] \notin R
        BY <1>5, <3>2, <4>2
      <4>4. QED
        BY <4>1, <4>3
    <3>3. QED
      BY <3>1, <3>2
  <2>2. waiters[j][l] \notin X
    BY <1>4 DEF QueueInv
  <2>3. waiters[j][l] \in Checkouts
    BY <1>4
  <2>4. cstate'[waiters[j][l]] = cstate[waiters[j][l]] /\ okey'[waiters[j][l]] = okey[waiters[j][l]]
    BY <2>1, <2>2, <2>3 DEF R
  <2>5. cstate[waiters[j][l]] \in {"waiting", "dropping"} /\ okey[waiters[j][l]] = j
    BY DEF QueueInv
  <2>6. QED
    BY <2>1, <2>4, <2>5
<1>7. ASSUME NEW j \in Keys, NEW i \in DOMAIN waiters'[j], NEW l \in DOMAIN waiters'[j],
             waiters'[j][i] = waiters'[j][l]
      PROVE  i = l
  <2>1. CASE j # k
    <3>1. waiters'[j] = waiters[j]
      BY <1>3, <2>1
    <3>2. \A m, n \in DOMAIN waiters[j] : waiters[j][m] = waiters[j][n] => m = n
      BY DEF QueueInv
    <3>3. QED
      BY <1>7, <3>1, <3>2
  <2>2. CASE j = k
    <3>1. waiters'[j] = Q
      BY <1>3, <2>2
    <3>2. QED
      BY <1>1, <1>7, <3>1
  <2>3. QED
    BY <2>1, <2>2
<1>8. ASSUME NEW o \in Checkouts, cstate'[o] = "waiting"
      PROVE  \E i \in DOMAIN waiters'[okey'[o]] : waiters'[okey'[o]][i] = o
  <2>1. o \notin R /\ cstate[o] = "waiting" /\ okey'[o] = okey[o] /\ okey[o] \in Keys
    BY <1>8 DEF R, TypeInv, WellFormed
  <2>2. PICK i \in DOMAIN waiters[okey[o]] : waiters[okey[o]][i] = o
    BY <2>1 DEF QueueInv
  <2>3. CASE okey[o] = k
    <3>1. i \in Live(k)
      BY <2>1, <2>2, <2>3 DEF Live
    <3>2. PICK j \in DOMAIN Q : Q[j] = o
      BY <1>1, <2>1, <2>2, <2>3, <3>1
    <3>3. waiters'[okey'[o]] = Q
      BY <1>3, <2>1, <2>3
    <3>4. QED
      BY <3>2, <3>3
  <2>4. CASE okey[o] # k
    BY <1>3, <2>1, <2>2, <2>4
  <2>5. QED
    BY <2>3, <2>4
<1>9. QED
  BY <1>6, <1>7, <1>8 DEF QueueInv

\* The end of an HTTP/2 attempt for key k empties its queue and leaves nobody
\* parked on it.
LEMMA QueueEmptied ==
    ASSUME TypeInv, TypeInv', QueueInv, NEW k \in Keys,
           waiters' = [waiters EXCEPT ![k] = <<>>], okey' = okey,
           \A o \in Checkouts : o \in Dropped(k) => cstate'[o] \in {"sent", "canceled"},
           \A o \in Checkouts : o \notin Dropped(k) => cstate'[o] = cstate[o]
    PROVE  QueueInv'
<1>1. \A j \in Keys : \A i \in DOMAIN waiters[j] : waiters[j][i] \in Checkouts
  BY DEF TypeInv, TypeOK
<1>2. \A o \in Dropped(k) : okey[o] = k
  BY DEF Dropped, Live, QueueInv
<1>3. \A j \in Keys : j # k => waiters'[j] = waiters[j]
  BY DEF TypeInv, TypeOK
<1>4. DOMAIN waiters'[k] = {}
  BY DEF TypeInv, TypeOK
<1>5. ASSUME NEW j \in Keys, NEW i \in DOMAIN waiters'[j]
      PROVE  cstate'[waiters'[j][i]] \in {"waiting", "dropping"} /\ okey'[waiters'[j][i]] = j
  <2>1. j # k /\ waiters'[j] = waiters[j]
    BY <1>3, <1>4, <1>5
  <2>2. i \in DOMAIN waiters[j] /\ waiters[j][i] \in Checkouts
    BY <1>1, <1>5, <2>1
  <2>3. okey[waiters[j][i]] = j /\ cstate[waiters[j][i]] \in {"waiting", "dropping"}
    BY <2>2 DEF QueueInv
  <2>4. waiters[j][i] \notin Dropped(k)
    BY <1>2, <2>1, <2>3
  <2>5. QED
    BY <2>1, <2>2, <2>3, <2>4
<1>6. \A j \in Keys : \A i, l \in DOMAIN waiters'[j] : waiters'[j][i] = waiters'[j][l] => i = l
  BY <1>3, <1>4 DEF QueueInv
<1>7. ASSUME NEW o \in Checkouts, cstate'[o] = "waiting"
      PROVE  \E i \in DOMAIN waiters'[okey'[o]] : waiters'[okey'[o]][i] = o
  <2>1. o \notin Dropped(k) /\ cstate[o] = "waiting"
    BY <1>7
  <2>2. okey[o] \in Keys
    BY <2>1 DEF TypeInv, WellFormed
  <2>3. PICK i \in DOMAIN waiters[okey[o]] : waiters[okey[o]][i] = o
    BY <2>1 DEF QueueInv
  <2>4. okey[o] # k
    BY <2>1, <2>3 DEF Dropped, Live
  <2>5. waiters'[okey'[o]] = waiters[okey[o]]
    BY <1>3, <2>2, <2>4
  <2>6. QED
    BY <2>3, <2>5
<1>8. QED
  BY <1>5, <1>6, <1>7 DEF QueueInv

\* Every step of the pool keeps the queues right.
LEMMA QueueStep == TypeInv /\ QueueInv /\ [PoolNext]_poolVars => QueueInv'
<1> SUFFICES ASSUME TypeInv, QueueInv, [PoolNext]_poolVars PROVE QueueInv'
  OBVIOUS
<1>0. TypeInv'
  BY TypeStep
<1> USE DEF innerVars, connVars, outVars
<1>1. CASE UNCHANGED <<waiters, cstate, okey>>
  BY <1>0, <1>1, QueueFrame
<1>2. ASSUME NEW o \in Checkouts, waiters' = waiters,
             \A w \in Checkouts : w # o => cstate'[w] = cstate[w] /\ okey'[w] = okey[w],
             cstate[o] \in {"none", "sent", "canceled", "held"}, cstate'[o] # "waiting"
      PROVE  QueueInv'
  BY <1>0, <1>2, QueueFrame
<1>3. ASSUME NEW o \in Checkouts, NEW k \in Keys, CheckoutIdle(o, k) PROVE QueueInv'
  <2>1. /\ waiters' = waiters /\ cstate[o] = "none"
        /\ cstate' = [cstate EXCEPT ![o] = "held"] /\ okey' = [okey EXCEPT ![o] = k]
    BY <1>3 DEF CheckoutIdle
  <2>2. QED
    BY <1>2, <2>1 DEF TypeInv, TypeOK
<1>4. ASSUME NEW o \in Checkouts, NEW k \in Keys, CheckoutWait(o, k) PROVE QueueInv'
  <2>1. /\ waiters' = [waiters EXCEPT ![k] = Append(@, o)] /\ cstate[o] = "none"
        /\ cstate' = [cstate EXCEPT ![o] = "waiting"] /\ okey' = [okey EXCEPT ![o] = k]
    BY <1>4 DEF CheckoutWait
  <2>2. waiters[k] \in Seq(Checkouts) /\ Len(waiters[k]) \in Nat /\ DOMAIN waiters[k] = 1..Len(waiters[k])
    BY LenProperties DEF TypeInv, TypeOK
  <2>3. \A j \in Keys : \A i \in DOMAIN waiters[j] :
           /\ waiters[j][i] \in Checkouts /\ waiters[j][i] # o
           /\ cstate'[waiters[j][i]] \in {"waiting", "dropping"} /\ okey'[waiters[j][i]] = j
    BY <2>1 DEF QueueInv, TypeInv, TypeOK
  <2>4. waiters'[k] = Append(waiters[k], o) /\ \A j \in Keys : j # k => waiters'[j] = waiters[j]
    BY <2>1 DEF TypeInv, TypeOK
  <2>5. /\ DOMAIN waiters'[k] = 1..(Len(waiters[k]) + 1)
        /\ \A i \in 1..Len(waiters[k]) : waiters'[k][i] = waiters[k][i]
        /\ waiters'[k][Len(waiters[k]) + 1] = o
    BY <2>2, <2>4
  <2>6. okey'[o] = k /\ cstate'[o] = "waiting"
    BY <2>1 DEF TypeInv, TypeOK
  <2>7. \A j \in Keys : \A i \in DOMAIN waiters'[j] :
           cstate'[waiters'[j][i]] \in {"waiting", "dropping"} /\ okey'[waiters'[j][i]] = j
    <3>1. ASSUME NEW j \in Keys, NEW i \in DOMAIN waiters'[j], j # k
          PROVE  cstate'[waiters'[j][i]] \in {"waiting", "dropping"} /\ okey'[waiters'[j][i]] = j
      BY <2>3, <2>4, <3>1
    <3>2. ASSUME NEW i \in DOMAIN waiters'[k]
          PROVE  cstate'[waiters'[k][i]] \in {"waiting", "dropping"} /\ okey'[waiters'[k][i]] = k
      <4>1. CASE i = Len(waiters[k]) + 1
        BY <2>5, <2>6, <4>1
      <4>2. CASE i # Len(waiters[k]) + 1
        <5>1. i \in DOMAIN waiters[k] /\ waiters'[k][i] = waiters[k][i]
          BY <2>2, <2>5, <3>2, <4>2
        <5>2. QED
          BY <2>3, <5>1
      <4>3. QED
        BY <4>1, <4>2
    <3>3. QED
      BY <3>1, <3>2
  <2>8. \A j \in Keys : \A i, l \in DOMAIN waiters'[j] : waiters'[j][i] = waiters'[j][l] => i = l
    <3>1. ASSUME NEW j \in Keys, j # k, NEW i \in DOMAIN waiters'[j], NEW l \in DOMAIN waiters'[j],
                 waiters'[j][i] = waiters'[j][l]
          PROVE  i = l
      <4>1. waiters'[j] = waiters[j]
        BY <2>4, <3>1
      <4>2. QED
        BY <3>1, <4>1 DEF QueueInv
    <3>2. \A i, l \in 1..Len(waiters[k]) : waiters[k][i] = waiters[k][l] => i = l
      BY <2>2 DEF QueueInv
    <3>3. \A i, l \in DOMAIN waiters'[k] : waiters'[k][i] = waiters'[k][l] => i = l
      BY <2>2, <2>3, <2>5, <3>2
    <3>4. QED
      BY <3>1, <3>3
  <2>9. ASSUME NEW w \in Checkouts, cstate'[w] = "waiting"
        PROVE  \E i \in DOMAIN waiters'[okey'[w]] : waiters'[okey'[w]][i] = w
    <3>1. CASE w = o
      BY <2>2, <2>5, <2>6, <3>1
    <3>2. CASE w # o
      <4>1. cstate[w] = "waiting" /\ okey'[w] = okey[w] /\ okey[w] \in Keys
        BY <2>1, <2>9, <3>2 DEF TypeInv, TypeOK, WellFormed
      <4>2. PICK i \in DOMAIN waiters[okey[w]] : waiters[okey[w]][i] = w
        BY <4>1 DEF QueueInv
      <4>3. i \in DOMAIN waiters'[okey[w]] /\ waiters'[okey[w]][i] = w
        BY <2>2, <2>4, <2>5, <4>1, <4>2
      <4>4. QED
        BY <4>1, <4>3
    <3>3. QED
      BY <3>1, <3>2
  <2>10. QED
    BY <2>7, <2>8, <2>9 DEF QueueInv
<1>5. ASSUME NEW o \in Checkouts, WaiterServed(o) \/ WaiterGetsClosed(o) \/ WaiterCanceled(o)
      PROVE  QueueInv'
  <2>1. /\ waiters' = waiters /\ cstate[o] \in {"sent", "canceled"}
        /\ cstate' = [cstate EXCEPT ![o] = "held"] \/ cstate' = [cstate EXCEPT ![o] = "none"]
        /\ okey' = okey \/ okey' = [okey EXCEPT ![o] = NoKey]
    BY <1>5 DEF WaiterServed, WaiterGetsClosed, WaiterCanceled
  <2>2. /\ \A w \in Checkouts : w # o => cstate'[w] = cstate[w] /\ okey'[w] = okey[w]
        /\ cstate'[o] # "waiting"
    BY <2>1 DEF TypeInv, TypeOK
  <2>3. QED
    BY <1>2, <2>1, <2>2
<1>6. ASSUME NEW o \in Checkouts, CheckoutDrop(o) PROVE QueueInv'
  <2>1. waiters' = waiters /\ cstate' = [cstate EXCEPT ![o] = "dropping"] /\ okey' = okey
    BY <1>6 DEF CheckoutDrop
  <2>2. \A w \in Checkouts : cstate'[w] = cstate[w] \/ cstate'[w] = "dropping"
    BY <2>1 DEF TypeInv, TypeOK
  <2>3. QED
    BY <1>0, <2>1, <2>2, QueueFrame
<1>7. ASSUME NEW o \in Checkouts, CleanWaiters(o) PROVE QueueInv'
  <2> DEFINE k == okey[o]
             S == {w \in Checkouts : cstate[w] = "waiting"}
             Q == Retain(waiters[k], S)
  <2>1. /\ k \in Keys /\ cstate[o] = "dropping" /\ waiters' = [waiters EXCEPT ![k] = Q]
        /\ cstate' = [cstate EXCEPT ![o] = "none"] /\ okey' = [okey EXCEPT ![o] = NoKey]
    BY <1>7 DEF CleanWaiters, TypeInv, WellFormed
  <2>2. waiters[k] \in Seq(Checkouts)
    BY <2>1 DEF TypeInv, TypeOK
  <2> HIDE DEF k, S
  <2>3. Q \in Seq(Checkouts) /\ \A i \in DOMAIN Q : Q[i] \in S
    BY <2>2, RetainFacts
  <2>a. PICK f \in [DOMAIN Q -> DOMAIN waiters[k]] : Selects(f, Q, waiters[k], S)
    BY <2>2, RetainFacts
  <2>4. /\ \A i \in DOMAIN Q : Q[i] = waiters[k][f[i]]
        /\ \A i, j \in DOMAIN Q : i < j => f[i] < f[j]
        /\ \A x \in DOMAIN waiters[k] : waiters[k][x] \in S => \E i \in DOMAIN Q : f[i] = x
    BY <2>a DEF Selects
  <2> HIDE DEF Q
  <2>5. \A i, j \in DOMAIN Q : Q[i] = Q[j] => i = j
    <3>1. SUFFICES ASSUME NEW i \in DOMAIN Q, NEW j \in DOMAIN Q, Q[i] = Q[j] PROVE i = j
      OBVIOUS
    <3>2. f[i] = f[j]
      BY <2>1, <2>4, <3>1 DEF QueueInv
    <3>3. i \in Nat /\ j \in Nat /\ f[i] \in Nat
      BY <2>2, <2>3, <2>4
    <3>4. QED
      BY <2>4, <3>2, <3>3
  <2>6. waiters'[k] = Q /\ \A j \in Keys : j # k => waiters'[j] = waiters[j]
    BY <2>1 DEF TypeInv, TypeOK
  <2>7. \A w \in Checkouts : w # o => cstate'[w] = cstate[w] /\ okey'[w] = okey[w]
    BY <2>1 DEF TypeInv, TypeOK
  <2>8. cstate'[o] = "none"
    BY <2>1 DEF TypeInv, TypeOK
  <2>9. ASSUME NEW j \in Keys, NEW i \in DOMAIN waiters'[j]
        PROVE  cstate'[waiters'[j][i]] \in {"waiting", "dropping"} /\ okey'[waiters'[j][i]] = j
    <3>1. CASE j = k
      <4>1. i \in DOMAIN Q /\ waiters'[j][i] = Q[i]
        BY <2>6, <2>9, <3>1
      <4>2. Q[i] \in Checkouts /\ cstate[Q[i]] = "waiting"
        BY <2>3, <4>1 DEF S
      <4>3. okey[Q[i]] = k
        BY <2>1, <2>4, <4>1 DEF QueueInv
      <4>4. Q[i] # o
        BY <2>1, <4>2
      <4>5. cstate'[Q[i]] = "waiting" /\ okey'[Q[i]] = k
        BY <2>7, <4>2, <4>3, <4>4
      <4>6. QED
        BY <3>1, <4>1, <4>5
    <3>2. CASE j # k
      <4>1. waiters'[j] = waiters[j] /\ i \in DOMAIN waiters[j]
        BY <2>6, <2>9, <3>2
      <4>2. /\ waiters[j][i] \in Checkouts /\ okey[waiters[j][i]] = j
            /\ cstate[waiters[j][i]] \in {"waiting", "dropping"}
        BY <4>1 DEF QueueInv, TypeInv, TypeOK
      <4>3. waiters[j][i] # o
        BY <3>2, <4>2 DEF k
      <4>4. QED
        BY <2>7, <4>1, <4>2, <4>3
    <3>3. QED
      BY <3>1, <3>2
  <2>10. \A j \in Keys : \A i, l \in DOMAIN waiters'[j] : waiters'[j][i] = waiters'[j][l] => i = l
    <3>1. ASSUME NEW j \in Keys, j # k, NEW i \in DOMAIN waiters'[j], NEW l \in DOMAIN waiters'[j],
                 waiters'[j][i] = waiters'[j][l]
          PROVE  i = l
      <4>1. waiters'[j] = waiters[j]
        BY <2>6, <3>1
      <4>2. QED
        BY <3>1, <4>1 DEF QueueInv
    <3>2. QED
      BY <2>5, <2>6, <3>1
  <2>11. ASSUME NEW w \in Checkouts, cstate'[w] = "waiting"
         PROVE  \E i \in DOMAIN waiters'[okey'[w]] : waiters'[okey'[w]][i] = w
    <3>1. w # o /\ cstate[w] = "waiting" /\ okey'[w] = okey[w] /\ okey[w] \in Keys
      BY <2>7, <2>8, <2>11 DEF TypeInv, WellFormed
    <3>2. PICK x \in DOMAIN waiters[okey[w]] : waiters[okey[w]][x] = w
      BY <3>1 DEF QueueInv
    <3>3. CASE okey[w] = k
      <4>1. PICK i \in DOMAIN Q : f[i] = x
        BY <2>4, <3>1, <3>2, <3>3 DEF S
      <4>2. Q[i] = w
        BY <2>4, <3>2, <3>3, <4>1
      <4>3. waiters'[okey'[w]] = Q
        BY <2>6, <3>1, <3>3
      <4>4. QED
        BY <4>1, <4>2, <4>3
    <3>4. CASE okey[w] # k
      <4>1. waiters'[okey'[w]] = waiters[okey[w]]
        BY <2>6, <3>1, <3>4
      <4>2. QED
        BY <3>2, <4>1
    <3>5. QED
      BY <3>3, <3>4
  <2>12. QED
    BY <2>9, <2>10, <2>11 DEF QueueInv
<1>8. ASSUME NEW c \in Conns, ConnectingDropLocked(c) PROVE QueueInv'
  <2>1. ckey[c] \in Keys
    BY <1>8 DEF ConnectingDropLocked, TypeInv, WellFormed
  <2>2. /\ waiters' = [waiters EXCEPT ![ckey[c]] = <<>>] /\ okey' = okey
        /\ cstate' = [o \in Checkouts |-> IF o \in Dropped(ckey[c]) THEN "canceled" ELSE cstate[o]]
    BY <1>8 DEF ConnectingDropLocked
  <2>3. QED
    BY <1>0, <2>1, <2>2, QueueEmptied
<1>9. ASSUME NEW c \in Conns, PooledShared(c) PROVE QueueInv'
  <2> DEFINE k == ckey[c]
             R == PutReceivers(k, TRUE)
  <2>1. k \in Keys
    BY <1>9 DEF PooledShared, TypeInv, WellFormed
  <2>2. /\ waiters' = [waiters EXCEPT ![k] = <<>>] /\ okey' = okey
        /\ cstate' = [o \in Checkouts |->
                         CASE o \in R -> "sent"
                           [] o \notin R /\ o \in Dropped(k) -> "canceled"
                           [] OTHER -> cstate[o]]
    BY <1>9 DEF PooledShared
  <2> HIDE DEF k
  <2>3. R \subseteq Dropped(k)
    BY DEF PutReceivers, PutRejected, Dropped
  <2> HIDE DEF R
  <2>4. QED
    BY <1>0, <2>1, <2>2, <2>3, QueueEmptied
<1>10. ASSUME NEW c \in Conns, PooledDrop(c) PROVE QueueInv'
  <2>1. CASE ~Reinserted(c)
    <3>1. UNCHANGED <<waiters, okey>> /\ \A o \in Checkouts : cstate'[o] = cstate[o]
      BY <1>10, <2>1 DEF PooledDrop
    <3>2. QED
      BY <1>0, <3>1, QueueFrame
  <2>2. CASE Reinserted(c)
    <3> DEFINE k == ckey[c]
    <3>1. k \in Keys
      BY <1>10 DEF PooledDrop, TypeInv, TypeOK, WellFormed, Established
    <3>2. /\ waiters' = [waiters EXCEPT ![k] = PutQueue(k, FALSE)] /\ okey' = okey
          /\ cstate' = [o \in Checkouts |-> IF o \in PutReceivers(k, FALSE) THEN "sent" ELSE cstate[o]]
      BY <1>10, <2>2 DEF PooledDrop
    <3> HIDE DEF k
    <3>3. /\ {} \in SUBSET Checkouts
          /\ \A o \in {} : cstate[o] \notin {"waiting", "dropping"} /\ cstate'[o] # "waiting"
          /\ \A o \in Checkouts : o \in PutReceivers(k, FALSE) => cstate'[o] = "sent"
          /\ \A o \in Checkouts : o \notin PutReceivers(k, FALSE) /\ o \notin {} =>
                cstate'[o] = cstate[o] /\ okey'[o] = okey[o]
      BY <3>2
    <3>4. QED
      BY <1>0, <3>1, <3>2, <3>3, QueuePut
  <2>3. QED
    BY <2>1, <2>2
<1>11. ASSUME NEW o \in Checkouts, PooledDropReused(o) PROVE QueueInv'
  <2>1. cstate[o] = "held" /\ okey' = [okey EXCEPT ![o] = NoKey]
    BY <1>11 DEF PooledDropReused
  <2>2. CASE ~Reinserted(cconn[o])
    <3>1. /\ waiters' = waiters
          /\ \A w \in Checkouts : cstate'[w] = IF w = o THEN "none" ELSE cstate[w]
      BY <1>11, <2>2 DEF PooledDropReused
    <3>2. QED
      BY <1>2, <2>1, <3>1 DEF TypeInv, TypeOK
  <2>3. CASE Reinserted(cconn[o])
    <3> DEFINE k == okey[o]
               R == PutReceivers(k, FALSE)
    <3>1. k \in Keys
      BY <2>1 DEF TypeInv, WellFormed
    <3>2. /\ waiters' = [waiters EXCEPT ![k] = PutQueue(k, FALSE)]
          /\ cstate' = [w \in Checkouts |->
                           CASE w \in R -> "sent"
                             [] w \notin R /\ w = o -> "none"
                             [] OTHER -> cstate[w]]
      BY <1>11, <2>3 DEF PooledDropReused
    <3>3. \A w \in Checkouts : w # o => okey'[w] = okey[w]
      BY <2>1 DEF TypeInv, TypeOK
    <3> HIDE DEF k, R
    <3>4. /\ \A w \in Checkouts : w \in R => cstate'[w] = "sent"
          /\ \A w \in Checkouts : w \notin R /\ w \notin {o} => cstate'[w] = cstate[w] /\ okey'[w] = okey[w]
          /\ {o} \in SUBSET Checkouts
          /\ \A w \in {o} : cstate[w] \notin {"waiting", "dropping"} /\ cstate'[w] # "waiting"
      BY <2>1, <3>2, <3>3
    <3>5. QED
      BY <1>0, <2>1, <3>1, <3>2, <3>4, QueuePut DEF R
  <2>4. QED
    BY <2>2, <2>3
<1>12. ASSUME DropPool PROVE QueueInv'
  <2>1. /\ waiters' = [k \in Keys |-> <<>>] /\ cstate' = cstate
        /\ \A o \in Checkouts : cstate[o] # "waiting"
    BY <1>12 DEF DropPool
  <2>2. \A k \in Keys : DOMAIN waiters'[k] = {}
    BY <2>1
  <2>3. QED
    BY <2>1, <2>2 DEF QueueInv
<1>13. QED
  <2>1. ASSUME NEW c \in Conns,
               \/ \E k \in Keys : Connecting(c, k) \/ ConnectingH2(c, k)
               \/ AlpnH2(c) \/ ConnectingDrop(c) \/ PooledUnique(c)
        PROVE  UNCHANGED <<waiters, cstate, okey>>
    BY <2>1 DEF Connecting, ConnectingH2, AlpnH2, ConnectingDrop, PooledUnique
  <2>2. ASSUME NEW c \in Conns, StartExchange(c) \/ EndExchange(c) \/ Close(c) \/ Poison(c) \/ Vanish(c)
        PROVE  UNCHANGED <<waiters, cstate, okey>>
    BY <2>2 DEF StartExchange, EndExchange, Close, Poison, Vanish
  <2>3. ASSUME Tick \/ ClearExpired \/ IdleTaskEnds \/ UNCHANGED poolVars
        PROVE  UNCHANGED <<waiters, cstate, okey>>
    BY <2>3 DEF Tick, ClearExpired, IdleTaskEnds, poolVars
  <2>4. QED
    BY <1>1, <1>3, <1>4, <1>5, <1>6, <1>7, <1>8, <1>9, <1>10, <1>11, <1>12, <2>1, <2>2, <2>3
       DEF PoolNext, CheckoutNext, ConnNext

\* The queues are right in every reachable state.
THEOREM QueueInvariant == PoolSpec => []QueueInv
<1>1. Init => QueueInv
  BY DEF Init, QueueInv
<1>2. QED
  BY <1>1, QueueStep, TypeInvariant, PTL DEF PoolSpec

\* A parked checkout is always queued exactly once under its key: no put, drop
\* or clean_waiters, in whatever order they take the lock, loses a wakeup.
THEOREM NoLostWaiterSafety == PoolSpec => []NoLostWaiter
<1>1. TypeInv /\ QueueInv => NoLostWaiter
  BY DEF TypeInv, WellFormed, QueueInv, NoLostWaiter
<1>2. QED
  BY <1>1, TypeInvariant, QueueInvariant, PTL
-----------------------------------------------------------------------------
(***************************************************************************)
(* Keys.                                                                   *)
(***************************************************************************)
\* Idle entries hold connections.
LEMMA IdleConns ==
    ASSUME TypeInv, NEW k \in Keys, NEW i \in DOMAIN idle[k]
    PROVE  idle[k][i].conn \in Conns
<1>1. idle[k][i] \in IdleEntries
  <2>1. idle[k] \in Seq(IdleEntries)
    BY DEF TypeInv, TypeOK
  <2>2. QED
    BY <2>1
<1>2. QED
  BY <1>1 DEF IdleEntries

\* A step that moves no connection keeps KeyInv if it changes at most a
\* connection nobody refers to, and resolves nothing new.
LEMMA KeyFrame ==
    ASSUME TypeInv, TypeInv', KeyInv, idle' = idle, NEW C \in SUBSET Conns,
           \A c \in C : ~IsIdle(c) /\ \A o \in Checkouts : cconn[o] # c,
           \A c \in Conns : c \notin C => ckey'[c] = ckey[c] /\ (busy'[c] => busy[c]),
           \A o \in Checkouts : cstate'[o] \in {"sent", "held"} =>
              /\ cstate[o] \in {"sent", "held"} /\ (cstate'[o] = "sent" => cstate[o] = "sent")
              /\ okey'[o] = okey[o] /\ cconn'[o] = cconn[o]
    PROVE  KeyInv'
<1>1. ASSUME NEW k \in Keys, NEW i \in DOMAIN idle[k]
      PROVE  ckey'[idle[k][i].conn] = k /\ ~busy'[idle[k][i].conn]
  <2>1. idle[k][i].conn \in Conns
    BY IdleConns
  <2>2. idle[k][i].conn \notin C
    BY <2>1 DEF IsIdle
  <2>3. QED
    BY <2>1, <2>2 DEF KeyInv
<1>2. ASSUME NEW o \in Checkouts, cstate'[o] \in {"sent", "held"}
      PROVE  ckey'[cconn'[o]] = okey'[o] /\ (cstate'[o] = "sent" => ~busy'[cconn'[o]])
  <2>1. cconn[o] \in Conns
    BY <1>2 DEF TypeInv, TypeOK, WellFormed
  <2>2. cconn[o] \notin C
    BY <2>1
  <2>3. QED
    BY <1>2, <2>1, <2>2 DEF KeyInv
<1>3. QED
  BY <1>1, <1>2 DEF KeyInv

\* A put of c under its key keeps KeyInv: c is not in use, and its receivers
\* were parked on that key.
LEMMA KeyPut ==
    ASSUME TypeInv, TypeInv', QueueInv, KeyInv, ckey' = ckey, busy' = busy,
           NEW c \in Conns, NEW k \in Keys, NEW R \in SUBSET Checkouts,
           ckey[c] = k, ~busy[c], PutsAt(k, c),
           \A o \in R : okey[o] = k /\ okey'[o] = okey[o] /\ cconn'[o] = c,
           \A o \in Checkouts : o \notin R /\ cstate'[o] \in {"sent", "held"} =>
              cstate'[o] = cstate[o] /\ okey'[o] = okey[o] /\ cconn'[o] = cconn[o]
    PROVE  KeyInv'
<1>1. ASSUME NEW j \in Keys, NEW i \in DOMAIN idle'[j]
      PROVE  ckey'[idle'[j][i].conn] = j /\ ~busy'[idle'[j][i].conn]
  <2>1. CASE i \in DOMAIN idle[j] /\ idle'[j][i] = idle[j][i]
    BY <2>1 DEF KeyInv
  <2>2. CASE j = k /\ idle'[j][i].conn = c
    BY <2>2
  <2>3. QED
    BY <1>1, <2>1, <2>2 DEF PutsAt
<1>2. ASSUME NEW o \in Checkouts, cstate'[o] \in {"sent", "held"}
      PROVE  ckey'[cconn'[o]] = okey'[o] /\ (cstate'[o] = "sent" => ~busy'[cconn'[o]])
  <2>1. CASE o \in R
    BY <2>1
  <2>2. CASE o \notin R
    BY <1>2, <2>2 DEF KeyInv
  <2>3. QED
    BY <2>1, <2>2
<1>3. QED
  BY <1>1, <1>2 DEF KeyInv

\* Every step of the pool keeps connections under their keys.
LEMMA KeyStep ==
    TypeInv /\ UniqueOwnership /\ QueueInv /\ KeyInv /\ [PoolNext]_poolVars => KeyInv'
<1> SUFFICES ASSUME TypeInv, UniqueOwnership, QueueInv, KeyInv, [PoolNext]_poolVars PROVE KeyInv'
  OBVIOUS
<1>0. TypeInv'
  BY TypeStep
<1> USE DEF innerVars, connVars, outVars
<1>1. ASSUME UNCHANGED <<idle, ckey, busy, outVars>> PROVE KeyInv'
  BY <1>0, <1>1 DEF KeyInv
<1>2. ASSUME NEW c \in Conns,
             \/ \E k \in Keys : Connecting(c, k) \/ ConnectingH2(c, k)
             \/ ConnectingDrop(c) \/ ConnectingDropLocked(c) \/ Vanish(c)
      PROVE  KeyInv'
  <2>1. ~IsIdle(c) /\ \A o \in Checkouts : cconn[o] # c
    <3>1. CASE phase[c] \notin Established
      BY <3>1, PoolAssumption DEF IsIdle, TypeInv, WellFormed
    <3>2. CASE Vanish(c)
      BY <3>2, PoolAssumption DEF Vanish, Referenced, InChannel, IsHeld, TypeInv, WellFormed
    <3>3. QED
      BY <1>2, <3>1, <3>2 DEF Connecting, ConnectingH2, ConnectingDrop, ConnectingDropLocked, Established
  <2>2. /\ UNCHANGED <<idle, okey, cconn>>
        /\ \A d \in Conns : d \notin {c} => ckey'[d] = ckey[d] /\ (busy'[d] => busy[d])
    BY <1>2 DEF Connecting, ConnectingH2, ConnectingDrop, ConnectingDropLocked, Vanish, TypeInv, TypeOK
  <2>3. \A o \in Checkouts : cstate'[o] \in {"sent", "held"} => cstate'[o] = cstate[o]
    BY <1>2 DEF Connecting, ConnectingH2, ConnectingDrop, ConnectingDropLocked, Vanish
  <2>4. QED
    BY <1>0, <2>1, <2>2, <2>3, KeyFrame
<1>3. ASSUME NEW o \in Checkouts,
             WaiterServed(o) \/ WaiterGetsClosed(o) \/ WaiterCanceled(o) \/ CheckoutDrop(o) \/ CleanWaiters(o)
      PROVE  KeyInv'
  <2>1. UNCHANGED <<idle, ckey, busy>>
    BY <1>3 DEF WaiterServed, WaiterGetsClosed, WaiterCanceled, CheckoutDrop, CleanWaiters
  <2>2. \A w \in Checkouts : cstate'[w] \in {"sent", "held"} =>
           /\ cstate[w] \in {"sent", "held"} /\ (cstate'[w] = "sent" => cstate[w] = "sent")
           /\ okey'[w] = okey[w] /\ cconn'[w] = cconn[w]
    BY <1>3 DEF WaiterServed, WaiterGetsClosed, WaiterCanceled, CheckoutDrop, CleanWaiters, TypeInv, TypeOK
  <2>3. {} \in SUBSET Conns
    OBVIOUS
  <2>4. QED
    BY <1>0, <2>1, <2>2, <2>3, KeyFrame
<1>4. ASSUME NEW c \in Conns, EndExchange(c) PROVE KeyInv'
  <2>1. UNCHANGED <<idle, ckey, outVars>> /\ \A d \in Conns : busy'[d] => busy[d]
    BY <1>4 DEF EndExchange, TypeInv, TypeOK
  <2>2. {} \in SUBSET Conns
    OBVIOUS
  <2>3. QED
    BY <1>0, <2>1, <2>2, KeyFrame
<1>5. ASSUME NEW c \in Conns, StartExchange(c) PROVE KeyInv'
  <2>1. /\ UNCHANGED <<idle, ckey, outVars>> /\ \A d \in Conns : d # c => busy'[d] = busy[d]
        /\ ~h2[c] /\ (fresh[c] \/ IsHeld(c))
    BY <1>5 DEF StartExchange, TypeInv, TypeOK
  <2>2. ~IsIdle(c) /\ \A o \in Checkouts : cstate[o] = "sent" => cconn[o] # c
    <3>1. CASE fresh[c]
      BY <2>1, <3>1 DEF UniqueOwnership
    <3>2. CASE IsHeld(c)
      <4>1. PICK p \in Checkouts : cstate[p] = "held" /\ cconn[p] = c
        BY <3>2 DEF IsHeld
      <4>2. \A o \in Checkouts : cconn[o] = c => o = p
        BY <2>1, <4>1 DEF UniqueOwnership
      <4>3. ~IsIdle(c)
        BY <2>1, <4>1 DEF UniqueOwnership
      <4>4. QED
        BY <4>1, <4>2, <4>3
    <3>3. QED
      BY <2>1, <3>1, <3>2
  <2>3. \A k \in Keys : \A i \in DOMAIN idle[k] : idle[k][i].conn \in Conns /\ idle[k][i].conn # c
    BY <2>2, IdleConns DEF IsIdle
  <2>4. \A o \in Checkouts : cstate[o] = "sent" => cconn[o] \in Conns
    BY DEF TypeInv, TypeOK, WellFormed
  <2>5. QED
    BY <2>1, <2>2, <2>3, <2>4 DEF KeyInv
<1>6. ASSUME NEW o \in Checkouts, NEW k \in Keys, CheckoutIdle(o, k) PROVE KeyInv'
  <2>1. PICK i \in DOMAIN idle[k], c \in Conns : Takes(o, k, i, c)
    BY <1>6, CheckoutIdleFacts DEF TypeInv, TypeOK, IdleType
  <2>2. /\ cconn' = [cconn EXCEPT ![o] = c] /\ UNCHANGED <<ckey, busy>>
        /\ cstate' = [cstate EXCEPT ![o] = "held"] /\ okey' = [okey EXCEPT ![o] = k]
    BY <1>6, <2>1 DEF CheckoutIdle, Takes
  <2>3. ckey[c] = k /\ ~busy[c]
    BY <2>1 DEF Takes, KeyInv
  <2>4. ASSUME NEW l \in Keys, NEW p \in DOMAIN idle'[l]
        PROVE  ckey'[idle'[l][p].conn] = l /\ ~busy'[idle'[l][p].conn]
    <3>1. CASE p \in DOMAIN idle[l] /\ idle'[l][p] = idle[l][p]
      BY <2>2, <3>1 DEF KeyInv
    <3>2. CASE l = k /\ idle'[l][p].conn = c
      BY <2>2, <2>3, <3>2
    <3>3. QED
      BY <2>1, <2>4, <3>1, <3>2 DEF Takes
  <2>5. ASSUME NEW w \in Checkouts, cstate'[w] \in {"sent", "held"}
        PROVE  ckey'[cconn'[w]] = okey'[w] /\ (cstate'[w] = "sent" => ~busy'[cconn'[w]])
    <3>1. CASE w = o
      BY <2>2, <2>3, <3>1 DEF TypeInv, TypeOK
    <3>2. CASE w # o
      BY <2>2, <2>5, <3>2 DEF KeyInv, TypeInv, TypeOK
    <3>3. QED
      BY <3>1, <3>2
  <2>6. QED
    BY <2>4, <2>5 DEF KeyInv
<1>7. ASSUME UNCHANGED <<ckey, busy, cconn>>,
             \A k \in Keys : \A i \in DOMAIN idle'[k] :
                \E j \in DOMAIN idle[k] : idle'[k][i].conn = idle[k][j].conn,
             \A o \in Checkouts : cstate'[o] \in {"sent", "held"} =>
                cstate'[o] = cstate[o] /\ okey'[o] = okey[o]
      PROVE  KeyInv'
  BY <1>0, <1>7 DEF KeyInv
<1>8. ASSUME NEW o \in Checkouts, NEW k \in Keys, CheckoutWait(o, k) PROVE KeyInv'
  <2>1. \A j \in Keys : idle'[j] = idle[j] \/ DOMAIN idle'[j] = {}
    BY <1>8 DEF CheckoutWait, TypeInv, TypeOK
  <2>2. /\ UNCHANGED <<ckey, busy, cconn>>
        /\ \A w \in Checkouts : cstate'[w] \in {"sent", "held"} =>
              cstate'[w] = cstate[w] /\ okey'[w] = okey[w]
    BY <1>8 DEF CheckoutWait, TypeInv, TypeOK
  <2>3. QED
    BY <1>7, <2>1, <2>2
<1>9. ASSUME Tick \/ ClearExpired \/ DropPool PROVE KeyInv'
  <2>1. ASSUME NEW k \in Keys, NEW i \in DOMAIN idle'[k]
        PROVE  \E j \in DOMAIN idle[k] : idle'[k][i].conn = idle[k][j].conn
    <3>1. CASE Tick
      <4>1. idle'[k] = [j \in DOMAIN idle[k] |-> Older(idle[k][j])]
        BY <3>1 DEF Tick
      <4>2. idle[k] \in Seq(IdleEntries)
        BY DEF TypeInv, TypeOK
      <4>3. QED
        BY <2>1, <4>1, <4>2, OlderFacts
    <3>2. CASE ClearExpired
      <4> DEFINE S == {e \in IdleEntries : IsOpen(e.conn) /\ ~Expires(e)}
      <4>1. idle'[k] = Retain(idle[k], S) /\ idle[k] \in Seq(IdleEntries)
        BY <3>2 DEF ClearExpired, Retained, TypeInv, TypeOK
      <4> HIDE DEF S
      <4>2. PICK f \in [DOMAIN idle'[k] -> DOMAIN idle[k]] : Selects(f, idle'[k], idle[k], S)
        BY <4>1, RetainFacts
      <4>3. idle'[k][i] = idle[k][f[i]] /\ f[i] \in DOMAIN idle[k]
        BY <2>1, <4>2 DEF Selects
      <4>4. QED
        BY <4>3
    <3>3. CASE DropPool
      <4>1. DOMAIN idle'[k] = {}
        BY <3>3 DEF DropPool
      <4>2. QED
        BY <2>1, <4>1
    <3>4. QED
      BY <1>9, <3>1, <3>2, <3>3
  <2>2. UNCHANGED <<ckey, busy, cconn, cstate, okey>>
    BY <1>9 DEF Tick, ClearExpired, DropPool
  <2>3. QED
    BY <1>7, <2>1, <2>2
<1>10. ASSUME NEW c \in Conns, PooledShared(c) PROVE KeyInv'
  <2> DEFINE k == ckey[c]
             R == PutReceivers(k, TRUE)
  <2>1. k \in Keys /\ IdleType /\ PutIdle(k, c, TRUE) /\ ~busy[c]
    BY <1>10 DEF PooledShared, IdleType, TypeInv, TypeOK, WellFormed, Established
  <2>2. /\ cstate' = [o \in Checkouts |->
                         CASE o \in R -> "sent"
                           [] o \notin R /\ o \in Dropped(k) -> "canceled"
                           [] OTHER -> cstate[o]]
        /\ cconn' = [o \in Checkouts |-> IF o \in R THEN c ELSE cconn[o]]
        /\ UNCHANGED <<ckey, busy, okey>>
    BY <1>10 DEF PooledShared
  <2>3. ckey[c] = k
    OBVIOUS
  <2> HIDE DEF k
  <2>4. PutsAt(k, c)
    BY <2>1, PutIdleFacts
  <2>5. \A o \in R : o \in Checkouts /\ \E i \in Live(k) : o = waiters[k][i]
    BY <2>1, ReceiverFacts DEF TypeInv, TypeOK
  <2> HIDE DEF R
  <2>6. R \in SUBSET Checkouts /\ \A o \in R : okey[o] = k
    BY <2>1, <2>5 DEF Live, QueueInv
  <2>7. /\ \A o \in R : okey[o] = k /\ okey'[o] = okey[o] /\ cconn'[o] = c
        /\ \A o \in Checkouts : o \notin R /\ cstate'[o] \in {"sent", "held"} =>
              cstate'[o] = cstate[o] /\ okey'[o] = okey[o] /\ cconn'[o] = cconn[o]
    BY <2>2, <2>6
  <2>8. QED
    BY <1>0, <2>1, <2>2, <2>3, <2>4, <2>6, <2>7, KeyPut
<1>11. ASSUME NEW c \in Conns, PooledDrop(c) PROVE KeyInv'
  <2> DEFINE k == ckey[c]
             R == PutReceivers(k, FALSE)
  <2>1. CASE ~Reinserted(c)
    <3>1. /\ UNCHANGED <<idle, ckey, busy, okey>>
          /\ \A o \in Checkouts : cstate'[o] = cstate[o] /\ cconn'[o] = cconn[o]
      BY <1>11, <2>1 DEF PooledDrop
    <3>2. {} \in SUBSET Conns
      OBVIOUS
    <3>3. QED
      BY <1>0, <3>1, <3>2, KeyFrame
  <2>2. CASE Reinserted(c)
    <3>1. k \in Keys /\ IdleType /\ PutIdle(k, c, FALSE) /\ ~busy[c]
      BY <1>11, <2>2 DEF PooledDrop, Reinserted, IsOpen, IdleType, TypeInv, TypeOK, WellFormed, Established
    <3>2. /\ cstate' = [o \in Checkouts |-> IF o \in R THEN "sent" ELSE cstate[o]]
          /\ cconn' = [o \in Checkouts |-> IF o \in R THEN c ELSE cconn[o]]
          /\ UNCHANGED <<ckey, busy, okey>>
      BY <1>11, <2>2 DEF PooledDrop
    <3>3. ckey[c] = k
      OBVIOUS
    <3> HIDE DEF k
    <3>4. PutsAt(k, c)
      BY <3>1, PutIdleFacts
    <3>5. \A o \in R : o \in Checkouts /\ \E i \in Live(k) : o = waiters[k][i]
      BY <3>1, ReceiverFacts DEF TypeInv, TypeOK
    <3> HIDE DEF R
    <3>6. R \in SUBSET Checkouts /\ \A o \in R : okey[o] = k
      BY <3>1, <3>5 DEF Live, QueueInv
    <3>7. /\ \A o \in R : okey[o] = k /\ okey'[o] = okey[o] /\ cconn'[o] = c
          /\ \A o \in Checkouts : o \notin R /\ cstate'[o] \in {"sent", "held"} =>
                cstate'[o] = cstate[o] /\ okey'[o] = okey[o] /\ cconn'[o] = cconn[o]
      BY <3>2, <3>6
    <3>8. QED
      BY <1>0, <3>1, <3>2, <3>3, <3>4, <3>6, <3>7, KeyPut
  <2>3. QED
    BY <2>1, <2>2
<1>12. ASSUME NEW x \in Checkouts, PooledDropReused(x) PROVE KeyInv'
  <2> DEFINE c == cconn[x]
             k == okey[x]
             R == PutReceivers(k, FALSE)
  <2>1. /\ k \in Keys /\ c \in Conns /\ ckey[c] = k /\ cstate[x] = "held"
        /\ UNCHANGED <<ckey, busy>> /\ okey' = [okey EXCEPT ![x] = NoKey]
    BY <1>12 DEF PooledDropReused, TypeInv, TypeOK, WellFormed, KeyInv
  <2>2. CASE ~Reinserted(c)
    <3>1. /\ idle' = idle
          /\ \A o \in Checkouts : /\ cstate'[o] = IF o = x THEN "none" ELSE cstate[o]
                                  /\ cconn'[o] = IF o = x THEN NoConn ELSE cconn[o]
      BY <1>12, <2>2 DEF PooledDropReused
    <3>2. \A o \in Checkouts : cstate'[o] \in {"sent", "held"} =>
             cstate'[o] = cstate[o] /\ okey'[o] = okey[o] /\ cconn'[o] = cconn[o]
      BY <2>1, <3>1 DEF TypeInv, TypeOK
    <3>3. {} \in SUBSET Conns
      OBVIOUS
    <3>4. QED
      BY <1>0, <2>1, <3>1, <3>2, <3>3, KeyFrame
  <2>3. CASE Reinserted(c)
    <3>1. IdleType /\ PutIdle(k, c, FALSE) /\ ~busy[c]
      BY <1>12, <2>3 DEF PooledDropReused, Reinserted, IsOpen, IdleType, TypeInv, TypeOK
    <3>2. /\ cstate' = [w \in Checkouts |->
                           CASE w \in R -> "sent"
                             [] w \notin R /\ w = x -> "none"
                             [] OTHER -> cstate[w]]
          /\ cconn' = [w \in Checkouts |->
                           CASE w \in R -> c
                             [] w \notin R /\ w = x -> NoConn
                             [] OTHER -> cconn[w]]
      BY <1>12, <2>3 DEF PooledDropReused
    <3> HIDE DEF k, c
    <3>4. PutsAt(k, c)
      BY <2>1, <3>1, PutIdleFacts
    <3>3. \A o \in R : o \in Checkouts /\ cstate[o] = "waiting"
      BY <2>1, ReceiverFacts DEF TypeInv, TypeOK
    <3>5. \A o \in R : \E i \in Live(k) : o = waiters[k][i]
      BY <2>1, ReceiverFacts DEF TypeInv, TypeOK
    <3> HIDE DEF R
    <3>6. R \in SUBSET Checkouts /\ x \notin R /\ \A o \in R : okey[o] = k
      BY <2>1, <3>3, <3>5 DEF Live, QueueInv
    <3>7. \A o \in Checkouts : o # x => okey'[o] = okey[o]
      BY <2>1 DEF TypeInv, TypeOK
    <3>8. /\ \A o \in R : okey[o] = k /\ okey'[o] = okey[o] /\ cconn'[o] = c
          /\ \A o \in Checkouts : o \notin R /\ cstate'[o] \in {"sent", "held"} =>
                cstate'[o] = cstate[o] /\ okey'[o] = okey[o] /\ cconn'[o] = cconn[o]
      BY <3>2, <3>6, <3>7
    <3>9. QED
      BY <1>0, <2>1, <3>1, <3>4, <3>6, <3>8, KeyPut
  <2>4. QED
    BY <2>2, <2>3
<1>13. QED
  <2>1. ASSUME NEW c \in Conns, AlpnH2(c) \/ PooledUnique(c) \/ Close(c) \/ Poison(c)
        PROVE  UNCHANGED <<idle, ckey, busy, outVars>>
    BY <2>1 DEF AlpnH2, PooledUnique, Close, Poison
  <2>2. ASSUME IdleTaskEnds \/ UNCHANGED poolVars PROVE UNCHANGED <<idle, ckey, busy, outVars>>
    BY <2>2 DEF IdleTaskEnds, poolVars
  <2>3. QED
    BY <1>1, <1>2, <1>3, <1>4, <1>5, <1>6, <1>8, <1>9, <1>10, <1>11, <1>12, <2>1, <2>2
       DEF PoolNext, CheckoutNext, ConnNext

\* A request is only ever given a connection that was established for its own
\* key and is not in the middle of an exchange.
THEOREM KeySafety == PoolSpec => []KeyInv
<1>1. Init => KeyInv
  BY DEF Init, KeyInv
<1>2. QED
  BY <1>1, KeyStep, TypeInvariant, OwnershipSafety, QueueInvariant, PTL DEF PoolSpec
-----------------------------------------------------------------------------
(***************************************************************************)
(* What a checkout resolves to.                                            *)
(***************************************************************************)
\* A checkout resolves in two ways only, and both look at the connection.
LEMMA ResolveStep ==
    ASSUME TypeInv, [PoolNext]_poolVars, NEW o \in Checkouts
    PROVE  ResolvesToUsable(o)
<1> SUFFICES ASSUME cstate[o] # "held", cstate'[o] = "held"
             PROVE  /\ IsOpen(cconn'[o])
                    /\ cstate[o] = "none" =>
                          \E i \in DOMAIN idle[okey'[o]] :
                              idle[okey'[o]][i].conn = cconn'[o] /\ ~Expires(idle[okey'[o]][i])
  BY DEF ResolvesToUsable
<1> USE DEF innerVars, connVars, outVars
<1>1. CASE WaiterServed(o)
  BY <1>1 DEF WaiterServed
<1>2. ASSUME NEW k \in Keys, CheckoutIdle(o, k)
      PROVE  /\ IsOpen(cconn'[o])
             /\ \E i \in DOMAIN idle[okey'[o]] :
                   idle[okey'[o]][i].conn = cconn'[o] /\ ~Expires(idle[okey'[o]][i])
  <2>1. PICK i \in DOMAIN idle[k], c \in Conns : Takes(o, k, i, c)
    BY <1>2, CheckoutIdleFacts DEF TypeInv, TypeOK, IdleType
  <2>2. okey'[o] = k
    BY <1>2 DEF CheckoutIdle, TypeInv, TypeOK
  <2>3. cconn'[o] = c /\ idle[k][i].conn = c /\ IsOpen(c) /\ ~Expires(idle[k][i])
    BY <2>1 DEF Takes, TypeInv, TypeOK
  <2>4. QED
    BY <2>2, <2>3
<1>3. ASSUME NEW w \in Checkouts, w # o, CheckoutNext(w) PROVE FALSE
  <2>1. CASE PooledDropReused(w)
    BY <1>3, <2>1 DEF PooledDropReused
  <2>2. CASE ~PooledDropReused(w)
    <3>1. \E x \in CheckoutStates : cstate' = [cstate EXCEPT ![w] = x]
      BY <1>3, <2>2 DEF CheckoutNext, CheckoutIdle, CheckoutWait, WaiterServed, WaiterGetsClosed,
                        WaiterCanceled, CheckoutDrop, CleanWaiters, CheckoutStates
    <3>2. QED
      BY <1>3, <3>1 DEF TypeInv, TypeOK
  <2>3. QED
    BY <2>1, <2>2
<1>4. ASSUME \/ \E k \in Keys : CheckoutWait(o, k)
             \/ WaiterGetsClosed(o) \/ WaiterCanceled(o) \/ CheckoutDrop(o)
             \/ CleanWaiters(o) \/ PooledDropReused(o)
      PROVE  FALSE
  BY <1>4 DEF CheckoutWait, WaiterGetsClosed, WaiterCanceled, CheckoutDrop, CleanWaiters,
              PooledDropReused, TypeInv, TypeOK
<1>5. ASSUME NEW c \in Conns, ConnNext(c) PROVE FALSE
  <2>1. CASE PooledShared(c)
    BY <2>1 DEF PooledShared
  <2>2. CASE PooledDrop(c)
    BY <2>2 DEF PooledDrop
  <2>3. CASE ConnectingDropLocked(c)
    BY <2>3 DEF ConnectingDropLocked
  <2>4. ASSUME \/ \E k \in Keys : Connecting(c, k) \/ ConnectingH2(c, k)
               \/ AlpnH2(c) \/ ConnectingDrop(c) \/ PooledUnique(c) \/ StartExchange(c)
               \/ EndExchange(c) \/ Close(c) \/ Poison(c) \/ Vanish(c)
        PROVE  cstate' = cstate
    BY <2>4 DEF Connecting, ConnectingH2, AlpnH2, ConnectingDrop, PooledUnique, StartExchange,
                EndExchange, Close, Poison, Vanish
  <2>5. QED
    BY <1>5, <2>1, <2>2, <2>3, <2>4 DEF ConnNext
<1>6. ASSUME Tick \/ ClearExpired \/ DropPool \/ IdleTaskEnds \/ UNCHANGED poolVars PROVE FALSE
  BY <1>6 DEF Tick, ClearExpired, DropPool, IdleTaskEnds, poolVars
<1>7. QED
  BY <1>1, <1>2, <1>3, <1>4, <1>5, <1>6 DEF PoolNext, CheckoutNext

\* No checkout ever resolves to a closed, poisoned, busy or expired connection.
THEOREM UsableSafety == PoolSpec => HandsOutUsable
<1>1. TypeInv /\ [PoolNext]_poolVars => [\A o \in Checkouts : ResolvesToUsable(o)]_poolVars
  BY ResolveStep
<1>2. QED
  BY <1>1, TypeInvariant, PTL DEF PoolSpec, HandsOutUsable
-----------------------------------------------------------------------------
(***************************************************************************)
(* The idle lists: the LruCache and its limits, and their expiry.          *)
(***************************************************************************)
\* What a list and the cache are, for the provers.
LEMMA IdleDomains ==
    ASSUME TypeInv
    PROVE  /\ lru \in Seq(Keys) /\ Len(lru) \in Nat /\ DOMAIN lru = 1..Len(lru)
           /\ \A k \in Keys : /\ idle[k] \in Seq(IdleEntries) /\ Len(idle[k]) \in Nat
                              /\ DOMAIN idle[k] = 1..Len(idle[k])
                              /\ idle[k] = <<>> <=> Len(idle[k]) = 0
<1>1. lru \in Seq(Keys) /\ idle \in [Keys -> Seq(IdleEntries)]
  BY DEF TypeInv, TypeOK
<1>2. QED
  BY <1>1, LenProperties, EmptySeq

-----------------------------------------------------------------------------
(***************************************************************************)
(* Nobody waits where something is idle.                                   *)
(***************************************************************************)
\* Whoever waits for key k is alive in its queue.
LEMMA WaitersLive ==
    ASSUME TypeInv, QueueInv, NEW o \in Checkouts, cstate[o] = "waiting"
    PROVE  okey[o] \in Keys /\ Live(okey[o]) # {} /\ o \in Dropped(okey[o])
<1>1. okey[o] \in Keys
  BY DEF TypeInv, WellFormed
<1>2. PICK i \in DOMAIN waiters[okey[o]] : waiters[okey[o]][i] = o
  BY DEF QueueInv
<1>3. i \in Live(okey[o])
  BY <1>2 DEF Live
<1>4. QED
  BY <1>1, <1>2, <1>3 DEF Dropped

\* A list that grows has been put to, under its key.
LEMMA PutGrows ==
    ASSUME TypeInv, NEW k \in Keys, NEW c \in Conns, NEW shared \in BOOLEAN, PutIdle(k, c, shared)
    PROVE  /\ \A j \in Keys : j # k => idle'[j] = idle[j] \/ idle'[j] = <<>>
           /\ ~shared /\ Live(k) # {} => idle' = idle
<1>1. CASE PutRejected(k, shared) \/ (~shared /\ Live(k) # {})
  BY <1>1 DEF PutIdle
<1>2. CASE ~ (PutRejected(k, shared) \/ (~shared /\ Live(k) # {}))
  <2> DEFINE kept == [j \in Keys |-> IF j \in Evicted(k) THEN <<>> ELSE idle[j]]
  <2>1. idle' = kept \/ idle' = [kept EXCEPT ![k] = Append(@, [conn |-> c, age |-> 0])]
    BY <1>2 DEF PutIdle
  <2>2. QED
    BY <1>2, <2>1
<1>3. QED
  BY <1>1, <1>2

\* A step keeps NoIdleWhileWaiting if it parks nobody and every list it fills has
\* no one parked on its key any more.
LEMMA IdleFrame ==
    ASSUME TypeInv, NoIdleWhileWaiting,
           \A o \in Checkouts : cstate'[o] = "waiting" =>
              /\ cstate[o] = "waiting" /\ okey'[o] = okey[o]
              /\ idle'[okey[o]] = idle[okey[o]] \/ idle'[okey[o]] = <<>>
    PROVE  NoIdleWhileWaiting'
BY DEF NoIdleWhileWaiting

\* Every step keeps the lists empty on which somebody waits.
LEMMA WaitingStep ==
    TypeInv /\ QueueInv /\ NoIdleWhileWaiting /\ [PoolNext]_poolVars => NoIdleWhileWaiting'
<1> SUFFICES ASSUME TypeInv, QueueInv, NoIdleWhileWaiting, [PoolNext]_poolVars
             PROVE  NoIdleWhileWaiting'
  OBVIOUS
<1> USE DEF innerVars, connVars, outVars
<1>1. CASE UNCHANGED <<idle, cstate, okey>>
  BY <1>1, IdleFrame
<1>2. ASSUME NEW o \in Checkouts, NEW k \in Keys, CheckoutIdle(o, k) PROVE NoIdleWhileWaiting'
  <2>1. /\ cstate' = [cstate EXCEPT ![o] = "held"] /\ okey' = [okey EXCEPT ![o] = k]
        /\ Usable(k) # {} /\ \E list : idle' = [idle EXCEPT ![k] = list]
    BY <1>2 DEF CheckoutIdle
  <2>2. idle[k] # <<>>
    BY <2>1 DEF Usable
  <2>3. \A w \in Checkouts : cstate'[w] = "waiting" =>
           cstate[w] = "waiting" /\ okey'[w] = okey[w] /\ okey[w] # k
    BY <2>1, <2>2 DEF TypeInv, TypeOK, NoIdleWhileWaiting
  <2>4. \A j \in Keys : j # k => idle'[j] = idle[j]
    BY <2>1 DEF TypeInv, TypeOK
  <2>5. QED
    BY <2>3, <2>4, WaitersLive, IdleFrame
<1>3. ASSUME NEW o \in Checkouts, NEW k \in Keys, CheckoutWait(o, k) PROVE NoIdleWhileWaiting'
  <2>1. /\ idle' = [idle EXCEPT ![k] = <<>>]
        /\ cstate' = [cstate EXCEPT ![o] = "waiting"] /\ okey' = [okey EXCEPT ![o] = k]
    BY <1>3 DEF CheckoutWait
  <2>2. ASSUME NEW w \in Checkouts, cstate'[w] = "waiting" PROVE idle'[okey'[w]] = <<>>
    <3>1. CASE w = o
      BY <2>1, <3>1 DEF TypeInv, TypeOK
    <3>2. CASE w # o
      <4>1. cstate[w] = "waiting" /\ okey'[w] = okey[w]
        BY <2>1, <2>2, <3>2 DEF TypeInv, TypeOK
      <4>2. okey[w] \in Keys /\ idle[okey[w]] = <<>>
        BY <4>1, WaitersLive DEF NoIdleWhileWaiting
      <4>3. QED
        BY <2>1, <4>1, <4>2 DEF TypeInv, TypeOK
    <3>3. QED
      BY <3>1, <3>2
  <2>3. QED
    BY <2>2 DEF NoIdleWhileWaiting
<1>4. ASSUME NEW o \in Checkouts,
             \/ WaiterServed(o) \/ WaiterGetsClosed(o) \/ WaiterCanceled(o)
             \/ CheckoutDrop(o) \/ CleanWaiters(o)
      PROVE  NoIdleWhileWaiting'
  <2>1. /\ idle' = idle
        /\ \A w \in Checkouts : cstate'[w] = "waiting" => cstate[w] = "waiting" /\ okey'[w] = okey[w]
    BY <1>4 DEF WaiterServed, WaiterGetsClosed, WaiterCanceled, CheckoutDrop, CleanWaiters, TypeInv, TypeOK
  <2>2. QED
    BY <2>1, IdleFrame
<1>5. ASSUME NEW c \in Conns, ConnectingDropLocked(c) PROVE NoIdleWhileWaiting'
  <2>1. /\ UNCHANGED <<idle, okey>>
        /\ \A w \in Checkouts : cstate'[w] = "waiting" => cstate[w] = "waiting"
    BY <1>5 DEF ConnectingDropLocked
  <2>2. QED
    BY <2>1, IdleFrame
<1>6. ASSUME NEW c \in Conns, PooledShared(c) PROVE NoIdleWhileWaiting'
  <2> DEFINE k == ckey[c]
             R == PutReceivers(k, TRUE)
  <2>1. k \in Keys /\ PutIdle(k, c, TRUE) /\ okey' = okey
    BY <1>6 DEF PooledShared, TypeInv, WellFormed
  <2>2. cstate' = [o \in Checkouts |->
                      CASE o \in R -> "sent"
                        [] o \notin R /\ o \in Dropped(k) -> "canceled"
                        [] OTHER -> cstate[o]]
    BY <1>6 DEF PooledShared
  <2> HIDE DEF k, R
  <2>3. \A j \in Keys : j # k => idle'[j] = idle[j] \/ idle'[j] = <<>>
    BY <2>1, PutGrows
  <2>4. \A w \in Checkouts : cstate'[w] = "waiting" => cstate[w] = "waiting" /\ w \notin Dropped(k)
    BY <2>2
  <2>5. \A w \in Checkouts : cstate'[w] = "waiting" => okey[w] \in Keys /\ okey[w] # k
    BY <2>4, WaitersLive
  <2>6. QED
    BY <2>1, <2>3, <2>4, <2>5, IdleFrame
<1>7. ASSUME NEW k \in Keys, NEW c \in Conns, PutIdle(k, c, FALSE),
             \A w \in Checkouts : cstate'[w] = "waiting" => cstate[w] = "waiting" /\ okey'[w] = okey[w]
      PROVE  NoIdleWhileWaiting'
  <2>1. /\ \A j \in Keys : j # k => idle'[j] = idle[j] \/ idle'[j] = <<>>
        /\ Live(k) # {} => idle' = idle
    BY <1>7, PutGrows
  <2>2. \A w \in Checkouts : cstate'[w] = "waiting" => okey[w] \in Keys /\ Live(okey[w]) # {}
    BY <1>7, WaitersLive
  <2>3. QED
    BY <1>7, <2>1, <2>2, IdleFrame
<1>8. ASSUME NEW c \in Conns, PooledDrop(c) PROVE NoIdleWhileWaiting'
  <2>1. okey' = okey /\ \A w \in Checkouts : cstate'[w] = "waiting" => cstate[w] = "waiting"
    BY <1>8 DEF PooledDrop
  <2>2. ckey[c] \in Keys
    BY <1>8 DEF PooledDrop, TypeInv, TypeOK, WellFormed, Established
  <2>3. idle' = idle \/ PutIdle(ckey[c], c, FALSE)
    BY <1>8 DEF PooledDrop
  <2>4. QED
    BY <1>7, <2>1, <2>2, <2>3, IdleFrame
<1>9. ASSUME NEW o \in Checkouts, PooledDropReused(o) PROVE NoIdleWhileWaiting'
  <2>1. /\ okey[o] \in Keys /\ cconn[o] \in Conns /\ cstate[o] = "held"
        /\ okey' = [okey EXCEPT ![o] = NoKey]
    BY <1>9 DEF PooledDropReused, TypeInv, TypeOK, WellFormed
  <2>2. \A w \in Checkouts : cstate'[w] = "waiting" => cstate[w] = "waiting"
    BY <1>9 DEF PooledDropReused
  <2>3. \A w \in Checkouts : cstate'[w] = "waiting" => cstate[w] = "waiting" /\ okey'[w] = okey[w]
    BY <2>1, <2>2 DEF TypeInv, TypeOK
  <2>4. idle' = idle \/ PutIdle(okey[o], cconn[o], FALSE)
    BY <1>9 DEF PooledDropReused
  <2>5. QED
    BY <1>7, <2>1, <2>3, <2>4, IdleFrame
<1>10. ASSUME Tick \/ ClearExpired \/ DropPool PROVE NoIdleWhileWaiting'
  <2>1. UNCHANGED <<cstate, okey>>
    BY <1>10 DEF Tick, ClearExpired, DropPool
  <2>2. ASSUME NEW k \in Keys, idle[k] = <<>> PROVE idle'[k] = <<>>
    <3>1. CASE Tick
      BY <2>2, <3>1 DEF Tick
    <3>2. CASE ClearExpired
      <4> DEFINE S == {e \in IdleEntries : IsOpen(e.conn) /\ ~Expires(e)}
      <4>1. idle'[k] = Retain(idle[k], S)
        BY <3>2 DEF ClearExpired, Retained
      <4> HIDE DEF S
      <4>2. idle[k] \in Seq(IdleEntries)
        BY DEF TypeInv, TypeOK
      <4>3. Len(Retain(idle[k], S)) <= Len(idle[k]) /\ Retain(idle[k], S) \in Seq(IdleEntries)
        BY <4>2, RetainLength, RetainFacts
      <4>4. Len(idle[k]) = 0
        BY <2>2
      <4>5. Len(Retain(idle[k], S)) = 0
        BY <4>3, <4>4, LenProperties
      <4>6. QED
        BY <4>1, <4>3, <4>5, EmptySeq
    <3>3. CASE DropPool
      BY <3>3 DEF DropPool
    <3>4. QED
      BY <1>10, <3>1, <3>2, <3>3
  <2>3. ASSUME NEW o \in Checkouts, cstate'[o] = "waiting" PROVE idle'[okey'[o]] = <<>>
    <3>1. cstate[o] = "waiting" /\ okey'[o] = okey[o]
      BY <2>1, <2>3
    <3>2. okey[o] \in Keys /\ idle[okey[o]] = <<>>
      BY <3>1, WaitersLive DEF NoIdleWhileWaiting
    <3>3. QED
      BY <2>2, <3>1, <3>2
  <2>4. QED
    BY <2>3 DEF NoIdleWhileWaiting
<1>11. QED
  <2>1. ASSUME NEW c \in Conns,
               \/ \E k \in Keys : Connecting(c, k) \/ ConnectingH2(c, k)
               \/ AlpnH2(c) \/ ConnectingDrop(c) \/ PooledUnique(c)
        PROVE  UNCHANGED <<idle, cstate, okey>>
    BY <2>1 DEF Connecting, ConnectingH2, AlpnH2, ConnectingDrop, PooledUnique
  <2>2. ASSUME NEW c \in Conns, StartExchange(c) \/ EndExchange(c) \/ Close(c) \/ Poison(c) \/ Vanish(c)
        PROVE  UNCHANGED <<idle, cstate, okey>>
    BY <2>2 DEF StartExchange, EndExchange, Close, Poison, Vanish
  <2>3. ASSUME IdleTaskEnds \/ UNCHANGED poolVars PROVE UNCHANGED <<idle, cstate, okey>>
    BY <2>3 DEF IdleTaskEnds, poolVars
  <2>4. QED
    BY <1>1, <1>2, <1>3, <1>4, <1>5, <1>6, <1>8, <1>9, <1>10, <2>1, <2>2, <2>3
       DEF PoolNext, CheckoutNext, ConnNext

-----------------------------------------------------------------------------
(***************************************************************************)
(* The cache of lists and its limits.                                      *)
(***************************************************************************)
\* Taking keys out of the cache keeps the others, once each.
LEMMA CacheRetain ==
    ASSUME TypeInv, CacheInv, NEW S
    PROVE  LET r == Retain(lru, S) IN
           /\ r \in Seq(Keys) /\ Len(r) \in Nat /\ DOMAIN r = 1..Len(r) /\ Len(r) <= Len(lru)
           /\ \A k \in Keys : (\E i \in DOMAIN r : r[i] = k) <=> Present(k) /\ k \in S
           /\ \A i, j \in DOMAIN r : r[i] = r[j] => i = j
           /\ \A k \in Keys : Present(k) /\ k \notin S => Len(r) < Len(lru)
<1> DEFINE r == Retain(lru, S)
<1>1. lru \in Seq(Keys) /\ Len(lru) \in Nat /\ DOMAIN lru = 1..Len(lru)
  BY IdleDomains
<1>2. r \in Seq(Keys) /\ \A i \in DOMAIN r : r[i] \in S
  BY <1>1, RetainFacts
<1>3. PICK f \in [DOMAIN r -> DOMAIN lru] : Selects(f, r, lru, S)
  BY <1>1, RetainFacts
<1>4. Len(r) <= Len(lru) /\ \A x \in DOMAIN lru : lru[x] \notin S => Len(r) < Len(lru)
  BY <1>1, RetainLength
<1> HIDE DEF r
<1>5. Len(r) \in Nat /\ DOMAIN r = 1..Len(r)
  BY <1>2
<1>6. ASSUME NEW k \in Keys PROVE (\E i \in DOMAIN r : r[i] = k) <=> Present(k) /\ k \in S
  BY <1>2, <1>3 DEF Selects, Present
<1>7. ASSUME NEW i \in DOMAIN r, NEW j \in DOMAIN r, r[i] = r[j] PROVE i = j
  <2>1. lru[f[i]] = lru[f[j]]
    BY <1>3, <1>7 DEF Selects
  <2>2. f[i] = f[j] /\ f[i] \in Nat
    BY <1>1, <2>1 DEF CacheInv
  <2>3. ~ (i < j) /\ ~ (j < i)
    BY <1>3, <2>2 DEF Selects
  <2>4. QED
    BY <1>5, <2>3
<1>8. QED
  BY <1>2, <1>4, <1>5, <1>6, <1>7 DEF r, Present

\* A key that is pushed back at the end of the cache, after the keys in S.
LEMMA CacheAppend ==
    ASSUME TypeInv, TypeInv', CacheInv, NEW k \in Keys, NEW S, k \notin S,
           lru' = Append(Retain(lru, S), k)
    PROVE  /\ \A j \in Keys : Present(j)' <=> j = k \/ (Present(j) /\ j \in S)
           /\ \A i, j \in DOMAIN lru' : lru'[i] = lru'[j] => i = j
           /\ Len(lru') <= Len(lru) + 1
           /\ \A j \in Keys : Present(j) /\ j \notin S => Len(lru') <= Len(lru)
<1> DEFINE r == Retain(lru, S)
<1>1. /\ r \in Seq(Keys) /\ Len(r) \in Nat /\ DOMAIN r = 1..Len(r) /\ Len(r) <= Len(lru)
      /\ \A j \in Keys : (\E i \in DOMAIN r : r[i] = j) <=> Present(j) /\ j \in S
      /\ \A i, j \in DOMAIN r : r[i] = r[j] => i = j
      /\ \A j \in Keys : Present(j) /\ j \notin S => Len(r) < Len(lru)
  BY CacheRetain
<1>2. lru' = Append(r, k) /\ Len(lru) \in Nat
  BY IdleDomains
<1> HIDE DEF r
<1>3. /\ Len(lru') = Len(r) + 1 /\ DOMAIN lru' = 1..(Len(r) + 1)
      /\ \A i \in 1..Len(r) : lru'[i] = r[i]
      /\ lru'[Len(r) + 1] = k
  BY <1>1, <1>2
<1>4. ASSUME NEW j \in Keys PROVE Present(j)' <=> j = k \/ (Present(j) /\ j \in S)
  <2>1. Present(j)' <=> \E i \in 1..(Len(r) + 1) : lru'[i] = j
    BY <1>3 DEF Present
  <2>2. (\E i \in 1..(Len(r) + 1) : lru'[i] = j) <=> j = k \/ \E i \in 1..Len(r) : r[i] = j
    BY <1>1, <1>3
  <2>3. QED
    BY <1>1, <2>1, <2>2
<1>5. ASSUME NEW i \in DOMAIN lru', NEW j \in DOMAIN lru', lru'[i] = lru'[j] PROVE i = j
  <2>1. \A m \in 1..Len(r) : r[m] # k
    BY <1>1
  <2>2. QED
    BY <1>1, <1>3, <1>5, <2>1
<1>6. QED
  BY <1>1, <1>2, <1>3, <1>4, <1>5

\* put keeps the cache right: the key that is evicted goes with its list.
LEMMA CachePut ==
    ASSUME TypeInv, TypeInv', CacheInv, NEW k \in Keys, NEW c \in Conns, NEW shared \in BOOLEAN,
           PutIdle(k, c, shared)
    PROVE  CacheInv'
<1>1. CASE PutRejected(k, shared) \/ (~shared /\ Live(k) # {})
  BY <1>1 DEF PutIdle, CacheInv, Present
<1>2. CASE ~ (PutRejected(k, shared) \/ (~shared /\ Live(k) # {}))
  <2> DEFINE E == Evicted(k)
             S == Keys \ (E \cup {k})
             e == [conn |-> c, age |-> 0]
             kept == [j \in Keys |-> IF j \in E THEN <<>> ELSE idle[j]]
  <2>1. lru' = Append(Retain(lru, S), k)
    BY <1>2 DEF PutIdle
  <2>2. \/ Len(idle[k]) >= MaxIdle /\ idle' = kept
        \/ ~ (Len(idle[k]) >= MaxIdle) /\ idle' = [kept EXCEPT ![k] = Append(@, e)]
    BY <1>2 DEF PutIdle
  <2>3. /\ lru \in Seq(Keys) /\ Len(lru) \in Nat /\ DOMAIN lru = 1..Len(lru)
        /\ \A j \in Keys : /\ idle[j] \in Seq(IdleEntries) /\ Len(idle[j]) \in Nat
                           /\ idle[j] = <<>> <=> Len(idle[j]) = 0
    BY IdleDomains
  <2>4. MaxIdle \in Nat /\ MaxIdle # 0 /\ MaxPoolSize \in Nat
    BY PoolAssumption
  <2>5. /\ k \notin E /\ E \subseteq Keys
        /\ \A j \in E : Present(j)
        /\ E # {} => ~Present(k)
    BY <2>3, <2>4 DEF Evicted, Present
  <2>6. \/ Len(lru) < MaxPoolSize \/ MaxPoolSize = 0 \/ Present(k) \/ E # {}
    <3>1. SUFFICES ASSUME ~ (Len(lru) < MaxPoolSize), MaxPoolSize # 0, ~Present(k) PROVE E # {}
      OBVIOUS
    <3>2. 1 \in DOMAIN lru /\ lru[1] \in Keys
      BY <2>3, <2>4, <3>1
    <3>3. lru[1] \in E
      BY <2>3, <2>4, <3>1, <3>2 DEF Evicted
    <3>4. QED
      BY <3>3
  <2>7. k \notin S /\ \A j \in Keys : j \notin S <=> j = k \/ j \in E
    BY <2>5
  <2> HIDE DEF S, E
  <2>8. /\ \A j \in Keys : Present(j)' <=> j = k \/ (Present(j) /\ j \in S)
        /\ \A i, j \in DOMAIN lru' : lru'[i] = lru'[j] => i = j
        /\ Len(lru') <= Len(lru) + 1
        /\ \A j \in Keys : Present(j) /\ j \notin S => Len(lru') <= Len(lru)
    BY <2>1, <2>7, CacheAppend
  <2>9. Len(lru') \in Nat /\ (MaxPoolSize # 0 => Len(lru) <= MaxPoolSize)
    BY IdleDomains DEF CacheInv, TypeInv, TypeOK
  <2>10. MaxPoolSize # 0 => Len(lru') <= MaxPoolSize
    <3>1. Len(lru) < MaxPoolSize \/ MaxPoolSize = 0 \/ Len(lru') <= Len(lru)
      BY <2>5, <2>6, <2>7, <2>8
    <3>2. QED
      BY <2>3, <2>4, <2>8, <2>9, <3>1
  <2>11. \A j \in Keys : Present(j) <=> Len(idle[j]) # 0
    BY <2>3 DEF CacheInv
  <2>12. /\ Len(idle'[k]) # 0 /\ Len(idle'[k]) <= MaxIdle
    <3>1. kept[k] = idle[k]
      BY <2>5
    <3>2. CASE Len(idle[k]) >= MaxIdle
      BY <2>2, <2>3, <2>4, <3>1, <3>2 DEF CacheInv
    <3>3. CASE ~ (Len(idle[k]) >= MaxIdle)
      <4>1. idle'[k] = Append(idle[k], e) /\ Len(idle[k]) < MaxIdle
        BY <2>2, <2>3, <2>4, <3>1, <3>3
      <4>2. Len(idle'[k]) = Len(idle[k]) + 1
        BY <2>3, <4>1, AppendProperties, ClockTypes DEF IdleEntries
      <4>3. QED
        BY <2>3, <2>4, <4>1, <4>2
    <3>4. QED
      BY <3>2, <3>3
  <2>13. ASSUME NEW j \in Keys, j # k
         PROVE  Len(idle'[j]) <= MaxIdle /\ (Len(idle'[j]) # 0 <=> Present(j) /\ j \notin E)
    <3>1. idle'[j] = IF j \in E THEN <<>> ELSE idle[j]
      BY <2>2, <2>13
    <3>2. CASE j \in E
      BY <2>4, <3>1, <3>2
    <3>3. CASE j \notin E
      BY <2>11, <3>1, <3>3 DEF CacheInv
    <3>4. QED
      BY <3>2, <3>3
  <2>14. \A j \in Keys : Len(idle'[j]) <= MaxIdle
    BY <2>12, <2>13
  <2>15. \A j \in Keys : Present(j)' <=> idle'[j] # <<>>
    <3>1. \A j \in Keys : idle'[j] = <<>> <=> Len(idle'[j]) = 0
      BY EmptySeq DEF TypeInv, TypeOK
    <3>2. \A j \in Keys : Present(j)' <=> Len(idle'[j]) # 0
      BY <2>7, <2>8, <2>12, <2>13
    <3>3. QED
      BY <3>1, <3>2
  <2>16. QED
    BY <2>8, <2>10, <2>14, <2>15 DEF CacheInv
<1>3. QED
  BY <1>1, <1>2

\* A key that leaves the cache together with its list.
LEMMA CacheRemove ==
    ASSUME TypeInv, TypeInv', CacheInv, NEW S,
           lru' = Retain(lru, S),
           \A k \in Keys : Len(idle'[k]) <= Len(idle[k]),
           \A k \in Keys : idle'[k] # <<>> <=> idle[k] # <<>> /\ k \in S
    PROVE  CacheInv'
<1>1. /\ Len(lru') \in Nat /\ Len(lru') <= Len(lru) /\ Len(lru) \in Nat
      /\ \A k \in Keys : Present(k)' <=> Present(k) /\ k \in S
      /\ \A i, j \in DOMAIN lru' : lru'[i] = lru'[j] => i = j
  BY CacheRetain, IdleDomains DEF Present
<1>2. MaxPoolSize # 0 => Len(lru') <= MaxPoolSize
  BY <1>1, PoolAssumption DEF CacheInv
<1>3. \A k \in Keys : Len(idle'[k]) <= MaxIdle
  <2>1. \A k \in Keys : Len(idle[k]) \in Nat /\ Len(idle'[k]) \in Nat
    BY DEF TypeInv, TypeOK
  <2>2. QED
    BY <2>1, PoolAssumption DEF CacheInv
<1>4. QED
  BY <1>1, <1>2, <1>3 DEF CacheInv

\* Every step keeps the cache right.
LEMMA CacheStep == TypeInv /\ CacheInv /\ [PoolNext]_poolVars => CacheInv'
<1> SUFFICES ASSUME TypeInv, CacheInv, [PoolNext]_poolVars PROVE CacheInv'
  OBVIOUS
<1>0. TypeInv'
  BY TypeStep
<1> USE DEF innerVars, connVars, outVars
<1>1. CASE UNCHANGED <<idle, lru>>
  BY <1>1 DEF CacheInv, Present
<1>2. ASSUME NEW o \in Checkouts, NEW k \in Keys, CheckoutIdle(o, k) PROVE CacheInv'
  <2> DEFINE i == Last(Usable(k))
             c == idle[k][i].conn
             e == [conn |-> c, age |-> 0]
             rest == SubSeq(idle[k], 1, i - 1)
             list == IF h2[c] THEN Append(rest, e) ELSE rest
             keys == Retain(lru, Keys \ {k})
  <2>1. /\ idle' = [idle EXCEPT ![k] = list]
        /\ lru' = IF list = <<>> THEN keys ELSE Append(keys, k)
        /\ Usable(k) # {}
    BY <1>2 DEF CheckoutIdle
  <2>2. idle[k] \in Seq(IdleEntries) /\ Len(idle[k]) \in Nat /\ DOMAIN idle[k] = 1..Len(idle[k])
    BY IdleDomains
  <2>3. i \in 1..Len(idle[k]) /\ c \in Conns
    <3>1. Usable(k) \in SUBSET (1..Len(idle[k]))
      BY <2>2 DEF Usable
    <3>2. i \in 1..Len(idle[k])
      BY <2>1, <2>2, <3>1, FirstLast
    <3> HIDE DEF i
    <3>3. QED
      BY <2>2, <3>2, IdleConns
  <2>4. e \in IdleEntries
    BY <2>3, ClockTypes DEF IdleEntries
  <2> HIDE DEF i, c, e
  <2>5. rest \in Seq(IdleEntries) /\ Len(rest) = i - 1
    <3>1. \A p \in 1..(i - 1) : idle[k][p] \in IdleEntries
      BY <2>2, <2>3
    <3>2. QED
      BY <2>2, <2>3, <3>1, SubSeqProperties
  <2>6. list \in Seq(IdleEntries) /\ Len(list) <= Len(idle[k]) /\ Len(list) \in Nat
    <3> HIDE DEF rest
    <3>1. Append(rest, e) \in Seq(IdleEntries) /\ Len(Append(rest, e)) = i
      BY <2>3, <2>4, <2>5, AppendProperties
    <3>2. QED
      BY <2>2, <2>3, <2>5, <3>1
  <2> HIDE DEF rest, list
  <2>7. idle'[k] = list /\ \A j \in Keys : j # k => idle'[j] = idle[j]
    BY <2>1 DEF TypeInv, TypeOK
  <2>8. idle[k] # <<>> /\ Present(k)
    BY <2>2, <2>3 DEF CacheInv
  <2>9. CASE list = <<>>
    <3>1. \A j \in Keys : Len(idle'[j]) <= Len(idle[j])
      <4>1. \A j \in Keys : Len(idle[j]) \in Nat
        BY IdleDomains
      <4>2. QED
        BY <2>6, <2>7, <4>1
    <3>2. \A j \in Keys : idle'[j] # <<>> <=> idle[j] # <<>> /\ j \in Keys \ {k}
      BY <2>7, <2>9
    <3>3. QED
      BY <1>0, <2>1, <2>9, <3>1, <3>2, CacheRemove
  <2>10. CASE list # <<>>
    <3>1. lru' = Append(Retain(lru, Keys \ {k}), k)
      BY <2>1, <2>10
    <3>2. /\ \A j \in Keys : Present(j)' <=> j = k \/ (Present(j) /\ j \in Keys \ {k})
          /\ \A m, n \in DOMAIN lru' : lru'[m] = lru'[n] => m = n
          /\ Len(lru') <= Len(lru)
      <4> DEFINE S == Keys \ {k}
      <4>1. k \notin S /\ lru' = Append(Retain(lru, S), k)
        BY <3>1
      <4> HIDE DEF S
      <4>2. /\ \A j \in Keys : Present(j)' <=> j = k \/ (Present(j) /\ j \in S)
            /\ \A m, n \in DOMAIN lru' : lru'[m] = lru'[n] => m = n
            /\ \A j \in Keys : Present(j) /\ j \notin S => Len(lru') <= Len(lru)
        BY <1>0, <4>1, CacheAppend
      <4>3. QED
        BY <2>8, <4>1, <4>2 DEF S
    <3>3. \A j \in Keys : Present(j)' <=> idle'[j] # <<>>
      BY <2>7, <2>10, <3>2 DEF CacheInv
    <3>4. \A j \in Keys : Len(idle'[j]) <= MaxIdle
      <4>1. Len(idle[k]) <= MaxIdle /\ MaxIdle \in Nat
        BY PoolAssumption DEF CacheInv
      <4>2. Len(list) <= MaxIdle
        BY <2>2, <2>6, <4>1
      <4>3. QED
        BY <2>7, <4>2 DEF CacheInv
    <3>5. MaxPoolSize # 0 => Len(lru') <= MaxPoolSize
      <4>1. Len(lru) \in Nat /\ Len(lru') \in Nat /\ MaxPoolSize \in Nat
        BY <1>0, PoolAssumption DEF TypeInv, TypeOK
      <4>2. QED
        BY <3>2, <4>1 DEF CacheInv
    <3>6. QED
      BY <3>2, <3>3, <3>4, <3>5 DEF CacheInv
  <2>11. QED
    BY <2>9, <2>10
<1>3. ASSUME NEW o \in Checkouts, NEW k \in Keys, CheckoutWait(o, k) PROVE CacheInv'
  <2>1. idle' = [idle EXCEPT ![k] = <<>>] /\ lru' = Retain(lru, Keys \ {k})
    BY <1>3 DEF CheckoutWait
  <2>2. idle'[k] = <<>> /\ \A j \in Keys : j # k => idle'[j] = idle[j]
    BY <2>1 DEF TypeInv, TypeOK
  <2>3. \A j \in Keys : Len(idle'[j]) <= Len(idle[j])
    <3>1. \A j \in Keys : Len(idle[j]) \in Nat
      BY IdleDomains
    <3>2. QED
      BY <2>2, <3>1
  <2>4. \A j \in Keys : idle'[j] # <<>> <=> idle[j] # <<>> /\ j \in Keys \ {k}
    BY <2>2
  <2>5. QED
    BY <1>0, <2>1, <2>3, <2>4, CacheRemove
<1>4. ASSUME NEW c \in Conns, PooledShared(c) PROVE CacheInv'
  <2>1. ckey[c] \in Keys /\ PutIdle(ckey[c], c, TRUE)
    BY <1>4 DEF PooledShared, TypeInv, WellFormed
  <2>2. QED
    BY <1>0, <2>1, CachePut
<1>5. ASSUME NEW c \in Conns, PooledDrop(c) PROVE CacheInv'
  <2>1. ckey[c] \in Keys
    BY <1>5 DEF PooledDrop, TypeInv, TypeOK, WellFormed, Established
  <2>2. UNCHANGED <<idle, lru>> \/ PutIdle(ckey[c], c, FALSE)
    BY <1>5 DEF PooledDrop
  <2>3. QED
    BY <1>0, <1>1, <2>1, <2>2, CachePut
<1>6. ASSUME NEW o \in Checkouts, PooledDropReused(o) PROVE CacheInv'
  <2>1. okey[o] \in Keys /\ cconn[o] \in Conns
    BY <1>6 DEF PooledDropReused, TypeInv, TypeOK, WellFormed
  <2>2. UNCHANGED <<idle, lru>> \/ PutIdle(okey[o], cconn[o], FALSE)
    BY <1>6 DEF PooledDropReused
  <2>3. QED
    BY <1>0, <1>1, <2>1, <2>2, CachePut
<1>7. CASE Tick
  <2>1. lru' = lru /\ idle' = [k \in Keys |-> [i \in DOMAIN idle[k] |-> Older(idle[k][i])]]
    BY <1>7 DEF Tick
  <2>2. \A k \in Keys : DOMAIN idle'[k] = DOMAIN idle[k]
    BY <2>1
  <2>3. \A k \in Keys : Len(idle'[k]) = Len(idle[k]) /\ (idle'[k] = <<>> <=> idle[k] = <<>>)
    <3> SUFFICES ASSUME NEW k \in Keys
                 PROVE  Len(idle'[k]) = Len(idle[k]) /\ (idle'[k] = <<>> <=> idle[k] = <<>>)
      OBVIOUS
    <3>1. idle[k] \in Seq(IdleEntries) /\ idle'[k] \in Seq(IdleEntries) /\ DOMAIN idle'[k] = DOMAIN idle[k]
      BY <1>0, <2>2 DEF TypeInv, TypeOK
    <3>2. QED
      BY <3>1, LenProperties, EmptySeq
  <2>4. QED
    BY <2>1, <2>3 DEF CacheInv, Present
<1>8. CASE ClearExpired
  <2> DEFINE S == {e \in IdleEntries : IsOpen(e.conn) /\ ~Expires(e)}
             K == {k \in Keys : Retained(k) # <<>>}
  <2>1. /\ lru' = Retain(lru, K)
        /\ \A k \in Keys : idle'[k] = Retained(k) /\ Retained(k) = Retain(idle[k], S)
    BY <1>8 DEF ClearExpired, Retained
  <2> HIDE DEF S
  <2>2. \A k \in Keys : Len(idle'[k]) <= Len(idle[k])
    BY <2>1, IdleDomains, RetainLength
  <2>3. \A k \in Keys : Len(idle'[k]) \in Nat /\ (idle'[k] = <<>> <=> Len(idle'[k]) = 0)
    BY <1>0, EmptySeq, LenProperties DEF TypeInv, TypeOK
  <2>4. \A k \in Keys : Len(idle[k]) \in Nat /\ (idle[k] = <<>> <=> Len(idle[k]) = 0)
    BY IdleDomains
  <2>5. \A k \in Keys : idle'[k] # <<>> => idle[k] # <<>>
    BY <2>2, <2>3, <2>4
  <2>6. \A k \in Keys : idle'[k] # <<>> <=> idle[k] # <<>> /\ k \in K
    BY <2>1, <2>5
  <2> HIDE DEF K
  <2>7. QED
    BY <1>0, <2>1, <2>2, <2>6, CacheRemove
<1>9. CASE DropPool
  <2>1. lru' = <<>> /\ \A k \in Keys : idle'[k] = <<>>
    BY <1>9 DEF DropPool
  <2>2. QED
    BY <2>1, PoolAssumption DEF CacheInv, Present
<1>10. QED
  <2>1. ASSUME NEW c \in Conns,
               \/ \E k \in Keys : Connecting(c, k) \/ ConnectingH2(c, k)
               \/ AlpnH2(c) \/ ConnectingDrop(c) \/ ConnectingDropLocked(c) \/ PooledUnique(c)
        PROVE  UNCHANGED <<idle, lru>>
    BY <2>1 DEF Connecting, ConnectingH2, AlpnH2, ConnectingDrop, ConnectingDropLocked, PooledUnique
  <2>2. ASSUME NEW c \in Conns, StartExchange(c) \/ EndExchange(c) \/ Close(c) \/ Poison(c) \/ Vanish(c)
        PROVE  UNCHANGED <<idle, lru>>
    BY <2>2 DEF StartExchange, EndExchange, Close, Poison, Vanish
  <2>3. ASSUME NEW o \in Checkouts,
               \/ WaiterServed(o) \/ WaiterGetsClosed(o) \/ WaiterCanceled(o)
               \/ CheckoutDrop(o) \/ CleanWaiters(o)
        PROVE  UNCHANGED <<idle, lru>>
    BY <2>3 DEF WaiterServed, WaiterGetsClosed, WaiterCanceled, CheckoutDrop, CleanWaiters
  <2>4. ASSUME IdleTaskEnds \/ UNCHANGED poolVars PROVE UNCHANGED <<idle, lru>>
    BY <2>4 DEF IdleTaskEnds, poolVars
  <2>5. QED
    BY <1>1, <1>2, <1>3, <1>4, <1>5, <1>6, <1>7, <1>8, <1>9, <2>1, <2>2, <2>3, <2>4
       DEF PoolNext, CheckoutNext, ConnNext

\* No checkout ever waits while its key has idle connections, the LruCache has
\* exactly the non-empty lists, and both limits of the configuration hold, for
\* every number of hosts, connections and requests.
THEOREM IdleSafety == PoolSpec => []IdleInv
<1>1. Init => NoIdleWhileWaiting /\ CacheInv
  BY PoolAssumption DEF Init, NoIdleWhileWaiting, CacheInv, Present
<1>2. QED
  BY <1>1, WaitingStep, CacheStep, TypeInvariant, QueueInvariant, PTL DEF PoolSpec, IdleInv

-----------------------------------------------------------------------------
(***************************************************************************)
(* Expiry.                                                                 *)
(***************************************************************************)
\* Once the pool is gone nothing is idle and nothing is being connected: what
\* lets the idle task end.
GoneInv ==
    ~alive => /\ \A k \in Keys : idle[k] = <<>>
              /\ \A c \in Conns : phase[c] \notin {"connecting", "locked"}

\* Every step keeps a pool that is gone empty.
LEMMA GoneStep == TypeInv /\ GoneInv /\ [PoolNext]_poolVars => GoneInv'
<1> SUFFICES ASSUME TypeInv, GoneInv, [PoolNext]_poolVars PROVE GoneInv'
  OBVIOUS
<1> USE DEF innerVars, connVars, outVars
<1>1. ASSUME idle' = idle, alive' = alive,
             \A c \in Conns : phase'[c] \in {"connecting", "locked"} => phase[c] \in {"connecting", "locked"}
      PROVE  GoneInv'
  BY <1>1 DEF GoneInv
<1>2. ASSUME alive, alive' = alive PROVE GoneInv'
  BY <1>2 DEF GoneInv
<1>3. ASSUME NEW o \in Checkouts, CheckoutNext(o) PROVE GoneInv'
  <2>1. CASE \E k \in Keys : CheckoutIdle(o, k) \/ CheckoutWait(o, k)
    BY <1>2, <2>1 DEF CheckoutIdle, CheckoutWait
  <2>2. CASE \/ WaiterServed(o) \/ WaiterGetsClosed(o) \/ WaiterCanceled(o)
             \/ CheckoutDrop(o) \/ CleanWaiters(o)
    BY <1>1, <2>2 DEF WaiterServed, WaiterGetsClosed, WaiterCanceled, CheckoutDrop, CleanWaiters
  <2>3. CASE PooledDropReused(o)
    <3>1. alive' = alive /\ phase' = phase
      BY <2>3 DEF PooledDropReused
    <3>2. alive \/ idle' = idle
      BY <2>3 DEF PooledDropReused, Reinserted
    <3>3. QED
      BY <1>1, <1>2, <3>1, <3>2
  <2>4. QED
    BY <1>3, <2>1, <2>2, <2>3 DEF CheckoutNext
<1>4. ASSUME NEW c \in Conns, ConnNext(c) PROVE GoneInv'
  <2>1. CASE \E k \in Keys : Connecting(c, k) \/ ConnectingH2(c, k)
    BY <1>2, <2>1 DEF Connecting, ConnectingH2
  <2>2. CASE AlpnH2(c) \/ ConnectingDrop(c) \/ ConnectingDropLocked(c) \/ PooledUnique(c)
    BY <1>1, <2>2 DEF AlpnH2, ConnectingDrop, ConnectingDropLocked, PooledUnique, TypeInv, TypeOK
  <2>3. CASE PooledShared(c)
    <3>1. alive' = alive /\ phase[c] = "locked"
      BY <2>3 DEF PooledShared
    <3>2. QED
      BY <1>2, <3>1 DEF GoneInv
  <2>4. CASE PooledDrop(c)
    <3>1. alive' = alive /\ phase' = phase
      BY <2>4 DEF PooledDrop
    <3>2. alive \/ idle' = idle
      BY <2>4 DEF PooledDrop, Reinserted
    <3>3. QED
      BY <1>1, <1>2, <3>1, <3>2
  <2>5. CASE StartExchange(c) \/ EndExchange(c) \/ Close(c) \/ Poison(c) \/ Vanish(c)
    BY <1>1, <2>5 DEF StartExchange, EndExchange, Close, Poison, Vanish, TypeInv, TypeOK
  <2>6. QED
    BY <1>4, <2>1, <2>2, <2>3, <2>4, <2>5 DEF ConnNext
<1>5. CASE Tick
  BY <1>5 DEF Tick, GoneInv
<1>6. CASE ClearExpired
  BY <1>2, <1>6 DEF ClearExpired
<1>7. CASE DropPool
  BY <1>7 DEF DropPool, GoneInv
<1>8. CASE IdleTaskEnds \/ UNCHANGED poolVars
  BY <1>1, <1>8 DEF IdleTaskEnds, poolVars
<1>9. QED
  BY <1>3, <1>4, <1>5, <1>6, <1>7, <1>8 DEF PoolNext

\* An idle task that can enforce a timeout runs as soon as something is put.
LEMMA WatchPut ==
    ASSUME TypeInv, IdleWatched, NEW k \in Keys, NEW c \in Conns, NEW shared \in BOOLEAN,
           PutIdle(k, c, shared)
    PROVE  IdleWatched'
<1>1. CASE PutRejected(k, shared) \/ (~shared /\ Live(k) # {})
  BY <1>1 DEF PutIdle, IdleWatched
<1>2. CASE ~ (PutRejected(k, shared) \/ (~shared /\ Live(k) # {}))
  <2> DEFINE kept == [j \in Keys |-> IF j \in Evicted(k) THEN <<>> ELSE idle[j]]
  <2>1. \/ idle' = kept /\ interval' = interval
        \/ SpawnIdleInterval
    BY <1>2 DEF PutIdle
  <2>2. CASE SpawnIdleInterval
    BY <2>2, PoolAssumption DEF SpawnIdleInterval, IdleWatched, NoTimeout, TypeInv, TypeOK
  <2>3. CASE idle' = kept /\ interval' = interval
    BY <2>3 DEF IdleWatched
  <2>4. QED
    BY <2>1, <2>2, <2>3
<1>3. QED
  BY <1>1, <1>2

\* Every step keeps idle connections watched.
LEMMA WatchStep ==
    TypeInv /\ GoneInv /\ IdleWatched /\ [PoolNext]_poolVars => IdleWatched'
<1> SUFFICES ASSUME TypeInv, GoneInv, IdleWatched, [PoolNext]_poolVars PROVE IdleWatched'
  OBVIOUS
<1> USE DEF innerVars, connVars, outVars
<1>1. ASSUME interval' = interval, \A k \in Keys : idle'[k] # <<>> => idle[k] # <<>>
      PROVE  IdleWatched'
  BY <1>1 DEF IdleWatched
<1>2. ASSUME NEW o \in Checkouts, CheckoutNext(o) PROVE IdleWatched'
  <2>1. ASSUME NEW k \in Keys, CheckoutIdle(o, k) PROVE IdleWatched'
    <3>1. interval' = interval /\ Usable(k) # {} /\ \E list : idle' = [idle EXCEPT ![k] = list]
      BY <2>1 DEF CheckoutIdle
    <3>2. idle[k] # <<>>
      BY <3>1 DEF Usable
    <3>3. \A j \in Keys : j # k => idle'[j] = idle[j]
      BY <3>1 DEF TypeInv, TypeOK
    <3>4. QED
      BY <1>1, <3>1, <3>2, <3>3
  <2>2. ASSUME NEW k \in Keys, CheckoutWait(o, k) PROVE IdleWatched'
    BY <1>1, <2>2 DEF CheckoutWait, TypeInv, TypeOK
  <2>3. CASE \/ WaiterServed(o) \/ WaiterGetsClosed(o) \/ WaiterCanceled(o)
             \/ CheckoutDrop(o) \/ CleanWaiters(o)
    BY <1>1, <2>3 DEF WaiterServed, WaiterGetsClosed, WaiterCanceled, CheckoutDrop, CleanWaiters
  <2>4. CASE PooledDropReused(o)
    <3>1. okey[o] \in Keys /\ cconn[o] \in Conns
      BY <2>4 DEF PooledDropReused, TypeInv, TypeOK, WellFormed
    <3>2. UNCHANGED <<idle, interval>> \/ PutIdle(okey[o], cconn[o], FALSE)
      BY <2>4 DEF PooledDropReused
    <3>3. QED
      BY <1>1, <3>1, <3>2, WatchPut
  <2>5. QED
    BY <1>2, <2>1, <2>2, <2>3, <2>4 DEF CheckoutNext
<1>3. ASSUME NEW c \in Conns, ConnNext(c) PROVE IdleWatched'
  <2>1. CASE \/ \E k \in Keys : Connecting(c, k) \/ ConnectingH2(c, k)
             \/ AlpnH2(c) \/ ConnectingDrop(c) \/ ConnectingDropLocked(c) \/ PooledUnique(c)
    BY <1>1, <2>1 DEF Connecting, ConnectingH2, AlpnH2, ConnectingDrop, ConnectingDropLocked, PooledUnique
  <2>2. CASE PooledShared(c)
    <3>1. ckey[c] \in Keys /\ PutIdle(ckey[c], c, TRUE)
      BY <2>2 DEF PooledShared, TypeInv, WellFormed
    <3>2. QED
      BY <3>1, WatchPut
  <2>3. CASE PooledDrop(c)
    <3>1. ckey[c] \in Keys
      BY <2>3 DEF PooledDrop, TypeInv, TypeOK, WellFormed, Established
    <3>2. UNCHANGED <<idle, interval>> \/ PutIdle(ckey[c], c, FALSE)
      BY <2>3 DEF PooledDrop
    <3>3. QED
      BY <1>1, <3>1, <3>2, WatchPut
  <2>4. CASE StartExchange(c) \/ EndExchange(c) \/ Close(c) \/ Poison(c) \/ Vanish(c)
    BY <1>1, <2>4 DEF StartExchange, EndExchange, Close, Poison, Vanish
  <2>5. QED
    BY <1>3, <2>1, <2>2, <2>3, <2>4 DEF ConnNext
<1>4. CASE Tick
  BY <1>1, <1>4 DEF Tick
<1>5. CASE ClearExpired
  BY <1>5 DEF ClearExpired, IdleWatched
<1>6. CASE DropPool
  BY <1>1, <1>6 DEF DropPool
<1>7. CASE IdleTaskEnds
  BY <1>7 DEF IdleTaskEnds, GoneInv, IdleWatched
<1>8. CASE UNCHANGED poolVars
  BY <1>1, <1>8 DEF poolVars
<1>9. QED
  BY <1>2, <1>3, <1>4, <1>5, <1>6, <1>7, <1>8 DEF PoolNext

\* The entries of a list.
LEMMA IdleAges ==
    ASSUME TypeInv, NEW k \in Keys, NEW i \in DOMAIN idle[k]
    PROVE  idle[k][i] \in IdleEntries /\ idle[k][i].age \in Nat
<1>1. idle[k] \in Seq(IdleEntries)
  BY DEF TypeInv, TypeOK
<1>2. idle[k][i] \in IdleEntries
  BY <1>1
<1>3. QED
  BY <1>2, ClockTypes DEF IdleEntries

\* Entries that age keep their order.
LEMMA OlderMonotone ==
    ASSUME NEW d \in IdleEntries, NEW e \in IdleEntries, d.age >= e.age
    PROVE  Older(d).age >= Older(e).age
<1>1. PICK c \in Conns, a \in 0..AgeCap : d = [conn |-> c, age |-> a]
  BY DEF IdleEntries
<1>2. PICK m \in Conns, b \in 0..AgeCap : e = [conn |-> m, age |-> b]
  BY DEF IdleEntries
<1>3. /\ Older(d).age = IF a < AgeCap THEN a + 1 ELSE a
      /\ Older(e).age = IF b < AgeCap THEN b + 1 ELSE b
      /\ a >= b
  BY <1>1, <1>2 DEF Older
<1>4. QED
  BY <1>3, ClockTypes

\* A list in which old entries keep their places, and a new one comes last, is
\* still sorted.
LEMMA SortedLast ==
    ASSUME TypeInv, TypeInv', IdleSorted, NEW k \in Keys, NEW n \in Nat,
           \A i \in DOMAIN idle'[k] :
              \/ i \in DOMAIN idle[k] /\ idle'[k][i] = idle[k][i]
              \/ i = n /\ idle'[k][i].age = 0,
           \A i \in DOMAIN idle'[k] : i <= n
    PROVE  \A i, j \in DOMAIN idle'[k] : i < j => idle'[k][i].age >= idle'[k][j].age
<1> SUFFICES ASSUME NEW i \in DOMAIN idle'[k], NEW j \in DOMAIN idle'[k], i < j
             PROVE  idle'[k][i].age >= idle'[k][j].age
  OBVIOUS
<1>1. DOMAIN idle'[k] \subseteq Nat
  BY DEF TypeInv, TypeOK
<1>2. i # n
  BY <1>1
<1>3. i \in DOMAIN idle[k] /\ idle'[k][i] = idle[k][i] /\ idle[k][i].age \in Nat
  BY <1>2, IdleAges
<1>4. CASE j \in DOMAIN idle[k] /\ idle'[k][j] = idle[k][j]
  BY <1>3, <1>4 DEF IdleSorted
<1>5. CASE idle'[k][j].age = 0
  BY <1>3, <1>5
<1>6. QED
  BY <1>4, <1>5

\* A put appends the youngest entry.
LEMMA SortedPut ==
    ASSUME TypeInv, TypeInv', IdleSorted, NEW k \in Keys, NEW c \in Conns, NEW shared \in BOOLEAN,
           PutIdle(k, c, shared)
    PROVE  IdleSorted'
<1>1. PutsAt(k, c)
  BY PutIdleFacts DEF TypeInv, TypeOK, IdleType
<1>2. ASSUME NEW j \in Keys
      PROVE  \A m, n \in DOMAIN idle'[j] : m < n => idle'[j][m].age >= idle'[j][n].age
  <2>1. Len(idle'[j]) \in Nat /\ DOMAIN idle'[j] = 1..Len(idle'[j])
    BY DEF TypeInv, TypeOK
  <2>2. \A i \in DOMAIN idle'[j] : i <= Len(idle'[j])
    BY <2>1
  <2>3. \A i \in DOMAIN idle'[j] :
           \/ i \in DOMAIN idle[j] /\ idle'[j][i] = idle[j][i]
           \/ i = Len(idle'[j]) /\ idle'[j][i].age = 0
    BY <1>1 DEF PutsAt
  <2>4. QED
    BY <2>1, <2>2, <2>3, SortedLast
<1>3. QED
  BY <1>2 DEF IdleSorted

\* Every step keeps the lists sorted by age.
LEMMA SortedStep == TypeInv /\ IdleSorted /\ [PoolNext]_poolVars => IdleSorted'
<1> SUFFICES ASSUME TypeInv, IdleSorted, [PoolNext]_poolVars PROVE IdleSorted'
  OBVIOUS
<1>0. TypeInv'
  BY TypeStep
<1> USE DEF innerVars, connVars, outVars
<1>1. CASE idle' = idle
  BY <1>1 DEF IdleSorted
<1>2. ASSUME NEW o \in Checkouts, CheckoutNext(o) PROVE IdleSorted'
  <2>1. ASSUME NEW k \in Keys, CheckoutIdle(o, k) PROVE IdleSorted'
    <3>1. PICK i \in DOMAIN idle[k], c \in Conns : Takes(o, k, i, c)
      BY <2>1, CheckoutIdleFacts DEF TypeInv, TypeOK, IdleType
    <3>2. i \in Nat /\ \A p \in DOMAIN idle[k] : p \in Nat
      BY DEF TypeInv, TypeOK
    <3>3. /\ \A p \in DOMAIN idle'[k] :
                \/ p \in DOMAIN idle[k] /\ idle'[k][p] = idle[k][p]
                \/ p = i /\ idle'[k][p].age = 0
          /\ \A p \in DOMAIN idle'[k] : p <= i
          /\ \A j \in Keys : j # k => idle'[j] = idle[j]
      BY <3>1, <3>2 DEF Takes
    <3>4. \A m, n \in DOMAIN idle'[k] : m < n => idle'[k][m].age >= idle'[k][n].age
      BY <1>0, <3>2, <3>3, SortedLast
    <3>5. ASSUME NEW j \in Keys, j # k
          PROVE  \A m, n \in DOMAIN idle'[j] : m < n => idle'[j][m].age >= idle'[j][n].age
      <4>1. idle'[j] = idle[j]
        BY <3>3, <3>5
      <4>2. QED
        BY <4>1 DEF IdleSorted
    <3>6. QED
      BY <3>4, <3>5 DEF IdleSorted
  <2>2. ASSUME NEW k \in Keys, CheckoutWait(o, k) PROVE IdleSorted'
    <3>1. \A j \in Keys : idle'[j] = idle[j] \/ idle'[j] = <<>>
      BY <2>2 DEF CheckoutWait, TypeInv, TypeOK
    <3>2. QED
      BY <3>1 DEF IdleSorted
  <2>3. CASE \/ WaiterServed(o) \/ WaiterGetsClosed(o) \/ WaiterCanceled(o)
             \/ CheckoutDrop(o) \/ CleanWaiters(o)
    BY <1>1, <2>3 DEF WaiterServed, WaiterGetsClosed, WaiterCanceled, CheckoutDrop, CleanWaiters
  <2>4. CASE PooledDropReused(o)
    <3>1. okey[o] \in Keys /\ cconn[o] \in Conns
      BY <2>4 DEF PooledDropReused, TypeInv, TypeOK, WellFormed
    <3>2. idle' = idle \/ PutIdle(okey[o], cconn[o], FALSE)
      BY <2>4 DEF PooledDropReused
    <3>3. QED
      BY <1>0, <1>1, <3>1, <3>2, SortedPut
  <2>5. QED
    BY <1>2, <2>1, <2>2, <2>3, <2>4 DEF CheckoutNext
<1>3. ASSUME NEW c \in Conns, ConnNext(c) PROVE IdleSorted'
  <2>1. CASE \/ \E k \in Keys : Connecting(c, k) \/ ConnectingH2(c, k)
             \/ AlpnH2(c) \/ ConnectingDrop(c) \/ ConnectingDropLocked(c) \/ PooledUnique(c)
    BY <1>1, <2>1 DEF Connecting, ConnectingH2, AlpnH2, ConnectingDrop, ConnectingDropLocked, PooledUnique
  <2>2. CASE PooledShared(c)
    <3>1. ckey[c] \in Keys /\ PutIdle(ckey[c], c, TRUE)
      BY <2>2 DEF PooledShared, TypeInv, WellFormed
    <3>2. QED
      BY <1>0, <3>1, SortedPut
  <2>3. CASE PooledDrop(c)
    <3>1. ckey[c] \in Keys
      BY <2>3 DEF PooledDrop, TypeInv, TypeOK, WellFormed, Established
    <3>2. idle' = idle \/ PutIdle(ckey[c], c, FALSE)
      BY <2>3 DEF PooledDrop
    <3>3. QED
      BY <1>0, <1>1, <3>1, <3>2, SortedPut
  <2>4. CASE StartExchange(c) \/ EndExchange(c) \/ Close(c) \/ Poison(c) \/ Vanish(c)
    BY <1>1, <2>4 DEF StartExchange, EndExchange, Close, Poison, Vanish
  <2>5. QED
    BY <1>3, <2>1, <2>2, <2>3, <2>4 DEF ConnNext
<1>4. ASSUME Tick, NEW k \in Keys, NEW i \in DOMAIN idle'[k], NEW j \in DOMAIN idle'[k], i < j
      PROVE  idle'[k][i].age >= idle'[k][j].age
  <2>1. idle'[k] = [p \in DOMAIN idle[k] |-> Older(idle[k][p])]
    BY <1>4 DEF Tick
  <2>2. /\ i \in DOMAIN idle[k] /\ j \in DOMAIN idle[k]
        /\ idle'[k][i] = Older(idle[k][i]) /\ idle'[k][j] = Older(idle[k][j])
    BY <1>4, <2>1
  <2>3. idle[k][i] \in IdleEntries /\ idle[k][j] \in IdleEntries /\ idle[k][i].age >= idle[k][j].age
    BY <1>4, <2>2, IdleAges DEF IdleSorted
  <2>4. QED
    BY <2>2, <2>3, OlderMonotone
<1>5. ASSUME ClearExpired, NEW k \in Keys, NEW i \in DOMAIN idle'[k], NEW j \in DOMAIN idle'[k], i < j
      PROVE  idle'[k][i].age >= idle'[k][j].age
  <2> DEFINE S == {e \in IdleEntries : IsOpen(e.conn) /\ ~Expires(e)}
  <2>1. idle'[k] = Retain(idle[k], S) /\ idle[k] \in Seq(IdleEntries)
    BY <1>5 DEF ClearExpired, Retained, TypeInv, TypeOK
  <2> HIDE DEF S
  <2>2. PICK f \in [DOMAIN idle'[k] -> DOMAIN idle[k]] : Selects(f, idle'[k], idle[k], S)
    BY <2>1, RetainFacts
  <2>3. /\ idle'[k][i] = idle[k][f[i]] /\ idle'[k][j] = idle[k][f[j]]
        /\ f[i] \in DOMAIN idle[k] /\ f[j] \in DOMAIN idle[k] /\ f[i] < f[j]
    BY <1>5, <2>2 DEF Selects
  <2>4. QED
    BY <2>3 DEF IdleSorted
<1>6. CASE DropPool
  <2>1. \A k \in Keys : DOMAIN idle'[k] = {}
    BY <1>6 DEF DropPool
  <2>2. QED
    BY <2>1 DEF IdleSorted
<1>7. CASE IdleTaskEnds \/ UNCHANGED poolVars
  BY <1>1, <1>7 DEF IdleTaskEnds, poolVars
<1>8. QED
  <2>1. CASE Tick
    BY <1>4, <2>1 DEF IdleSorted
  <2>2. CASE ClearExpired
    BY <1>5, <2>2 DEF IdleSorted
  <2>3. QED
    BY <1>2, <1>3, <1>6, <1>7, <2>1, <2>2 DEF PoolNext

\* What the TODO in IdlePopper::pop asks holds: every list is always sorted by
\* age, and whatever is idle under a timeout is watched by the idle task, also
\* while the pool and the task end.
THEOREM ExpirySafety == PoolSpec => []ExpiryInv
<1>1. Init => GoneInv /\ IdleWatched /\ IdleSorted
  BY DEF Init, GoneInv, IdleWatched, IdleSorted
<1>2. QED
  BY <1>1, GoneStep, WatchStep, SortedStep, TypeInvariant, PTL DEF PoolSpec, ExpiryInv
-----------------------------------------------------------------------------
(***************************************************************************)
(* The success of an HTTP/2 attempt.                                       *)
(***************************************************************************)
\* Only the end of its handshake opens an attempt that holds the lock.
LEMMA OpensByPooled ==
    ASSUME TypeInv, [PoolNext]_poolVars, NEW c \in Conns, phase[c] = "locked", phase'[c] = "open"
    PROVE  PooledShared(c)
<1> USE DEF innerVars, connVars, outVars
<1>1. ASSUME NEW o \in Checkouts, CheckoutNext(o) PROVE FALSE
  <2>1. phase' = phase
    BY <1>1 DEF CheckoutNext, CheckoutIdle, CheckoutWait, WaiterServed, WaiterGetsClosed,
                WaiterCanceled, CheckoutDrop, CleanWaiters, PooledDropReused
  <2>2. QED
    BY <2>1
<1>2. ASSUME NEW d \in Conns, ConnNext(d), ~PooledShared(d) PROVE FALSE
  <2>1. CASE \/ \E k \in Keys : Connecting(d, k) \/ ConnectingH2(d, k)
             \/ AlpnH2(d) \/ ConnectingDrop(d) \/ ConnectingDropLocked(d) \/ PooledUnique(d)
    BY <2>1 DEF Connecting, ConnectingH2, AlpnH2, ConnectingDrop, ConnectingDropLocked, PooledUnique,
                TypeInv, TypeOK
  <2>2. CASE \/ PooledDrop(d) \/ StartExchange(d) \/ EndExchange(d)
             \/ Close(d) \/ Poison(d) \/ Vanish(d)
    BY <2>2 DEF PooledDrop, StartExchange, EndExchange, Close, Poison, Vanish, TypeInv, TypeOK
  <2>3. QED
    BY <1>2, <2>1, <2>2 DEF ConnNext
<1>3. ASSUME NEW d \in Conns, PooledShared(d) PROVE c = d
  BY <1>3 DEF PooledShared, TypeInv, TypeOK
<1>4. ASSUME Tick \/ ClearExpired \/ DropPool \/ IdleTaskEnds \/ UNCHANGED poolVars PROVE FALSE
  BY <1>4 DEF Tick, ClearExpired, DropPool, IdleTaskEnds, poolVars
<1>5. QED
  BY <1>1, <1>2, <1>3, <1>4 DEF PoolNext

\* Whoever is parked on the key receives the connection: if put turned it away,
\* the key would have a list, and then nobody is parked on it.
LEMMA ServesStep ==
    ASSUME TypeInv, QueueInv, IdleInv, NEW c \in Conns, PooledShared(c),
           NEW o \in Checkouts, cstate[o] = "waiting", okey[o] = ckey[c]
    PROVE  cstate'[o] = "sent" /\ cconn'[o] = c
<1> DEFINE k == ckey[c]
           R == PutReceivers(k, TRUE)
<1>1. /\ cstate' = [w \in Checkouts |->
                      CASE w \in R -> "sent"
                        [] w \notin R /\ w \in Dropped(k) -> "canceled"
                        [] OTHER -> cstate[w]]
      /\ cconn' = [w \in Checkouts |-> IF w \in R THEN c ELSE cconn[w]]
  BY DEF PooledShared
<1>2. k \in Keys /\ o \in Dropped(k)
  BY WaitersLive
<1>3. ~Present(k)
  BY <1>2 DEF IdleInv, NoIdleWhileWaiting, CacheInv
<1>4. R = Dropped(k)
  BY <1>3 DEF PutReceivers, PutRejected, Dropped
<1> HIDE DEF R, k
<1>5. QED
  BY <1>1, <1>2, <1>4

\* An HTTP/2 attempt that succeeds serves every checkout parked on its key and
\* cancels none.
THEOREM SuccessSafety == PoolSpec => SuccessServesWaiters
<1>1. TypeInv /\ QueueInv /\ IdleInv /\ [PoolNext]_poolVars =>
         [\A c \in Conns : phase[c] = "locked" /\ phase'[c] = "open" =>
             \A o \in Checkouts : cstate[o] = "waiting" /\ okey[o] = ckey[c] =>
                 cstate'[o] = "sent" /\ cconn'[o] = c]_poolVars
  BY OpensByPooled, ServesStep
<1>2. QED
  BY <1>1, TypeInvariant, QueueInvariant, IdleSafety, PTL DEF PoolSpec, SuccessServesWaiters
=============================================================================
