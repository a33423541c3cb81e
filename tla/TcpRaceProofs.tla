---------------------------- MODULE TcpRaceProofs ----------------------------
(***************************************************************************)
(* Proof that the race of TcpRace keeps RaceInv, for lists of any length,  *)
(* any limit on the attempts and any set of options.                       *)
(***************************************************************************)
EXTENDS TcpRace, RetainProofs, FiniteSetTheorems, SequenceTheorems, TLAPS

Elems(s) == {s[i] : i \in DOMAIN s}

Distinct(s) == \A i, j \in DOMAIN s : s[i] = s[j] => i = j

\* How many of the addresses tried so far are in S.
Tried(S) == Cardinality(KeptIndices(launched, S))

\* The types alone.
TypeInv ==
    /\ config \in Configs
    /\ \E n \in 0..MaxAddrs : family \in [1..n -> {"v4", "v6"}]
    /\ preferred \in Seq(Addrs)
    /\ fallback \in Seq(Addrs)
    /\ nextFallback \in BOOLEAN
    /\ attempts \in Seq(Addrs)
    /\ launched \in Seq(Addrs)
    /\ firstError \in Addrs \cup {0}
    /\ socket \in [Addrs -> SocketStates]
    /\ delay \in {"off", "running", "elapsed"}
    /\ deadline \in {"off", "running", "elapsed"}
    /\ pc \in {"launch", "wait", "done"}
    /\ result \in {"none", "connected", "failed", "timeout"}

\* The two lists and what was tried share out the eligible addresses.
ListsInv ==
    /\ Distinct(preferred) /\ Distinct(fallback) /\ Distinct(launched)
    /\ Elems(preferred) \subseteq PreferredSet
    /\ Elems(fallback) \cap PreferredSet = {}
    /\ Elems(launched) \cap (Elems(preferred) \cup Elems(fallback)) = {}
    /\ Eligible \subseteq Elems(launched) \cup Elems(preferred) \cup Elems(fallback)
    /\ Len(preferred) + Len(fallback) + Len(launched) = Cardinality(Eligible)

\* next_fallback tells which family is ahead.
TurnInv ==
    preferred # <<>> /\ fallback # <<>> =>
        Tried(PreferredSet) - Tried(Addrs \ PreferredSet) = IF nextFallback THEN 1 ELSE 0

\* A socket is alive exactly while its attempt is active, and an attempt is of an
\* address that was tried.
SocketsInv ==
    /\ Distinct(attempts)
    /\ Elems(attempts) \subseteq Elems(launched)
    /\ \A a \in Elems(attempts) : socket[a] \in {"pending", "ok", "err"}
    /\ \A a \in Elems(launched) : socket[a] # "none"
    /\ \A a \in Addrs : socket[a] = "failed" => a \in Elems(launched)
    /\ \A a \in Addrs : socket[a] \in {"pending", "err"} => a \in Elems(attempts)
    /\ pc # "done" => \A a \in Addrs : socket[a] = "ok" => a \in Elems(attempts)

\* There is room for the attempt about to be launched.
RoomInv ==
    /\ Len(attempts) <= MaxParallel
    /\ pc = "launch" => Len(attempts) < MaxParallel

\* first_error is that of the failed address tried first.
ErrorInv ==
    IF firstError = 0
    THEN \A a \in Addrs : socket[a] # "failed"
    ELSE \E k \in DOMAIN launched :
            /\ launched[k] = firstError
            /\ socket[firstError] = "failed"
            /\ \A i \in DOMAIN launched : socket[launched[i]] = "failed" => k <= i

\* The stagger delay is awaited only while an address is left, so the loop gets
\* to launch_next without an active attempt only if one is left or has failed.
PaceInv ==
    /\ pc = "wait" /\ delay # "off" => HasRemaining
    /\ pc = "launch" /\ attempts = <<>> /\ launched # <<>> => HasRemaining \/ firstError # 0

\* The race ends once, without an active attempt.
EndInv ==
    /\ pc # "done" => result = "none"
    /\ pc = "done" => attempts = <<>>
    /\ GivesUpLast
    /\ EarliestError

IInv ==
    /\ TypeInv /\ ListsInv /\ TurnInv /\ SocketsInv
    /\ RoomInv /\ ErrorInv /\ PaceInv /\ EndInv
-----------------------------------------------------------------------------
(***************************************************************************)
(* Lists.                                                                  *)
(***************************************************************************)
\* The tail of a list without repetitions lacks exactly its head.
LEMMA TailElems ==
    ASSUME NEW A, NEW s \in Seq(A), s # <<>>
    PROVE  /\ Head(s) \in A /\ Head(s) \in Elems(s)
           /\ Tail(s) \in Seq(A)
           /\ Len(s) \in Nat /\ Len(Tail(s)) \in Nat /\ Len(Tail(s)) + 1 = Len(s)
           /\ Elems(Tail(s)) \subseteq Elems(s)
           /\ Elems(s) \subseteq Elems(Tail(s)) \cup {Head(s)}
           /\ Distinct(s) => Distinct(Tail(s)) /\ Head(s) \notin Elems(Tail(s))
<1> DEFINE t == Tail(s)
<1>1. /\ t \in Seq(A) /\ Len(t) = Len(s) - 1
      /\ \A i \in 1..Len(t) : t[i] = s[i + 1]
      /\ Head(s) \in A
  BY HeadTailProperties
<1>2. Len(s) \in Nat \ {0} /\ DOMAIN s = 1..Len(s) /\ Head(s) = s[1]
  BY EmptySeq, LenProperties
<1>3. Len(t) \in Nat /\ DOMAIN t = 1..Len(t)
  BY <1>1, LenProperties
<1> HIDE DEF t
<1>4. \A i \in DOMAIN t : i + 1 \in DOMAIN s /\ t[i] = s[i + 1] /\ i + 1 # 1
  BY <1>1, <1>2, <1>3
<1>5. \A i \in DOMAIN s : i = 1 \/ (i - 1 \in DOMAIN t /\ t[i - 1] = s[i])
  BY <1>1, <1>2, <1>3
<1>6. 1 \in DOMAIN s /\ Head(s) \in Elems(s)
  BY <1>2 DEF Elems
<1>7. Elems(t) \subseteq Elems(s)
  BY <1>4 DEF Elems
<1>8. Elems(s) \subseteq Elems(t) \cup {Head(s)}
  BY <1>5, <1>2 DEF Elems
<1>9. ASSUME Distinct(s) PROVE Distinct(t) /\ Head(s) \notin Elems(t)
  <2>1. \A i, j \in DOMAIN t : t[i] = t[j] => i + 1 = j + 1
    BY <1>4, <1>9 DEF Distinct
  <2>2. Distinct(t)
    BY <2>1, <1>3 DEF Distinct
  <2>3. ASSUME NEW i \in DOMAIN t, t[i] = Head(s) PROVE FALSE
    BY <2>3, <1>4, <1>2, <1>6, <1>9 DEF Distinct
  <2>4. QED
    BY <2>2, <2>3 DEF Elems
<1>10. QED
  BY <1>1, <1>2, <1>3, <1>6, <1>7, <1>8, <1>9 DEF t

\* Appending adds one element, behind the others.
LEMMA AppendElems ==
    ASSUME NEW A, NEW s \in Seq(A), NEW x \in A
    PROVE  /\ Append(s, x) \in Seq(A) /\ Append(s, x) # <<>>
           /\ Len(s) \in Nat /\ Len(Append(s, x)) = Len(s) + 1
           /\ DOMAIN s = 1..Len(s) /\ DOMAIN Append(s, x) = 1..(Len(s) + 1)
           /\ \A i \in DOMAIN s : Append(s, x)[i] = s[i]
           /\ Append(s, x)[Len(s) + 1] = x
           /\ Elems(Append(s, x)) = Elems(s) \cup {x}
           /\ Distinct(s) /\ x \notin Elems(s) => Distinct(Append(s, x))
<1> DEFINE t == Append(s, x)
<1>1. /\ t \in Seq(A) /\ t # <<>> /\ Len(t) = Len(s) + 1
      /\ \A i \in 1..Len(s) : t[i] = s[i]
      /\ t[Len(s) + 1] = x
  BY AppendProperties
<1>2. Len(s) \in Nat /\ DOMAIN s = 1..Len(s) /\ DOMAIN t = 1..Len(t)
  BY <1>1, LenProperties
<1> HIDE DEF t
<1>3. \A i \in DOMAIN t : i \in DOMAIN s \/ i = Len(s) + 1
  BY <1>1, <1>2
<1>4. \A i \in DOMAIN s : i \in DOMAIN t /\ t[i] = s[i]
  BY <1>1, <1>2
<1>5. Len(s) + 1 \in DOMAIN t /\ Len(s) + 1 \notin DOMAIN s
  BY <1>1, <1>2
<1>6. Elems(t) = Elems(s) \cup {x}
  BY <1>1, <1>3, <1>4, <1>5 DEF Elems
<1>7. ASSUME Distinct(s), x \notin Elems(s) PROVE Distinct(t)
  <2>1. \A i \in DOMAIN s : t[i] # x
    BY <1>4, <1>7 DEF Elems
  <2>2. QED
    BY <2>1, <1>1, <1>3, <1>4, <1>7 DEF Distinct
<1>8. QED
  BY <1>1, <1>2, <1>6, <1>7 DEF t

\* What Retain leaves of a list without repetitions.
LEMMA RetainElems ==
    ASSUME NEW A, NEW s \in Seq(A), NEW S
    PROVE  /\ Retain(s, S) \in Seq(A)
           /\ Elems(Retain(s, S)) = Elems(s) \cap S
           /\ Distinct(s) => Distinct(Retain(s, S))
<1> DEFINE r == Retain(s, S)
<1>1. r \in Seq(A) /\ \A i \in DOMAIN r : r[i] \in S
  BY RetainFacts
<1>2. PICK f \in [DOMAIN r -> DOMAIN s] : Selects(f, r, s, S)
  BY RetainFacts
<1> HIDE DEF r
<1>3. /\ \A i \in DOMAIN r : f[i] \in DOMAIN s /\ r[i] = s[f[i]]
      /\ \A i, j \in DOMAIN r : i < j => f[i] < f[j]
      /\ \A x \in DOMAIN s : s[x] \in S => \E i \in DOMAIN r : f[i] = x
  BY <1>2 DEF Selects
<1>4. Elems(r) = Elems(s) \cap S
  <2>1. Elems(r) \subseteq Elems(s) \cap S
    BY <1>1, <1>3 DEF Elems
  <2>2. ASSUME NEW x \in DOMAIN s, s[x] \in S PROVE s[x] \in Elems(r)
    <3>1. PICK i \in DOMAIN r : f[i] = x
      BY <2>2, <1>3
    <3>2. QED
      BY <3>1, <1>3 DEF Elems
  <2>3. QED
    BY <2>1, <2>2 DEF Elems
<1>5. ASSUME Distinct(s) PROVE Distinct(r)
  <2>1. SUFFICES ASSUME NEW i \in DOMAIN r, NEW j \in DOMAIN r, r[i] = r[j]
                 PROVE  i = j
    BY DEF Distinct
  <2>2. f[i] = f[j]
    BY <2>1, <1>3, <1>5 DEF Distinct
  <2>3. DOMAIN r = 1..Len(r) /\ DOMAIN s = 1..Len(s) /\ Len(r) \in Nat /\ Len(s) \in Nat
    BY <1>1, LenProperties
  <2>4. i \in Nat /\ j \in Nat /\ f[i] \in Nat /\ f[j] \in Nat
    BY <2>3, <1>3
  <2>5. ~ (f[i] < f[j]) /\ ~ (f[j] < f[i])
    BY <2>2, <2>4
  <2>6. ~ (i < j) /\ ~ (j < i)
    BY <2>5, <1>3
  <2>7. QED
    BY <2>4, <2>6
<1>6. QED
  BY <1>1, <1>4, <1>5 DEF r

\* A list without repetitions is as long as it has elements.
LEMMA DistinctLength ==
    ASSUME NEW A, NEW s \in Seq(A), Distinct(s)
    PROVE  /\ IsFiniteSet(Elems(s))
           /\ Cardinality(Elems(s)) = Len(s)
<1>1. Len(s) \in Nat /\ DOMAIN s = 1..Len(s) /\ s \in [1..Len(s) -> A]
  BY LenProperties
<1>2. s \in [1..Len(s) -> Elems(s)]
  BY <1>1 DEF Elems
<1>3. \A i, j \in 1..Len(s) : s[i] = s[j] => i = j
  BY <1>1 DEF Distinct
<1>4. \A e \in Elems(s) : \E i \in 1..Len(s) : s[i] = e
  BY <1>1 DEF Elems
<1>5. s \in Bijection(1..Len(s), Elems(s))
  BY <1>1, <1>2, <1>3, <1>4 DEF Bijection, Injection, Surjection, IsInjective
<1>6. ExistsBijection(1..Len(s), Elems(s))
  BY <1>5 DEF ExistsBijection
<1>7. Cardinality(Elems(s)) = Len(s)
  BY <1>1, <1>6, FS_CountingElements
<1>8. IsFiniteSet(1..Len(s))
  BY <1>1, FS_Interval
<1>9. IsFiniteSet(Elems(s))
  BY <1>6, <1>8, FS_Bijection
<1>10. QED
  BY <1>7, <1>9
-----------------------------------------------------------------------------
(***************************************************************************)
(* The resolved list and its split.                                        *)
(***************************************************************************)
\* The preferred family is among the eligible addresses.
LEMMA Families ==
    ASSUME TypeInv
    PROVE  /\ PreferredSet \subseteq Eligible
           /\ Eligible \subseteq Addrs
           /\ 0 \notin Addrs
           /\ IsFiniteSet(Addrs)
<1>1. PICK n \in 0..MaxAddrs : family \in [1..n -> {"v4", "v6"}]
  BY DEF TypeInv
<1>2. Addrs = 1..n /\ n \in Nat
  BY <1>1, RaceAssumption DEF Addrs
<1>3. IsFiniteSet(Addrs) /\ 0 \notin Addrs
  BY <1>2, FS_Interval
<1>4. PreferredSet \subseteq Eligible /\ Eligible \subseteq Addrs
  BY DEF PreferredSet, Eligible
<1>5. QED
  BY <1>3, <1>4

\* The addresses of S in the order of the resolved list.
LEMMA InOrderFacts ==
    ASSUME NEW n \in Nat, family \in [1..n -> {"v4", "v6"}], NEW S \in SUBSET Addrs
    PROVE  /\ InOrder(S) \in Seq(Addrs)
           /\ Elems(InOrder(S)) = S
           /\ Distinct(InOrder(S))
           /\ IsFiniteSet(S)
           /\ Cardinality(S) = Len(InOrder(S))
<1> DEFINE s == [i \in Addrs |-> i]
<1>1. Addrs = 1..n
  BY DEF Addrs
<1>2. s \in Seq(Addrs) /\ DOMAIN s = Addrs /\ \A i \in Addrs : s[i] = i
  BY <1>1
<1> HIDE DEF s
<1>3. Distinct(s) /\ Elems(s) = Addrs
  BY <1>2 DEF Distinct, Elems
<1>4. PICK r : r = Retain(s, S)
  OBVIOUS
<1>5. r \in Seq(Addrs) /\ Elems(r) = Addrs \cap S /\ Distinct(r)
  BY <1>2, <1>3, <1>4, RetainElems
<1>6. Elems(r) = S
  BY <1>5
<1>7. IsFiniteSet(Elems(r)) /\ Cardinality(Elems(r)) = Len(r)
  BY <1>5, DistinctLength
<1>8. InOrder(S) = r
  BY <1>4 DEF InOrder, s
<1>9. QED
  BY <1>5, <1>6, <1>7, <1>8

\* The race starts in the invariant.
LEMMA InitInv == Init => IInv
<1> SUFFICES ASSUME Init PROVE IInv
  OBVIOUS
<1>1. PICK n \in 0..MaxAddrs : family \in [1..n -> {"v4", "v6"}]
  BY DEF Init
<1>2. n \in Nat /\ Addrs = 1..n
  BY <1>1, RaceAssumption DEF Addrs
<1>3. PreferredSet \subseteq Addrs /\ Eligible \subseteq Addrs /\ PreferredSet \subseteq Eligible
  BY DEF PreferredSet, Eligible
<1>4. PICK P : P = PreferredSet
  OBVIOUS
<1>5. PICK Q : Q = Eligible \ PreferredSet
  OBVIOUS
<1>6. P \in SUBSET Addrs /\ Q \in SUBSET Addrs /\ P \cup Q = Eligible /\ P \cap Q = {}
  BY <1>3, <1>4, <1>5
<1>7. preferred = InOrder(P) /\ fallback = InOrder(Q)
  BY <1>4, <1>5 DEF Init
<1>8. /\ preferred \in Seq(Addrs) /\ Elems(preferred) = P /\ Distinct(preferred)
      /\ IsFiniteSet(P) /\ Cardinality(P) = Len(preferred)
  BY <1>1, <1>2, <1>6, <1>7, InOrderFacts
<1>9. /\ fallback \in Seq(Addrs) /\ Elems(fallback) = Q /\ Distinct(fallback)
      /\ IsFiniteSet(Q) /\ Cardinality(Q) = Len(fallback)
  BY <1>1, <1>2, <1>6, <1>7, InOrderFacts
<1>10. launched = <<>> /\ attempts = <<>> /\ <<>> \in Seq(Addrs) /\ Len(<<>>) = 0
       /\ DOMAIN <<>> = {}
  BY EmptySeq DEF Init
<1>11. Elems(<<>>) = {} /\ Distinct(<<>>)
  BY <1>10 DEF Elems, Distinct
<1>12. TypeInv
  BY <1>1, <1>8, <1>9, <1>10 DEF Init, TypeInv, SocketStates
<1>13. Len(preferred) + Len(fallback) + Len(launched) = Cardinality(Eligible)
  <2>1. Cardinality(P \cup Q) = Cardinality(P) + Cardinality(Q) - Cardinality(P \cap Q)
    BY <1>8, <1>9, FS_Union
  <2>2. Cardinality(P \cap Q) = 0
    BY <1>6, FS_EmptySet
  <2>3. Len(preferred) \in Nat /\ Len(fallback) \in Nat
    BY <1>8, <1>9, LenProperties
  <2>4. Cardinality(Eligible) = Cardinality(P) + Cardinality(Q) - 0
    BY <2>1, <2>2, <1>6
  <2>5. Len(launched) = 0
    BY <1>10
  <2>6. QED
    BY <2>3, <2>4, <2>5, <1>8, <1>9
<1>14. ListsInv
  BY <1>4, <1>6, <1>8, <1>9, <1>10, <1>11, <1>13 DEF ListsInv
<1>15. TurnInv
  <2>1. KeptIndices(launched, PreferredSet) = {}
        /\ KeptIndices(launched, Addrs \ PreferredSet) = {}
    BY <1>10 DEF KeptIndices
  <2>2. Tried(PreferredSet) = 0 /\ Tried(Addrs \ PreferredSet) = 0
    BY <2>1, FS_EmptySet DEF Tried
  <2>3. QED
    BY <2>2 DEF TurnInv, Init
<1>16. \A a \in Addrs : socket[a] = "none"
  BY DEF Init
<1>17. SocketsInv
  BY <1>10, <1>11, <1>16 DEF SocketsInv
<1>18. RoomInv
  BY <1>10, RaceAssumption DEF RoomInv
<1>19. ErrorInv
  BY <1>16 DEF ErrorInv, Init
<1>20. PaceInv /\ EndInv
  BY <1>10 DEF PaceInv, EndInv, Init, GivesUpLast, EarliestError
<1>21. QED
  BY <1>12, <1>14, <1>15, <1>17, <1>18, <1>19, <1>20 DEF IInv
-----------------------------------------------------------------------------
(***************************************************************************)
(* next_remote takes an address from one of the lists.                     *)
(***************************************************************************)
\* One more address was tried: it counts for the sets it is in.
LEMMA TriedOneMore ==
    ASSUME TypeInv, NEW x \in Addrs, launched' = Append(launched, x), NEW S
    PROVE  /\ Cardinality(KeptIndices(launched, S)) \in Nat
           /\ Cardinality(KeptIndices(launched', S)) =
                  Cardinality(KeptIndices(launched, S)) + (IF x \in S THEN 1 ELSE 0)
<1> DEFINE K == KeptIndices(launched, S)
           L == KeptIndices(launched', S)
<1>1. launched \in Seq(Addrs)
  BY DEF TypeInv
<1>2. /\ Len(launched) \in Nat /\ DOMAIN launched = 1..Len(launched)
      /\ DOMAIN launched' = 1..(Len(launched) + 1)
      /\ \A i \in DOMAIN launched : launched'[i] = launched[i]
      /\ launched'[Len(launched) + 1] = x
  BY <1>1, AppendElems
<1>3. PICK m \in Nat : m = Len(launched)
  BY <1>2
<1>4. IsFiniteSet(1..m) /\ K \in SUBSET (1..m)
  BY <1>2, <1>3, FS_Interval DEF KeptIndices
<1>5. IsFiniteSet(K) /\ Cardinality(K) \in Nat
  BY <1>4, FS_Subset, FS_CardinalityType
<1>6. \A i : i \in 1..(m + 1) <=> i \in 1..m \/ i = m + 1
  OBVIOUS
<1>7. m + 1 \notin K
  BY <1>4
<1>8. CASE x \in S
  <2>1. L = K \cup {m + 1}
    BY <1>2, <1>3, <1>6, <1>8 DEF KeptIndices
  <2>2. Cardinality(K \cup {m + 1}) = Cardinality(K) + 1
    BY <1>5, <1>7, FS_AddElement
  <2>3. QED
    BY <2>1, <2>2, <1>5, <1>8
<1>9. CASE x \notin S
  <2>1. L = K
    BY <1>2, <1>3, <1>6, <1>9 DEF KeptIndices
  <2>2. QED
    BY <2>1, <1>5, <1>9
<1>10. QED
  BY <1>8, <1>9

\* TakeNext keeps the lists apart, loses no address and alternates the families.
LEMMA Takes ==
    ASSUME TypeInv, ListsInv, TurnInv, TakeNext, UNCHANGED <<config, family>>
    PROVE  /\ ListsInv' /\ TurnInv'
           /\ preferred' \in Seq(Addrs) /\ fallback' \in Seq(Addrs) /\ launched' \in Seq(Addrs)
           /\ nextFallback' \in BOOLEAN
           /\ NextAddr \in Addrs \ Elems(launched)
           /\ launched' = Append(launched, NextAddr)
<1>1. PICK x : x = NextAddr
  OBVIOUS
<1>2. Addrs' = Addrs /\ Eligible' = Eligible /\ PreferredSet' = PreferredSet
  BY DEF Addrs, Eligible, PreferredSet
<1>3. /\ preferred \in Seq(Addrs) /\ fallback \in Seq(Addrs) /\ launched \in Seq(Addrs)
      /\ nextFallback \in BOOLEAN
  BY DEF TypeInv
<1>4. /\ HasRemaining /\ nextFallback' = ~UseFallback
      /\ launched' = Append(launched, x)
  BY <1>1 DEF TakeNext
<1>5. /\ Distinct(preferred) /\ Distinct(fallback) /\ Distinct(launched)
      /\ Elems(preferred) \subseteq PreferredSet
      /\ Elems(fallback) \cap PreferredSet = {}
      /\ Elems(launched) \cap (Elems(preferred) \cup Elems(fallback)) = {}
      /\ Eligible \subseteq Elems(launched) \cup Elems(preferred) \cup Elems(fallback)
      /\ Len(preferred) + Len(fallback) + Len(launched) = Cardinality(Eligible)
  BY DEF ListsInv
<1>6. nextFallback' \in BOOLEAN
  BY <1>4 DEF UseFallback
<1> DEFINE From(l, m) ==
        /\ l # <<>> /\ x = Head(l)
        /\ l' = Tail(l) /\ m' = m
<1>7. \/ UseFallback /\ From(fallback, preferred)
      \/ ~UseFallback /\ From(preferred, fallback)
  <2>1. CASE UseFallback
    BY <2>1, <1>1 DEF TakeNext, NextAddr, UseFallback
  <2>2. CASE ~UseFallback
    BY <2>2, <1>1, <1>4 DEF TakeNext, NextAddr, UseFallback, HasRemaining
  <2>3. QED
    BY <2>1, <2>2
<1> DEFINE Goal ==
        /\ x \in Addrs \ Elems(launched)
        /\ preferred' \in Seq(Addrs) /\ fallback' \in Seq(Addrs)
        /\ Distinct(preferred') /\ Distinct(fallback')
        /\ Elems(preferred') \subseteq Elems(preferred)
        /\ Elems(fallback') \subseteq Elems(fallback)
        /\ x \notin Elems(preferred') \cup Elems(fallback')
        /\ Elems(preferred) \cup Elems(fallback)
              \subseteq Elems(preferred') \cup Elems(fallback') \cup {x}
        /\ Len(preferred') + Len(fallback') + 1 = Len(preferred) + Len(fallback)
<1>l. Len(preferred) \in Nat /\ Len(fallback) \in Nat /\ Len(launched) \in Nat
  BY <1>3, LenProperties
<1>8. ASSUME UseFallback, From(fallback, preferred)
      PROVE  Goal /\ x \notin PreferredSet
  <2>1. /\ x \in Addrs /\ x \in Elems(fallback)
        /\ fallback' \in Seq(Addrs)
        /\ Len(fallback') \in Nat /\ Len(fallback') + 1 = Len(fallback)
        /\ Elems(fallback') \subseteq Elems(fallback)
        /\ Elems(fallback) \subseteq Elems(fallback') \cup {x}
        /\ Distinct(fallback') /\ x \notin Elems(fallback')
    BY <1>8, <1>3, <1>5, TailElems
  <2>2. preferred' = preferred
    BY <1>8
  <2>3. x \notin PreferredSet /\ x \notin Elems(preferred) /\ x \notin Elems(launched)
    BY <2>1, <1>5
  <2>4. Len(preferred') + Len(fallback') + 1 = Len(preferred) + Len(fallback)
    BY <2>1, <2>2, <1>l
  <2>5. QED
    BY <2>1, <2>2, <2>3, <2>4, <1>3, <1>5
<1>9. ASSUME ~UseFallback, From(preferred, fallback)
      PROVE  Goal /\ x \in PreferredSet
  <2>1. /\ x \in Addrs /\ x \in Elems(preferred)
        /\ preferred' \in Seq(Addrs)
        /\ Len(preferred') \in Nat /\ Len(preferred') + 1 = Len(preferred)
        /\ Elems(preferred') \subseteq Elems(preferred)
        /\ Elems(preferred) \subseteq Elems(preferred') \cup {x}
        /\ Distinct(preferred') /\ x \notin Elems(preferred')
    BY <1>9, <1>3, <1>5, TailElems
  <2>2. fallback' = fallback
    BY <1>9
  <2>3. x \in PreferredSet /\ x \notin Elems(fallback) /\ x \notin Elems(launched)
    BY <2>1, <1>5
  <2>4. Len(preferred') + Len(fallback') + 1 = Len(preferred) + Len(fallback)
    BY <2>1, <2>2, <1>l
  <2>5. QED
    BY <2>1, <2>2, <2>3, <2>4, <1>3, <1>5
<1>10. Goal
  BY <1>7, <1>8, <1>9
<1>11. /\ launched' \in Seq(Addrs) /\ Len(launched') = Len(launched) + 1
       /\ Elems(launched') = Elems(launched) \cup {x}
       /\ Distinct(launched')
  BY <1>3, <1>4, <1>5, <1>10, AppendElems
<1>12. Len(preferred') + Len(fallback') + Len(launched') = Cardinality(Eligible)
  <2>1. Len(preferred') \in Nat /\ Len(fallback') \in Nat
    BY <1>10, LenProperties
  <2>2. Len(preferred') + Len(fallback') + 1 = Len(preferred) + Len(fallback)
    BY <1>10
  <2>3. Len(preferred) + Len(fallback) + Len(launched) = Cardinality(Eligible)
    BY <1>5
  <2>4. Len(launched') = Len(launched) + 1
    BY <1>11
  <2>5. QED
    BY <2>1, <2>2, <2>3, <2>4, <1>l
<1>13. ListsInv'
  BY <1>2, <1>5, <1>10, <1>11, <1>12 DEF ListsInv
<1>14. TurnInv'
  <2>1. SUFFICES ASSUME preferred' # <<>>, fallback' # <<>>
                 PROVE  Cardinality(KeptIndices(launched', PreferredSet))
                          - Cardinality(KeptIndices(launched', Addrs \ PreferredSet))
                        = IF nextFallback' THEN 1 ELSE 0
    BY <1>2 DEF TurnInv, Tried
  <2>2. preferred # <<>> /\ fallback # <<>>
    <3>1. <<>> \in Seq(Addrs) /\ Elems(<<>>) = {}
      BY EmptySeq DEF Elems
    <3>2. \A s \in Seq(Addrs) : s # <<>> => Elems(s) # {}
      BY TailElems
    <3>3. QED
      BY <1>10, <2>1, <3>1, <3>2
  <2>3. PICK p, q : /\ p = Cardinality(KeptIndices(launched, PreferredSet))
                    /\ q = Cardinality(KeptIndices(launched, Addrs \ PreferredSet))
    OBVIOUS
  <2>4. p - q = IF nextFallback THEN 1 ELSE 0
    BY <2>2, <2>3 DEF TurnInv, Tried
  <2>5. UseFallback <=> nextFallback
    BY <2>2, <1>3 DEF UseFallback
  <2>6. x \in Addrs
    BY <1>10
  <2>7. p \in Nat /\ q \in Nat
    BY <2>3, <2>6, <1>4, TriedOneMore
  <2>8. CASE UseFallback
    <3>1. x \notin PreferredSet
      BY <2>8, <1>7, <1>8
    <3>2. /\ Cardinality(KeptIndices(launched', PreferredSet)) = p + 0
          /\ Cardinality(KeptIndices(launched', Addrs \ PreferredSet)) = q + 1
      BY <3>1, <2>3, <2>6, <1>4, TriedOneMore
    <3>3. nextFallback' = FALSE /\ p - q = 1
      BY <2>8, <2>4, <2>5, <1>4
    <3>4. QED
      BY <3>2, <3>3, <2>7
  <2>9. CASE ~UseFallback
    <3>1. x \in PreferredSet
      BY <2>9, <1>7, <1>9
    <3>2. /\ Cardinality(KeptIndices(launched', PreferredSet)) = p + 1
          /\ Cardinality(KeptIndices(launched', Addrs \ PreferredSet)) = q + 0
      BY <3>1, <2>3, <2>6, <1>4, TriedOneMore
    <3>3. nextFallback' = TRUE /\ p - q = 0
      BY <2>9, <2>4, <2>5, <1>4
    <3>4. QED
      BY <3>2, <3>3, <2>7
  <2>10. QED
    BY <2>8, <2>9
<1>15. QED
  BY <1>1, <1>4, <1>6, <1>10, <1>11, <1>13, <1>14
-----------------------------------------------------------------------------
(***************************************************************************)
(* Parts of the invariant that several actions leave alone.                *)
(***************************************************************************)
\* A step that takes no address leaves the lists as they are.
LEMMA Standing ==
    ASSUME ListsInv, TurnInv,
           UNCHANGED <<config, family, preferred, fallback, nextFallback, launched>>
    PROVE  /\ ListsInv' /\ TurnInv'
           /\ Addrs' = Addrs /\ Eligible' = Eligible
           /\ HasRemaining' <=> HasRemaining
<1>1. Addrs' = Addrs /\ Eligible' = Eligible /\ PreferredSet' = PreferredSet
  BY DEF Addrs, Eligible, PreferredSet
<1>2. ListsInv'
  BY <1>1 DEF ListsInv
<1>3. Tried(PreferredSet)' = Tried(PreferredSet)
      /\ Tried(Addrs \ PreferredSet)' = Tried(Addrs \ PreferredSet)
  BY <1>1 DEF Tried
<1>4. TurnInv'
  BY <1>3 DEF TurnInv
<1>5. QED
  BY <1>1, <1>2, <1>4 DEF HasRemaining

\* A race that goes on has promised nothing about its end.
LEMMA GoesOn ==
    ASSUME EndInv, pc # "done", pc' # "done", result' = result
    PROVE  EndInv'
BY DEF EndInv, GivesUpLast, EarliestError

\* An address has one place in launch order.
LEMMA OrderIs ==
    ASSUME Distinct(launched), NEW k \in DOMAIN launched
    PROVE  Order(launched[k]) = k
<1>1. \E i \in DOMAIN launched : launched[i] = launched[k]
  OBVIOUS
<1>2. /\ Order(launched[k]) \in DOMAIN launched
      /\ launched[Order(launched[k])] = launched[k]
  BY <1>1 DEF Order
<1>3. QED
  BY <1>2 DEF Distinct

\* record_error keeps the one of a set of tried addresses that was tried first.
LEMMA EarliestOf ==
    ASSUME TypeInv, Distinct(launched), NEW E, E # {}, E \subseteq Elems(launched)
    PROVE  \E k \in DOMAIN launched :
              /\ launched[k] = CHOOSE a \in E : \A b \in E : Order(a) <= Order(b)
              /\ launched[k] \in E
              /\ \A i \in DOMAIN launched : launched[i] \in E => k <= i
<1> DEFINE T == KeptIndices(launched, E)
           c == CHOOSE a \in E : \A b \in E : Order(a) <= Order(b)
<1>1. launched \in Seq(Addrs) /\ Len(launched) \in Nat /\ DOMAIN launched = 1..Len(launched)
  BY LenProperties DEF TypeInv
<1>2. T \subseteq Nat /\ T # {}
  BY <1>1 DEF KeptIndices, Elems
<1>3. PICK m \in T : \A y \in T : m <= y
  BY <1>2, LeastNatural
<1>4. m \in DOMAIN launched /\ launched[m] \in E /\ Order(launched[m]) = m
  BY <1>3, OrderIs DEF KeptIndices
<1>5. \A b \in E : Order(b) \in T /\ launched[Order(b)] = b
  <2>1. SUFFICES ASSUME NEW b \in E
                 PROVE  Order(b) \in T /\ launched[Order(b)] = b
    OBVIOUS
  <2>2. PICK i \in DOMAIN launched : launched[i] = b
    BY DEF Elems
  <2>3. Order(b) = i
    BY <2>2, OrderIs
  <2>4. QED
    BY <2>2, <2>3 DEF KeptIndices
<1>6. \A b \in E : Order(launched[m]) <= Order(b)
  BY <1>3, <1>4, <1>5
<1>7. c \in E /\ \A b \in E : Order(c) <= Order(b)
  BY <1>4, <1>6
<1>8. PICK k : k = Order(c)
  OBVIOUS
<1>9. k \in DOMAIN launched /\ launched[k] = c
  BY <1>5, <1>7, <1>8 DEF KeptIndices
<1>10. ASSUME NEW i \in DOMAIN launched, launched[i] \in E PROVE k <= i
  BY <1>7, <1>8, <1>10, OrderIs
<1>11. QED
  BY <1>7, <1>9, <1>10

\* The recorded error stays right while no socket fails.
LEMMA SameFailures ==
    ASSUME TypeInv, ErrorInv, UNCHANGED <<family, launched, firstError>>,
           \A a \in Addrs : socket'[a] = "failed" <=> socket[a] = "failed"
    PROVE  ErrorInv'
<1>1. Addrs' = Addrs /\ firstError \in Addrs \cup {0}
      /\ launched \in Seq(Addrs)
  BY DEF Addrs, TypeInv
<1>2. \A i \in DOMAIN launched : launched[i] \in Addrs
  BY <1>1
<1>3. CASE firstError = 0
  BY <1>1, <1>3 DEF ErrorInv
<1>4. CASE firstError # 0
  <2>1. PICK k \in DOMAIN launched :
            /\ launched[k] = firstError
            /\ socket[firstError] = "failed"
            /\ \A i \in DOMAIN launched : socket[launched[i]] = "failed" => k <= i
    BY <1>4 DEF ErrorInv
  <2>2. QED
    BY <1>1, <1>2, <1>4, <2>1 DEF ErrorInv
<1>5. QED
  BY <1>3, <1>4
-----------------------------------------------------------------------------
(***************************************************************************)
(* launch_next.                                                            *)
(***************************************************************************)
\* A launched attempt takes the room that was made for it, and its address was new.
LEMMA LaunchNextKeeps ==
    ASSUME IInv, LaunchNext
    PROVE  IInv'
<1>1. /\ TypeInv /\ ListsInv /\ TurnInv /\ SocketsInv
      /\ RoomInv /\ ErrorInv /\ PaceInv /\ EndInv
  BY DEF IInv
<1>2. PICK x : x = NextAddr
  OBVIOUS
<1>3. /\ pc = "launch" /\ TakeNext /\ pc' = "wait"
      /\ config' = config /\ family' = family /\ firstError' = firstError
      /\ deadline' = deadline /\ result' = result
      /\ attempts' = Append(attempts, x)
      /\ socket' = [socket EXCEPT ![x] = "pending"]
      /\ delay' \in {"running", "off"}
      /\ delay' # "off" => preferred' # <<>> \/ fallback' # <<>>
  BY <1>2 DEF LaunchNext
<1>4. /\ ListsInv' /\ TurnInv'
      /\ preferred' \in Seq(Addrs) /\ fallback' \in Seq(Addrs) /\ launched' \in Seq(Addrs)
      /\ nextFallback' \in BOOLEAN
      /\ x \in Addrs \ Elems(launched)
      /\ launched' = Append(launched, x)
  BY <1>1, <1>2, <1>3, Takes
<1>5. Addrs' = Addrs
  BY <1>3 DEF Addrs
<1>6. /\ attempts \in Seq(Addrs) /\ launched \in Seq(Addrs)
      /\ socket \in [Addrs -> SocketStates] /\ firstError \in Addrs \cup {0}
  BY <1>1 DEF TypeInv
<1>7. /\ Distinct(attempts) /\ Elems(attempts) \subseteq Elems(launched)
      /\ \A a \in Elems(attempts) : socket[a] \in {"pending", "ok", "err"}
      /\ \A a \in Elems(launched) : socket[a] # "none"
      /\ \A a \in Addrs : socket[a] = "failed" => a \in Elems(launched)
      /\ \A a \in Addrs : socket[a] \in {"pending", "err"} => a \in Elems(attempts)
      /\ \A a \in Addrs : socket[a] = "ok" => a \in Elems(attempts)
  BY <1>1, <1>3 DEF SocketsInv
<1>8. /\ attempts' \in Seq(Addrs) /\ Len(attempts) \in Nat /\ Len(attempts') = Len(attempts) + 1
      /\ Elems(attempts') = Elems(attempts) \cup {x} /\ Distinct(attempts')
  BY <1>3, <1>4, <1>6, <1>7, AppendElems
<1>9. /\ Elems(launched') = Elems(launched) \cup {x}
      /\ \A i \in DOMAIN launched : i \in DOMAIN launched' /\ launched'[i] = launched[i]
      /\ \A i \in DOMAIN launched' : i \in DOMAIN launched \/ launched'[i] = x
  BY <1>4, <1>6, AppendElems
<1>10. /\ socket'[x] = "pending"
       /\ \A a \in Addrs : a # x => socket'[a] = socket[a]
       /\ socket' \in [Addrs -> SocketStates]
  BY <1>3, <1>4, <1>6 DEF SocketStates
<1>11. TypeInv'
  BY <1>1, <1>3, <1>4, <1>5, <1>6, <1>8, <1>10 DEF TypeInv
<1>12. SocketsInv'
  BY <1>3, <1>4, <1>5, <1>7, <1>8, <1>9, <1>10 DEF SocketsInv
<1>13. RoomInv'
  <2>1. Len(attempts) < MaxParallel
    BY <1>1, <1>3 DEF RoomInv
  <2>2. Len(attempts') <= MaxParallel
    BY <2>1, <1>8, RaceAssumption
  <2>3. QED
    BY <2>2, <1>3 DEF RoomInv
<1>14. ErrorInv'
  <2>1. \A i \in DOMAIN launched : launched[i] \in Addrs /\ launched[i] # x
    BY <1>4, <1>6 DEF Elems
  <2>2. CASE firstError = 0
    BY <2>2, <1>1, <1>3, <1>5, <1>10 DEF ErrorInv
  <2>3. CASE firstError # 0
    <3>1. PICK k \in DOMAIN launched :
              /\ launched[k] = firstError
              /\ socket[firstError] = "failed"
              /\ \A i \in DOMAIN launched : socket[launched[i]] = "failed" => k <= i
      BY <2>3, <1>1 DEF ErrorInv
    <3>2. k \in DOMAIN launched' /\ launched'[k] = firstError /\ socket'[firstError] = "failed"
      BY <3>1, <2>1, <1>9, <1>10
    <3>3. \A i \in DOMAIN launched' : socket'[launched'[i]] = "failed" => k <= i
      BY <3>1, <2>1, <1>9, <1>10
    <3>4. QED
      BY <2>3, <3>2, <3>3, <1>3 DEF ErrorInv
  <2>4. QED
    BY <2>2, <2>3
<1>15. PaceInv'
  BY <1>3 DEF PaceInv, HasRemaining
<1>16. EndInv'
  BY <1>1, <1>3, GoesOn
<1>17. QED
  BY <1>4, <1>11, <1>12, <1>13, <1>14, <1>15, <1>16 DEF IInv

\* A failed setup is recorded in launch order like any other failure.
LEMMA LaunchFailsKeeps ==
    ASSUME IInv, LaunchFails
    PROVE  IInv'
<1>1. /\ TypeInv /\ ListsInv /\ TurnInv /\ SocketsInv
      /\ RoomInv /\ ErrorInv /\ PaceInv /\ EndInv
  BY DEF IInv
<1>2. PICK x : x = NextAddr
  OBVIOUS
<1>3. /\ pc = "launch" /\ TakeNext /\ pc' = pc
      /\ config' = config /\ family' = family /\ attempts' = attempts
      /\ delay' = delay /\ deadline' = deadline /\ result' = result
      /\ firstError' = IF firstError = 0 THEN x ELSE firstError
      /\ socket' = [socket EXCEPT ![x] = "failed"]
  BY <1>2 DEF LaunchFails
<1>4. /\ ListsInv' /\ TurnInv'
      /\ preferred' \in Seq(Addrs) /\ fallback' \in Seq(Addrs) /\ launched' \in Seq(Addrs)
      /\ nextFallback' \in BOOLEAN
      /\ x \in Addrs \ Elems(launched)
      /\ launched' = Append(launched, x)
  BY <1>1, <1>2, <1>3, Takes
<1>5. Addrs' = Addrs /\ 0 \notin Addrs
  BY <1>1, <1>3, Families DEF Addrs
<1>6. /\ attempts \in Seq(Addrs) /\ launched \in Seq(Addrs)
      /\ socket \in [Addrs -> SocketStates] /\ firstError \in Addrs \cup {0}
  BY <1>1 DEF TypeInv
<1>7. /\ Distinct(attempts) /\ Elems(attempts) \subseteq Elems(launched)
      /\ \A a \in Elems(attempts) : socket[a] \in {"pending", "ok", "err"}
      /\ \A a \in Elems(launched) : socket[a] # "none"
      /\ \A a \in Addrs : socket[a] = "failed" => a \in Elems(launched)
      /\ \A a \in Addrs : socket[a] \in {"pending", "err"} => a \in Elems(attempts)
      /\ \A a \in Addrs : socket[a] = "ok" => a \in Elems(attempts)
  BY <1>1, <1>3 DEF SocketsInv
<1>8. \A a \in Elems(attempts) : a \in Addrs
  BY <1>6 DEF Elems
<1>9. /\ Elems(launched') = Elems(launched) \cup {x}
      /\ Len(launched) \in Nat /\ DOMAIN launched = 1..Len(launched)
      /\ DOMAIN launched' = 1..(Len(launched) + 1)
      /\ \A i \in DOMAIN launched : launched'[i] = launched[i]
      /\ launched'[Len(launched) + 1] = x
  BY <1>4, <1>6, AppendElems
<1>10. /\ socket'[x] = "failed"
       /\ \A a \in Addrs : a # x => socket'[a] = socket[a]
       /\ socket' \in [Addrs -> SocketStates]
  BY <1>3, <1>4, <1>6 DEF SocketStates
<1>11. TypeInv'
  BY <1>1, <1>3, <1>4, <1>5, <1>6, <1>10 DEF TypeInv
<1>12. SocketsInv'
  BY <1>3, <1>4, <1>5, <1>7, <1>8, <1>9, <1>10 DEF SocketsInv
<1>13. RoomInv'
  BY <1>1, <1>3 DEF RoomInv
<1>14. ErrorInv'
  <2>1. \A i \in DOMAIN launched : launched[i] \in Addrs /\ launched[i] # x
    BY <1>4, <1>6 DEF Elems
  <2>2. PICK m \in Nat : m = Len(launched)
    BY <1>9
  <2>3. \A i : i \in DOMAIN launched' <=> i \in DOMAIN launched \/ i = m + 1
    BY <2>2, <1>9
  <2>4. CASE firstError = 0
    <3>1. \A i \in DOMAIN launched : socket'[launched'[i]] # "failed"
      BY <2>1, <2>4, <1>1, <1>9, <1>10 DEF ErrorInv
    <3>2. \A i \in DOMAIN launched' : socket'[launched'[i]] = "failed" => m + 1 <= i
      BY <3>1, <2>3
    <3>3. /\ m + 1 \in DOMAIN launched' /\ launched'[m + 1] = x
          /\ firstError' = x /\ x # 0 /\ socket'[x] = "failed"
      BY <2>2, <2>3, <2>4, <1>3, <1>4, <1>5, <1>9, <1>10
    <3>4. QED
      BY <3>2, <3>3 DEF ErrorInv
  <2>5. CASE firstError # 0
    <3>1. PICK k \in DOMAIN launched :
              /\ launched[k] = firstError
              /\ socket[firstError] = "failed"
              /\ \A i \in DOMAIN launched : socket[launched[i]] = "failed" => k <= i
      BY <2>5, <1>1 DEF ErrorInv
    <3>2. k \in DOMAIN launched' /\ launched'[k] = firstError /\ socket'[firstError] = "failed"
      BY <3>1, <2>1, <2>3, <1>9, <1>10
    <3>3. \A i \in DOMAIN launched : socket'[launched'[i]] = "failed" => k <= i
      BY <3>1, <2>1, <1>9, <1>10
    <3>4. k <= m + 1
      BY <2>2, <1>9, <3>1
    <3>5. \A i \in DOMAIN launched' : socket'[launched'[i]] = "failed" => k <= i
      BY <3>3, <3>4, <2>3
    <3>6. firstError' = firstError
      BY <2>5, <1>3
    <3>7. QED
      BY <2>5, <3>2, <3>5, <3>6 DEF ErrorInv
  <2>6. QED
    BY <2>4, <2>5
<1>15. PaceInv'
  BY <1>3, <1>4, <1>5 DEF PaceInv
<1>16. EndInv'
  BY <1>1, <1>3, GoesOn
<1>17. QED
  BY <1>4, <1>11, <1>12, <1>13, <1>14, <1>15, <1>16 DEF IInv

\* With nothing left to try the race waits for its attempts, or has failed with the
\* earliest error.
LEMMA LaunchNoneKeeps ==
    ASSUME IInv, LaunchNone
    PROVE  IInv'
<1>1. /\ TypeInv /\ ListsInv /\ TurnInv /\ SocketsInv
      /\ RoomInv /\ ErrorInv /\ PaceInv /\ EndInv
  BY DEF IInv
<1>2. /\ pc = "launch" /\ ~HasRemaining /\ delay' = "off"
      /\ UNCHANGED <<config, family, preferred, fallback, nextFallback, launched>>
      /\ attempts' = attempts /\ firstError' = firstError /\ socket' = socket
      /\ deadline' = deadline
      /\ \/ attempts = <<>> /\ pc' = "done" /\ result' = "failed"
         \/ attempts # <<>> /\ pc' = "wait" /\ result' = result
  BY DEF LaunchNone, Finish
<1>3. /\ ListsInv' /\ TurnInv'
      /\ Addrs' = Addrs /\ Eligible' = Eligible
  BY <1>1, <1>2, Standing
<1>4. TypeInv'
  BY <1>1, <1>2, <1>3 DEF TypeInv
<1>5. SocketsInv'
  BY <1>1, <1>2, <1>3 DEF SocketsInv
<1>6. RoomInv'
  BY <1>1, <1>2 DEF RoomInv
<1>7. ErrorInv'
  BY <1>1, <1>2, SameFailures
<1>8. PaceInv'
  BY <1>2 DEF PaceInv
<1>9. EndInv'
  <2>1. CASE pc' = "wait"
    BY <2>1, <1>1, <1>2, GoesOn
  <2>2. CASE pc' = "done"
    <3>1. attempts = <<>> /\ result' = "failed"
      BY <2>2, <1>2
    <3>2. preferred = <<>> /\ fallback = <<>> /\ Elems(<<>>) = {}
      BY <1>2 DEF HasRemaining, Elems
    <3>3. Eligible \subseteq Elems(launched) /\ Eligible \subseteq Addrs
      BY <1>1, <3>2, Families DEF ListsInv
    <3>4. \A a \in Eligible : socket[a] \in {"failed", "canceled"}
      <4>1. \A a \in Eligible : socket[a] \in SocketStates
        BY <1>1, <3>3 DEF TypeInv
      <4>2. \A a \in Eligible : socket[a] \notin {"none", "pending", "err", "ok"}
        BY <1>1, <1>2, <3>1, <3>2, <3>3 DEF SocketsInv
      <4>3. QED
        BY <4>1, <4>2 DEF SocketStates
    <3>5. GivesUpLast'
      BY <1>2, <1>3, <3>4 DEF GivesUpLast
    <3>6. ASSUME launched = <<>> PROVE EarliestError'
      <4>1. firstError = 0
        <5>1. firstError # 0 => \E k \in DOMAIN launched : TRUE
          BY <1>1 DEF ErrorInv
        <5>2. DOMAIN launched = {}
          BY <3>6
        <5>3. QED
          BY <5>1, <5>2
      <4>2. QED
        BY <3>6, <4>1, <1>2 DEF EarliestError
    <3>7. ASSUME launched # <<>> PROVE EarliestError'
      <4>1. firstError # 0
        BY <3>1, <3>7, <1>1, <1>2 DEF PaceInv
      <4>2. PICK k \in DOMAIN launched :
                /\ launched[k] = firstError
                /\ socket[firstError] = "failed"
                /\ \A i \in DOMAIN launched : socket[launched[i]] = "failed" => k <= i
        BY <4>1, <1>1 DEF ErrorInv
      <4>3. Order(firstError) = k
        BY <4>2, <1>1, OrderIs DEF ListsInv
      <4>4. DOMAIN launched = 1..Len(launched) /\ Len(launched) \in Nat
        BY <1>1, LenProperties DEF TypeInv
      <4>5. \A i \in 1..(k - 1) : i \in DOMAIN launched /\ ~ (k <= i)
        BY <4>4
      <4>6. \A i \in 1..(k - 1) : socket[launched[i]] # "failed"
        BY <4>2, <4>5
      <4>7. Order(firstError)' = Order(firstError)
        BY <1>2 DEF Order
      <4>8. \A i \in 1..(Order(firstError)' - 1) : socket'[launched'[i]] # "failed"
        BY <4>3, <4>6, <4>7, <1>2
      <4>9. QED
        BY <3>7, <4>1, <4>2, <4>8, <1>2 DEF EarliestError
    <3>8. EarliestError'
      BY <3>6, <3>7
    <3>9. QED
      BY <2>2, <3>1, <3>5, <3>8, <1>2 DEF EndInv
  <2>3. QED
    BY <2>1, <2>2, <1>2
<1>10. QED
  BY <1>3, <1>4, <1>5, <1>6, <1>7, <1>8, <1>9 DEF IInv
-----------------------------------------------------------------------------
(***************************************************************************)
(* Polls of the awaited future.                                            *)
(***************************************************************************)
\* Dropping active attempts: their sockets are canceled, and none of them had
\* failed.
LEMMA Drops ==
    ASSUME TypeInv, SocketsInv, NEW S \in SUBSET Elems(attempts), socket' = Dropped(S)
    PROVE  /\ S \subseteq Addrs
           /\ socket' \in [Addrs -> SocketStates]
           /\ \A a \in S : socket'[a] = "canceled"
           /\ \A a \in Addrs \ S : socket'[a] = socket[a]
           /\ \A a \in Addrs : socket'[a] = "failed" <=> socket[a] = "failed"
           /\ \A a \in Addrs : socket[a] # "none" => socket'[a] # "none"
<1>1. attempts \in Seq(Addrs) /\ socket \in [Addrs -> SocketStates]
  BY DEF TypeInv
<1>2. S \subseteq Addrs
  BY <1>1 DEF Elems
<1>3. socket' = [a \in Addrs |-> IF a \in S THEN "canceled" ELSE socket[a]]
  BY DEF Dropped
<1>4. \A a \in S : socket'[a] = "canceled" /\ socket[a] \in {"pending", "ok", "err"}
  BY <1>2, <1>3 DEF SocketsInv
<1>5. \A a \in Addrs \ S : socket'[a] = socket[a]
  BY <1>3
<1>6. socket' \in [Addrs -> SocketStates]
  BY <1>1, <1>3 DEF SocketStates
<1>7. \A a \in Addrs : socket'[a] = "failed" <=> socket[a] = "failed"
  BY <1>2, <1>4, <1>5
<1>8. \A a \in Addrs : socket[a] # "none" => socket'[a] # "none"
  BY <1>2, <1>4, <1>5
<1>9. QED
  BY <1>2, <1>4, <1>5, <1>6, <1>7, <1>8

\* The attempts that are polled are those of Elems.
LEMMA ActiveElems == Active = Elems(attempts)
BY DEF Active, Elems

\* A race that returned with a connection or at its deadline has dropped every
\* attempt but the one it returned.
LEMMA EndsDropping ==
    ASSUME IInv, NEW S \in SUBSET Elems(attempts), socket' = Dropped(S),
           \A a \in Elems(attempts) \ S : socket[a] = "ok",
           pc = "wait", pc' = "done", attempts' = <<>>, result' \in {"connected", "timeout"},
           UNCHANGED <<config, family, preferred, fallback, nextFallback, launched>>,
           UNCHANGED <<firstError, delay, deadline>>
    PROVE  IInv'
<1>1. /\ TypeInv /\ ListsInv /\ TurnInv /\ SocketsInv
      /\ RoomInv /\ ErrorInv /\ PaceInv /\ EndInv
  BY DEF IInv
<1>2. /\ ListsInv' /\ TurnInv' /\ Addrs' = Addrs /\ Eligible' = Eligible
  BY <1>1, Standing
<1>3. /\ S \subseteq Addrs
      /\ socket' \in [Addrs -> SocketStates]
      /\ \A a \in S : socket'[a] = "canceled"
      /\ \A a \in Addrs \ S : socket'[a] = socket[a]
      /\ \A a \in Addrs : socket'[a] = "failed" <=> socket[a] = "failed"
      /\ \A a \in Addrs : socket[a] # "none" => socket'[a] # "none"
  BY <1>1, Drops
<1>4. /\ <<>> \in Seq(Addrs) /\ Len(<<>>) = 0 /\ Elems(<<>>) = {} /\ Distinct(<<>>)
  BY EmptySeq DEF Elems, Distinct
<1>5. TypeInv'
  BY <1>1, <1>2, <1>3, <1>4 DEF TypeInv
<1>6. SocketsInv'
  <2>1. Elems(launched) \subseteq Addrs
    BY <1>1 DEF TypeInv, Elems
  <2>2. \A a \in Addrs : socket'[a] \notin {"pending", "err"}
    BY <1>1, <1>3 DEF SocketsInv
  <2>3. /\ \A a \in Elems(launched) : socket'[a] # "none"
        /\ \A a \in Addrs : socket'[a] = "failed" => a \in Elems(launched)
    BY <2>1, <1>1, <1>3 DEF SocketsInv
  <2>4. QED
    BY <2>2, <2>3, <1>2, <1>4 DEF SocketsInv
<1>7. RoomInv'
  BY <1>4, RaceAssumption DEF RoomInv
<1>8. ErrorInv'
  BY <1>1, <1>3, SameFailures
<1>9. PaceInv' /\ EndInv'
  BY DEF PaceInv, EndInv, GivesUpLast, EarliestError
<1>10. QED
  BY <1>2, <1>5, <1>6, <1>7, <1>8, <1>9 DEF IInv

\* The oldest connected attempt wins; the others are dropped.
LEMMA PollConnectedKeeps ==
    ASSUME IInv, PollConnected
    PROVE  IInv'
<1> DEFINE W == {i \in DOMAIN attempts : socket[attempts[i]] = "ok"}
<1>1. TypeInv /\ SocketsInv
  BY DEF IInv
<1>2. attempts \in Seq(Addrs) /\ Len(attempts) \in Nat /\ DOMAIN attempts = 1..Len(attempts)
  BY <1>1, LenProperties DEF TypeInv
<1>3. W \subseteq Nat /\ W # {}
  BY <1>2 DEF PollConnected, ReadyOk, Active
<1>4. PICK m \in W : \A y \in W : m <= y
  BY <1>3, LeastNatural
<1>5. m \in DOMAIN attempts /\ socket[attempts[m]] = "ok"
  BY <1>4
<1>6. \A j \in 1..(m - 1) : socket[attempts[j]] # "ok"
  <2>1. \A j \in 1..(m - 1) : j \in DOMAIN attempts /\ ~ (m <= j)
    BY <1>2, <1>5
  <2>2. QED
    BY <2>1, <1>4
<1>7. socket[Winner] = "ok"
  BY <1>5, <1>6 DEF Winner
<1>8. PICK w : w = Winner
  OBVIOUS
<1>9. PICK S : S = Elems(attempts) \ {w}
  OBVIOUS
<1>10. /\ socket' = Dropped(S) /\ S \in SUBSET Elems(attempts)
       /\ \A a \in Elems(attempts) \ S : socket[a] = "ok"
  BY <1>7, <1>8, <1>9, ActiveElems DEF PollConnected
<1>11. /\ pc = "wait" /\ pc' = "done" /\ attempts' = <<>>
       /\ result' \in {"connected", "timeout"}
       /\ UNCHANGED <<config, family, preferred, fallback, nextFallback, launched>>
       /\ UNCHANGED <<firstError, delay, deadline>>
  BY DEF PollConnected, Finish
<1>12. QED
  BY <1>10, <1>11, EndsDropping

\* The deadline drops every attempt.
LEMMA TimeoutKeeps ==
    ASSUME IInv, Timeout
    PROVE  IInv'
<1>1. PICK S : S = Elems(attempts)
  OBVIOUS
<1>2. /\ socket' = Dropped(S) /\ S \in SUBSET Elems(attempts)
      /\ \A a \in Elems(attempts) \ S : socket[a] = "ok"
  BY <1>1, ActiveElems DEF Timeout
<1>3. /\ pc = "wait" /\ pc' = "done" /\ attempts' = <<>>
      /\ result' \in {"connected", "timeout"}
      /\ UNCHANGED <<config, family, preferred, fallback, nextFallback, launched>>
      /\ UNCHANGED <<firstError, delay, deadline>>
  BY DEF Timeout, Finish
<1>4. QED
  BY <1>2, <1>3, EndsDropping

\* Failed attempts leave the set and are recorded, however many fail in one poll.
LEMMA PollFailedKeeps ==
    ASSUME IInv, PollFailed
    PROVE  IInv'
<1>1. /\ TypeInv /\ ListsInv /\ TurnInv /\ SocketsInv
      /\ RoomInv /\ ErrorInv /\ PaceInv /\ EndInv
  BY DEF IInv
<1>2. PICK F : F = ReadyErr
  OBVIOUS
<1>3. PICK S : S = Elems(attempts) \ F
  OBVIOUS
<1>4. /\ pc = "wait" /\ F # {}
      /\ attempts' = Retain(attempts, S)
      /\ socket' = [a \in Addrs |-> IF a \in F THEN "failed" ELSE socket[a]]
      /\ firstError' = Recorded(F)
      /\ pc' = IF attempts' = <<>> THEN "launch" ELSE "wait"
      /\ UNCHANGED <<config, family, preferred, fallback, nextFallback, launched>>
      /\ delay' = delay /\ deadline' = deadline /\ result' = result
  BY <1>2, <1>3, ActiveElems DEF PollFailed
<1>5. /\ ListsInv' /\ TurnInv' /\ Addrs' = Addrs /\ Eligible' = Eligible
      /\ HasRemaining' <=> HasRemaining
  BY <1>1, <1>4, Standing
<1>6. /\ attempts \in Seq(Addrs) /\ launched \in Seq(Addrs)
      /\ socket \in [Addrs -> SocketStates] /\ firstError \in Addrs \cup {0}
  BY <1>1 DEF TypeInv
<1>7. /\ Distinct(attempts) /\ Elems(attempts) \subseteq Elems(launched)
      /\ \A a \in Elems(attempts) : socket[a] \in {"pending", "ok", "err"}
      /\ \A a \in Elems(launched) : socket[a] # "none"
      /\ \A a \in Addrs : socket[a] = "failed" => a \in Elems(launched)
      /\ \A a \in Addrs : socket[a] \in {"pending", "err"} => a \in Elems(attempts)
      /\ \A a \in Addrs : socket[a] = "ok" => a \in Elems(attempts)
  BY <1>1, <1>4 DEF SocketsInv
<1>8. F = {a \in Elems(attempts) : socket[a] = "err"}
  BY <1>2, ActiveElems DEF ReadyErr
<1>9. Elems(launched) \subseteq Addrs /\ Elems(attempts) \subseteq Addrs
  BY <1>6 DEF Elems
<1>10. /\ attempts' \in Seq(Addrs) /\ Elems(attempts') = Elems(attempts) \ F
       /\ Distinct(attempts')
  BY <1>3, <1>4, <1>6, <1>7, RetainElems
<1>11. /\ \A a \in Addrs : a \in F => socket'[a] = "failed"
       /\ \A a \in Addrs : a \notin F => socket'[a] = socket[a]
       /\ socket' \in [Addrs -> SocketStates]
  BY <1>4, <1>6 DEF SocketStates
<1>12. PICK E : E = F \cup ({firstError} \ {0})
  OBVIOUS
<1>13. /\ E # {} /\ E \subseteq Elems(launched)
       /\ firstError' = CHOOSE a \in E : \A b \in E : Order(a) <= Order(b)
  <2>1. firstError # 0 => firstError \in Elems(launched)
    BY <1>1 DEF ErrorInv, Elems
  <2>2. E # {} /\ E \subseteq Elems(launched)
    BY <2>1, <1>4, <1>7, <1>8, <1>12
  <2>3. Recorded(F) = CHOOSE a \in E : \A b \in E : Order(a) <= Order(b)
    BY <1>4, <1>12 DEF Recorded
  <2>4. QED
    BY <2>2, <2>3, <1>4
<1>14. PICK k \in DOMAIN launched :
          /\ launched[k] = firstError'
          /\ firstError' \in E
          /\ \A i \in DOMAIN launched : launched[i] \in E => k <= i
  <2>1. Distinct(launched)
    BY <1>1 DEF ListsInv
  <2>2. \E k \in DOMAIN launched :
          /\ launched[k] = CHOOSE a \in E : \A b \in E : Order(a) <= Order(b)
          /\ launched[k] \in E
          /\ \A i \in DOMAIN launched : launched[i] \in E => k <= i
    BY <2>1, <1>1, <1>13, EarliestOf
  <2>3. QED
    BY <2>2, <1>13
<1>15. firstError' \in Addrs /\ firstError' # 0
  BY <1>1, <1>9, <1>13, <1>14, Families
<1>16. TypeInv'
  BY <1>1, <1>4, <1>5, <1>10, <1>11, <1>15 DEF TypeInv
<1>17. SocketsInv'
  <2>1. \A a \in Elems(attempts') : socket'[a] \in {"pending", "ok", "err"}
    BY <1>7, <1>9, <1>10, <1>11
  <2>2. \A a \in Elems(launched) : socket'[a] # "none"
    BY <1>7, <1>9, <1>11
  <2>3. \A a \in Addrs : socket'[a] = "failed" => a \in Elems(launched)
    BY <1>7, <1>8, <1>11
  <2>4. \A a \in Addrs : socket'[a] \in {"pending", "err", "ok"} => a \in Elems(attempts')
    BY <1>7, <1>8, <1>10, <1>11
  <2>5. QED
    BY <2>1, <2>2, <2>3, <2>4, <1>4, <1>5, <1>7, <1>10 DEF SocketsInv
<1>18. RoomInv'
  <2>1. PICK n, m : n = Len(attempts) /\ m = Len(attempts')
    OBVIOUS
  <2>2. n \in Nat /\ m \in Nat /\ m <= n
    BY <2>1, <1>4, <1>6, <1>10, RetainLength, LenProperties
  <2>3. n <= MaxParallel
    BY <2>1, <1>1 DEF RoomInv
  <2>4. pc' = "launch" => m = 0
    BY <2>1, <1>4
  <2>5. m <= MaxParallel /\ (m = 0 => m < MaxParallel)
    BY <2>2, <2>3, RaceAssumption
  <2>6. QED
    BY <2>1, <2>4, <2>5 DEF RoomInv
<1>19. ErrorInv'
  <2>1. socket'[firstError'] = "failed"
    <3>1. firstError' \in F \/ (firstError' = firstError /\ firstError # 0)
      BY <1>12, <1>14
    <3>2. firstError # 0 => socket[firstError] = "failed"
      BY <1>1 DEF ErrorInv
    <3>3. QED
      BY <3>1, <3>2, <1>11, <1>15
  <2>2. ASSUME NEW i \in DOMAIN launched, socket'[launched[i]] = "failed"
        PROVE  k <= i
    <3>1. launched[i] \in Addrs
      BY <1>6
    <3>2. CASE launched[i] \in F
      BY <3>2, <1>12, <1>14
    <3>3. CASE launched[i] \notin F
      <4>1. socket[launched[i]] = "failed"
        BY <2>2, <3>1, <3>3, <1>11
      <4>2. firstError # 0
        BY <4>1, <3>1, <1>1 DEF ErrorInv
      <4>3. PICK l \in DOMAIN launched :
                /\ launched[l] = firstError
                /\ \A j \in DOMAIN launched : socket[launched[j]] = "failed" => l <= j
        BY <4>2, <1>1 DEF ErrorInv
      <4>4. l <= i /\ k <= l
        BY <4>1, <4>2, <4>3, <1>12, <1>14
      <4>5. DOMAIN launched = 1..Len(launched) /\ Len(launched) \in Nat
        BY <1>6, LenProperties
      <4>6. k \in Nat /\ l \in Nat /\ i \in Nat
        BY <4>5
      <4>7. QED
        BY <4>4, <4>6
    <3>4. QED
      BY <3>2, <3>3
  <2>3. QED
    BY <2>1, <2>2, <1>4, <1>14, <1>15 DEF ErrorInv
<1>20. PaceInv'
  BY <1>1, <1>4, <1>5, <1>15 DEF PaceInv
<1>21. EndInv'
  BY <1>1, <1>4, GoesOn
<1>22. QED
  BY <1>5, <1>16, <1>17, <1>18, <1>19, <1>20, <1>21 DEF IInv

\* The elapsed delay makes room; at the limit the oldest attempt is dropped.
LEMMA DelayElapsedKeeps ==
    ASSUME IInv, DelayElapsed
    PROVE  IInv'
<1>1. /\ TypeInv /\ ListsInv /\ TurnInv /\ SocketsInv
      /\ RoomInv /\ ErrorInv /\ PaceInv /\ EndInv
  BY DEF IInv
<1>2. /\ pc = "wait" /\ pc' = "launch" /\ delay = "elapsed" /\ MakeRoom
      /\ UNCHANGED <<config, family, preferred, fallback, nextFallback, launched>>
      /\ firstError' = firstError /\ delay' = delay /\ deadline' = deadline
      /\ result' = result
  BY DEF DelayElapsed
<1>3. /\ ListsInv' /\ TurnInv' /\ Addrs' = Addrs /\ Eligible' = Eligible
      /\ HasRemaining' <=> HasRemaining
  BY <1>1, <1>2, Standing
<1>4. PaceInv'
  BY <1>1, <1>2, <1>3 DEF PaceInv
<1>5. EndInv'
  BY <1>1, <1>2, GoesOn
<1>6. /\ attempts \in Seq(Addrs) /\ Len(attempts) \in Nat
      /\ \A a \in Elems(attempts) : a \in Addrs
  BY <1>1, LenProperties DEF TypeInv, Elems
<1>7. CASE Len(attempts) < MaxParallel
  <2>1. attempts' = attempts /\ socket' = socket
    BY <1>2, <1>7 DEF MakeRoom
  <2>2. TypeInv' /\ SocketsInv'
    BY <2>1, <1>1, <1>2, <1>3 DEF TypeInv, SocketsInv
  <2>3. RoomInv'
    BY <2>1, <1>1, <1>7 DEF RoomInv
  <2>4. ErrorInv'
    BY <2>1, <1>1, <1>2, SameFailures
  <2>5. QED
    BY <2>2, <2>3, <2>4, <1>3, <1>4, <1>5 DEF IInv
<1>8. CASE ~ (Len(attempts) < MaxParallel)
  <2>1. PICK h : h = Head(attempts)
    OBVIOUS
  <2>2. attempts' = Tail(attempts) /\ socket' = Dropped({h})
    BY <2>1, <1>2, <1>8 DEF MakeRoom
  <2>3. Len(attempts) = MaxParallel /\ attempts # <<>>
    BY <1>1, <1>6, <1>8, RaceAssumption DEF RoomInv
  <2>4. /\ h \in Elems(attempts)
        /\ attempts' \in Seq(Addrs)
        /\ Len(attempts') \in Nat /\ Len(attempts') + 1 = Len(attempts)
        /\ Elems(attempts') \subseteq Elems(attempts)
        /\ Elems(attempts) \subseteq Elems(attempts') \cup {h}
        /\ Distinct(attempts') /\ h \notin Elems(attempts')
    BY <2>1, <2>2, <2>3, <1>1, <1>6, TailElems DEF SocketsInv
  <2>5. PICK S : S = {h}
    OBVIOUS
  <2>6. /\ socket' \in [Addrs -> SocketStates]
        /\ socket'[h] = "canceled"
        /\ \A a \in Addrs : a # h => socket'[a] = socket[a]
        /\ \A a \in Addrs : socket'[a] = "failed" <=> socket[a] = "failed"
        /\ \A a \in Addrs : socket[a] # "none" => socket'[a] # "none"
    <3>1. S \in SUBSET Elems(attempts) /\ socket' = Dropped(S) /\ h \in Addrs
      BY <2>2, <2>4, <2>5, <1>6
    <3>2. /\ socket' \in [Addrs -> SocketStates]
          /\ \A a \in S : socket'[a] = "canceled"
          /\ \A a \in Addrs \ S : socket'[a] = socket[a]
          /\ \A a \in Addrs : socket'[a] = "failed" <=> socket[a] = "failed"
          /\ \A a \in Addrs : socket[a] # "none" => socket'[a] # "none"
      BY <3>1, <1>1, Drops
    <3>3. QED
      BY <3>2, <2>5
  <2>7. TypeInv'
    BY <2>4, <2>6, <1>1, <1>2, <1>3 DEF TypeInv
  <2>8. SocketsInv'
    <3>1. Elems(launched) \subseteq Addrs
      BY <1>1 DEF TypeInv, Elems
    <3>2. /\ \A a \in Elems(launched) : socket'[a] # "none"
          /\ \A a \in Addrs : socket'[a] = "failed" => a \in Elems(launched)
          /\ Elems(attempts') \subseteq Elems(launched)
      BY <3>1, <2>4, <2>6, <1>1 DEF SocketsInv
    <3>3. \A a \in Elems(attempts') : socket'[a] \in {"pending", "ok", "err"}
      BY <2>4, <2>6, <1>1, <1>6 DEF SocketsInv
    <3>4. \A a \in Addrs : socket'[a] \in {"pending", "ok", "err"} => a \in Elems(attempts')
      BY <2>4, <2>6, <1>1, <1>2 DEF SocketsInv
    <3>5. QED
      BY <3>2, <3>3, <3>4, <2>4, <1>2, <1>3 DEF SocketsInv
  <2>9. RoomInv'
    <3>1. Len(attempts') < MaxParallel /\ Len(attempts') <= MaxParallel
      BY <2>3, <2>4, <1>6
    <3>2. QED
      BY <3>1 DEF RoomInv
  <2>10. ErrorInv'
    BY <2>6, <1>1, <1>2, SameFailures
  <2>11. QED
    BY <2>7, <2>8, <2>9, <2>10, <1>3, <1>4, <1>5 DEF IInv
<1>9. QED
  BY <1>7, <1>8
-----------------------------------------------------------------------------
(***************************************************************************)
(* Sockets and timers.                                                     *)
(***************************************************************************)
\* A socket that answers is one of an active attempt.
LEMMA SocketReadyKeeps ==
    ASSUME IInv, NEW x \in Addrs, SocketReady(x)
    PROVE  IInv'
<1>1. /\ TypeInv /\ ListsInv /\ TurnInv /\ SocketsInv
      /\ RoomInv /\ ErrorInv /\ PaceInv /\ EndInv
  BY DEF IInv
<1>2. PICK s \in {"ok", "err"} : socket' = [socket EXCEPT ![x] = s]
  BY DEF SocketReady
<1>3. /\ socket[x] = "pending"
      /\ UNCHANGED <<config, family, preferred, fallback, nextFallback, launched>>
      /\ attempts' = attempts /\ firstError' = firstError /\ delay' = delay
      /\ deadline' = deadline /\ pc' = pc /\ result' = result
  BY DEF SocketReady
<1>4. /\ ListsInv' /\ TurnInv' /\ Addrs' = Addrs /\ Eligible' = Eligible
      /\ HasRemaining' <=> HasRemaining
  BY <1>1, <1>3, Standing
<1>5. /\ socket \in [Addrs -> SocketStates]
      /\ Elems(attempts) \subseteq Addrs /\ Elems(launched) \subseteq Addrs
  BY <1>1 DEF TypeInv, Elems
<1>6. /\ socket'[x] \in {"ok", "err"}
      /\ \A a \in Addrs : a # x => socket'[a] = socket[a]
      /\ socket' \in [Addrs -> SocketStates]
  BY <1>2, <1>5 DEF SocketStates
<1>7. x \in Elems(attempts)
  BY <1>1, <1>3 DEF SocketsInv
<1>8. pc # "done"
  <2>1. Elems(<<>>) = {}
    BY DEF Elems
  <2>2. QED
    BY <2>1, <1>1, <1>7 DEF EndInv
<1>9. TypeInv'
  BY <1>1, <1>3, <1>4, <1>6 DEF TypeInv
<1>10. SocketsInv'
  BY <1>1, <1>3, <1>4, <1>5, <1>6, <1>7, <1>8 DEF SocketsInv
<1>11. RoomInv' /\ PaceInv'
  BY <1>1, <1>3, <1>4 DEF RoomInv, PaceInv
<1>12. \A a \in Addrs : socket'[a] = "failed" <=> socket[a] = "failed"
  BY <1>3, <1>6
<1>13. ErrorInv'
  BY <1>1, <1>3, <1>12, SameFailures
<1>14. EndInv'
  BY <1>1, <1>3, <1>8, GoesOn
<1>15. QED
  BY <1>4, <1>9, <1>10, <1>11, <1>13, <1>14 DEF IInv

\* A timer that elapses changes nothing else; a step may also change nothing.
LEMMA TimersKeep ==
    ASSUME IInv,
           UNCHANGED <<config, family, preferred, fallback, nextFallback, launched>>,
           UNCHANGED <<attempts, firstError, socket, pc, result>>,
           delay' = delay \/ (delay = "running" /\ delay' = "elapsed"),
           deadline' \in {deadline, "elapsed"}
    PROVE  IInv'
<1>1. /\ TypeInv /\ ListsInv /\ TurnInv /\ SocketsInv
      /\ RoomInv /\ ErrorInv /\ PaceInv /\ EndInv
  BY DEF IInv
<1>2. /\ ListsInv' /\ TurnInv' /\ Addrs' = Addrs /\ Eligible' = Eligible
      /\ HasRemaining' <=> HasRemaining
  BY <1>1, Standing
<1>3. TypeInv'
  BY <1>1, <1>2 DEF TypeInv
<1>4. SocketsInv' /\ RoomInv'
  BY <1>1, <1>2 DEF SocketsInv, RoomInv
<1>5. PaceInv'
  BY <1>1, <1>2 DEF PaceInv
<1>6. ErrorInv'
  BY <1>1, SameFailures
<1>7. EndInv'
  <2>1. Order(firstError)' = Order(firstError)
    BY DEF Order
  <2>2. GivesUpLast'
    BY <1>1, <1>2 DEF EndInv, GivesUpLast
  <2>3. EarliestError'
    BY <2>1, <1>1 DEF EndInv, EarliestError
  <2>4. QED
    BY <2>2, <2>3, <1>1 DEF EndInv
<1>8. QED
  BY <1>2, <1>3, <1>4, <1>5, <1>6, <1>7 DEF IInv
-----------------------------------------------------------------------------
(***************************************************************************)
(* The theorem.                                                            *)
(***************************************************************************)
\* Every step of the race, and every stuttering step, keeps the invariant.
LEMMA StepInv == IInv /\ [Next]_vars => IInv'
<1> SUFFICES ASSUME IInv, [Next]_vars PROVE IInv'
  OBVIOUS
<1>1. CASE LaunchNext
  BY <1>1, LaunchNextKeeps
<1>2. CASE LaunchFails
  BY <1>2, LaunchFailsKeeps
<1>3. CASE LaunchNone
  BY <1>3, LaunchNoneKeeps
<1>4. CASE PollConnected
  BY <1>4, PollConnectedKeeps
<1>5. CASE PollFailed
  BY <1>5, PollFailedKeeps
<1>6. CASE DelayElapsed
  BY <1>6, DelayElapsedKeeps
<1>7. CASE Timeout
  BY <1>7, TimeoutKeeps
<1>8. CASE \E a \in Addrs : SocketReady(a)
  BY <1>8, SocketReadyKeeps
<1>9. CASE DelayEnds \/ DeadlineEnds
  BY <1>9, TimersKeep DEF DelayEnds, DeadlineEnds
<1>10. CASE Returned \/ UNCHANGED vars
  BY <1>10, TimersKeep DEF Returned, vars
<1>11. QED
  BY <1>1, <1>2, <1>3, <1>4, <1>5, <1>6, <1>7, <1>8, <1>9, <1>10 DEF Next, Step

\* The invariant says what RaceInv says.
LEMMA InvTells == IInv => RaceInv
<1> SUFFICES ASSUME IInv PROVE RaceInv
  OBVIOUS
<1>1. TypeOK
  BY DEF IInv, TypeInv, ListsInv, TypeOK
<1>2. ParallelBound
  BY ActiveElems DEF IInv, RoomInv, SocketsInv, ParallelBound
<1>3. Alternates
  <2>1. SUFFICES ASSUME preferred # <<>>, fallback # <<>>
                 PROVE  Cardinality({i \in DOMAIN launched : launched[i] \in PreferredSet})
                          - Cardinality({i \in DOMAIN launched : launched[i] \in Addrs \ PreferredSet})
                        \in {0, 1}
    BY DEF Alternates
  <2>2. Tried(PreferredSet) - Tried(Addrs \ PreferredSet) \in {0, 1}
    BY <2>1 DEF IInv, TurnInv
  <2>3. QED
    BY <2>2 DEF Tried, KeptIndices
<1>4. GivesUpLast /\ EarliestError
  BY DEF IInv, EndInv
<1>5. QED
  BY <1>1, <1>2, <1>3, <1>4 DEF RaceInv

\* For a resolved list of any length, any limit of parallel attempts and any
\* options, whatever order the sockets answer in and the timers elapse:
\* ConnectingTcpState keeps no more sockets connecting than the limit and polls
\* each of them, loses or repeats no address, alternates the families while both
\* have candidates, gives up only when every eligible address has failed or was
\* dropped to make room, and reports the error of the address tried first among
\* those that failed.
THEOREM RaceSafety == Spec => []RaceInv
<1>1. Init => IInv
  BY InitInv
<1>2. IInv /\ [Next]_vars => IInv'
  BY StepInv
<1>3. IInv => RaceInv
  BY InvTells
<1>4. QED
  BY <1>1, <1>2, <1>3, PTL DEF Spec
=============================================================================
