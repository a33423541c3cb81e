---------------------------- MODULE RetainProofs ----------------------------
(***************************************************************************)
(* What Retain computes, for every sequence.                               *)
(***************************************************************************)
EXTENDS Retain, NaturalsInduction, WellFoundedInduction, TLAPS

\* Every non-empty set of natural numbers has a smallest element.
LEMMA LeastNatural ==
    ASSUME NEW T, T \subseteq Nat, T # {}
    PROVE  \E x \in T : \A y \in T : x <= y
<1> DEFINE R == OpToRel(<, Nat)
<1>1. IsWellFoundedOn(R, Nat)
  BY NatLessThanWellFounded
<1>2. \A x, y \in Nat : y < x => <<y, x>> \in R
  BY DEF OpToRel
<1> HIDE DEF R
<1>3. PICK x \in T : \A y \in T : ~ (<<y, x>> \in R)
  BY <1>1, WFMin
<1>4. \A y \in T : ~ (y < x)
  BY <1>2, <1>3
<1>5. \A y \in T : x <= y
  BY <1>4
<1>6. QED
  BY <1>5

\* Every set of indices up to n can be enumerated in increasing order.
LEMMA EnumerationExists ==
    ASSUME NEW n \in Nat, NEW I \in SUBSET (1..n)
    PROVE  \E f \in UNION {[1..m -> I] : m \in 0..n} : IsEnumeration(f, I)
<1> DEFINE Ok(k, J) == \E m \in 0..k : \E f \in [1..m -> J] : IsEnumeration(f, J)
           Bad == {k \in Nat : \E J \in SUBSET (1..k) : ~Ok(k, J)}
<1>1. ASSUME Bad # {} PROVE FALSE
  <2>1. PICK k \in Bad : \A l \in Bad : k <= l
    BY <1>1, LeastNatural
  <2>2. PICK J \in SUBSET (1..k) : ~Ok(k, J)
    BY <2>1
  <2>3. CASE k = 0
    <3>1. J = {}
      BY <2>2, <2>3
    <3>2. <<>> \in [1..0 -> J] /\ DOMAIN <<>> = {}
      BY <3>1
    <3>3. IsEnumeration(<<>>, J)
      BY <3>1, <3>2 DEF IsEnumeration
    <3>4. 0 \in 0..k
      BY <2>3
    <3>5. Ok(k, J)
      BY <3>2, <3>3, <3>4
    <3>6. QED
      BY <2>2, <3>5
  <2>4. CASE k # 0
    <3> DEFINE K == J \ {k}
    <3>b. k \in Nat
      BY <2>1
    <3>c. k - 1 \in Nat /\ ~ (k <= k - 1)
      BY <3>b, <2>4
    <3>d. k - 1 \notin Bad
      <4> HIDE DEF Bad
      <4> QED
        BY <2>1, <3>c
    <3>1. k - 1 \in Nat /\ k - 1 \notin Bad
      BY <3>c, <3>d
    <3>2. K \in SUBSET (1..(k-1))
      BY <2>2, <2>1
    <3>a. PICK m \in 0..(k-1) : \E f \in [1..m -> K] : IsEnumeration(f, K)
      BY <3>1, <3>2
    <3>3. PICK f \in [1..m -> K] : IsEnumeration(f, K)
      BY <3>a
    <3>4. CASE k \notin J
      BY <3>3, <3>4, <2>2, <2>1
    <3>5. CASE k \in J
      <4> DEFINE g == [i \in 1..(m+1) |-> IF i = m + 1 THEN k ELSE f[i]]
      <4>1. m + 1 \in 0..k /\ m \in Nat
        BY <3>3, <2>1
      <4>2. g \in [1..(m+1) -> J]
        BY <3>3, <3>5, <4>1
      <4>3. ASSUME NEW i \in 1..(m+1), NEW j \in 1..(m+1), i < j PROVE g[i] < g[j]
        <5>a. i \in 1..m /\ i # m + 1
          BY <4>3, <4>1
        <5>b. f[i] \in K
          BY <5>a, <3>3
        <5>c. f[i] \in 1..(k-1)
          <6> HIDE DEF K
          <6> QED
            BY <5>b, <3>2
        <5>1. i \in 1..m /\ f[i] \in 1..(k-1) /\ g[i] = f[i]
          BY <5>a, <5>c
        <5>2. CASE j = m + 1
          BY <5>1, <5>2, <2>1
        <5>3. CASE j # m + 1
          BY <5>1, <5>3, <4>1, <4>3, <3>3 DEF IsEnumeration
        <5>4. QED
          BY <5>2, <5>3
      <4>4. ASSUME NEW x \in J PROVE \E i \in 1..(m+1) : g[i] = x
        <5>1. CASE x = k
          BY <5>1, <4>1
        <5>2. CASE x # k
          <6>1. PICK i \in 1..m : f[i] = x
            BY <5>2, <3>3 DEF IsEnumeration
          <6>2. i \in 1..(m+1) /\ g[i] = x
            BY <6>1, <4>1
          <6>3. QED
            BY <6>2
        <5>3. QED
          BY <5>1, <5>2
      <4>5. IsEnumeration(g, J)
        <5>1. DOMAIN g = 1..(m+1)
          OBVIOUS
        <5> HIDE DEF g
        <5>2. QED
          BY <5>1, <4>3, <4>4 DEF IsEnumeration
      <4> HIDE DEF g
      <4>6. QED
        BY <4>1, <4>2, <4>5, <2>2
    <3>6. QED
      BY <3>4, <3>5
  <2>5. QED
    BY <2>3, <2>4
<1>2. Ok(n, I)
  BY <1>1
<1>3. QED
  BY <1>2

\* f maps the positions of r increasingly onto the positions of s with a value
\* in S, and r has the values there.
Selects(f, r, s, S) ==
    /\ \A i \in DOMAIN r : r[i] = s[f[i]]
    /\ \A i, j \in DOMAIN r : i < j => f[i] < f[j]
    /\ \A x \in DOMAIN s : s[x] \in S => \E i \in DOMAIN r : f[i] = x

\* Retain keeps exactly the elements in S, in their order.
LEMMA RetainFacts ==
    ASSUME NEW A, NEW s \in Seq(A), NEW S
    PROVE  /\ Retain(s, S) \in Seq(A)
           /\ \A i \in DOMAIN Retain(s, S) : Retain(s, S)[i] \in S
           /\ \E f \in [DOMAIN Retain(s, S) -> DOMAIN s] : Selects(f, Retain(s, S), s, S)
<1> DEFINE I == KeptIndices(s, S)
           F == UNION {[1..m -> I] : m \in 0..Len(s)}
           f == Enumeration(I, Len(s))
<1>1. I \in SUBSET (1..Len(s)) /\ Len(s) \in Nat /\ DOMAIN s = 1..Len(s)
  BY DEF KeptIndices
<1>2. \E g \in F : IsEnumeration(g, I)
  BY <1>1, EnumerationExists
<1>3. f \in F /\ IsEnumeration(f, I)
  <2>1. f = CHOOSE g \in F : IsEnumeration(g, I)
    BY DEF Enumeration
  <2> HIDE DEF F, I, f
  <2>2. QED
    BY <1>2, <2>1
<1>4. PICK m \in 0..Len(s) : f \in [1..m -> I]
  BY <1>3
<1>5. Retain(s, S) = [i \in 1..m |-> s[f[i]]]
  BY <1>4 DEF Retain
<1>6. \A i \in 1..m : f[i] \in DOMAIN s /\ s[f[i]] \in S
  BY <1>4 DEF KeptIndices
<1>7. \A i \in 1..m : s[f[i]] \in A
  BY <1>6, <1>1
<1>8. m \in Nat
  BY <1>1
<1>9. \A x \in DOMAIN s : s[x] \in S => \E i \in 1..m : f[i] = x
  BY <1>3, <1>4 DEF IsEnumeration, KeptIndices
<1>10. \A i, j \in 1..m : i < j => f[i] < f[j]
  BY <1>3, <1>4 DEF IsEnumeration
<1> HIDE DEF I, f
<1>11. f \in [1..m -> DOMAIN s]
  BY <1>4, <1>6
<1>12. Retain(s, S) \in Seq(A) /\ DOMAIN Retain(s, S) = 1..m
  BY <1>5, <1>7, <1>8
<1>13. Selects(f, Retain(s, S), s, S)
  BY <1>5, <1>9, <1>10, <1>12 DEF Selects
<1>14. \A i \in DOMAIN Retain(s, S) : Retain(s, S)[i] \in S
  BY <1>5, <1>6, <1>12
<1>15. QED
  BY <1>11, <1>12, <1>13, <1>14

\* Retain makes no list longer, and shorter if something is dropped.
LEMMA RetainLength ==
    ASSUME NEW A, NEW s \in Seq(A), NEW S
    PROVE  /\ Len(Retain(s, S)) <= Len(s)
           /\ \A x \in DOMAIN s : s[x] \notin S => Len(Retain(s, S)) < Len(s)
<1> DEFINE r == Retain(s, S)
<1>1. r \in Seq(A) /\ \A i \in DOMAIN r : r[i] \in S
  BY RetainFacts
<1>2. PICK f \in [DOMAIN r -> DOMAIN s] : Selects(f, r, s, S)
  BY RetainFacts
<1> HIDE DEF r
<1>3. /\ Len(r) \in Nat /\ DOMAIN r = 1..Len(r)
      /\ Len(s) \in Nat /\ DOMAIN s = 1..Len(s)
  BY <1>1
<1>4. /\ \A i \in 1..Len(r) : f[i] \in 1..Len(s) /\ r[i] = s[f[i]]
      /\ \A i, j \in 1..Len(r) : i < j => f[i] < f[j]
  BY <1>2, <1>3 DEF Selects
<1>5. ASSUME NEW x \in 0..Len(s), x # 0 => s[x] \notin S
      PROVE  \A i \in 1..Len(r) : f[i] # x /\ f[i] >= (IF f[i] > x /\ x # 0 THEN i + 1 ELSE i)
  <2> DEFINE Low(i) == IF f[i] > x /\ x # 0 THEN i + 1 ELSE i
             B == {i \in 1..Len(r) : ~ (f[i] >= Low(i))}
  <2>1. \A i \in 1..Len(r) : f[i] # x
    BY <1>1, <1>3, <1>4, <1>5
  <2>2. ASSUME B # {} PROVE FALSE
    <3>1. B \subseteq Nat
      BY <1>3
    <3>2. PICK i \in B : \A j \in B : i <= j
      BY <2>2, <3>1, LeastNatural
    <3>3. i \in 1..Len(r) /\ ~ (f[i] >= Low(i)) /\ f[i] \in Nat /\ f[i] # 0
      BY <1>3, <1>4, <3>2
    <3>4. CASE i = 1
      BY <1>3, <1>5, <2>1, <3>3, <3>4
    <3>5. CASE i # 1
      <4>1. i - 1 \in 1..Len(r) /\ i - 1 < i
        BY <1>3, <3>3, <3>5
      <4>2. i - 1 \notin B
        <5> HIDE DEF B
        <5>1. ~ (i <= i - 1)
          BY <3>3
        <5>2. QED
          BY <3>2, <5>1
      <4>3. f[i - 1] >= Low(i - 1) /\ f[i - 1] < f[i] /\ f[i - 1] \in Nat
        BY <1>3, <1>4, <3>3, <4>1, <4>2
      <4>4. f[i] # x /\ f[i - 1] # x
        BY <2>1, <3>3, <4>1
      <4>5. QED
        BY <1>3, <1>5, <3>3, <4>1, <4>3, <4>4
    <3>6. QED
      BY <3>4, <3>5
  <2>3. QED
    BY <2>1, <2>2
<1>6. Len(r) <= Len(s)
  <2>1. CASE Len(r) = 0
    BY <1>3, <2>1
  <2>2. CASE Len(r) # 0
    <3>1. Len(r) \in 1..Len(r) /\ 0 \in 0..Len(s)
      BY <1>3, <2>2
    <3>2. f[Len(r)] >= Len(r) /\ f[Len(r)] \in 1..Len(s)
      BY <1>4, <1>5, <3>1
    <3>3. QED
      BY <1>3, <3>2
  <2>3. QED
    BY <2>1, <2>2
<1>7. ASSUME NEW x \in DOMAIN s, s[x] \notin S PROVE Len(r) < Len(s)
  <2>1. x \in 1..Len(s) /\ x \in 0..Len(s) /\ x # 0
    BY <1>3
  <2>2. CASE Len(r) = 0
    BY <1>3, <2>1, <2>2
  <2>3. CASE Len(r) # 0
    <3>1. Len(r) \in 1..Len(r)
      BY <1>3, <2>3
    <3>2. /\ f[Len(r)] # x /\ f[Len(r)] \in 1..Len(s)
          /\ f[Len(r)] >= (IF f[Len(r)] > x /\ x # 0 THEN Len(r) + 1 ELSE Len(r))
      BY <1>4, <1>5, <1>7, <2>1, <3>1
    <3>3. QED
      BY <1>3, <2>1, <3>2
  <2>4. QED
    BY <2>2, <2>3
<1>8. QED
  BY <1>6, <1>7 DEF r
=============================================================================
