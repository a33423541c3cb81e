------------------------------- MODULE Retain -------------------------------
(***************************************************************************)
(* `Vec::retain`, `VecDeque::retain` and `LruCache::pop` all keep some     *)
(* elements of a list in the order they had.  Retain(s, S) is the          *)
(* subsequence of s made of its elements in S.  It equals SelectSeq with   *)
(* the test "is in S", but it is defined through the increasing            *)
(* enumeration of the retained indices rather than by recursion over the   *)
(* list, so that what it computes can be proved for every list             *)
(* (RetainProofs).                                                         *)
(***************************************************************************)
EXTENDS Naturals, Sequences

\* f enumerates the index set I in increasing order.
IsEnumeration(f, I) ==
    /\ \A i, j \in DOMAIN f : i < j => f[i] < f[j]
    /\ \A x \in I : \E i \in DOMAIN f : f[i] = x

\* The increasing enumeration of I, a subset of 1..n.
Enumeration(I, n) ==
    CHOOSE f \in UNION {[1..m -> I] : m \in 0..n} : IsEnumeration(f, I)

KeptIndices(s, S) == {i \in DOMAIN s : s[i] \in S}

Retain(s, S) ==
    LET f == Enumeration(KeptIndices(s, S), Len(s))
    IN  [i \in DOMAIN f |-> s[f[i]]]
=============================================================================
