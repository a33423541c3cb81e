------------------------------- MODULE MCPool -------------------------------
(***************************************************************************)
(* Instances of Pool for TLC.                                              *)
(***************************************************************************)
EXTENDS Pool, TLC

\* Retain is the standard SelectSeq, checked on all short sequences.
ASSUME RetainSelects ==
    \A n \in 0..4 : \A s \in [1..n -> 1..3] : \A S \in SUBSET (1..3) :
        Retain(s, S) = SelectSeq(s, LAMBDA x : x \in S)

\* Connections and checkouts are interchangeable, and so are keys.
Symmetry == Permutations(Conns) \cup Permutations(Checkouts) \cup Permutations(Keys)
=============================================================================
