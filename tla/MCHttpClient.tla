---------------------------- MODULE MCHttpClient ----------------------------
(***************************************************************************)
(* Instances of HttpClient for TLC.                                        *)
(***************************************************************************)
EXTENDS HttpClient, TLC

Symmetry == Permutations(Conns) \cup Permutations(Requests)
=============================================================================
