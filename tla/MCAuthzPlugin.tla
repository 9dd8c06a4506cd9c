---------------------------- MODULE MCAuthzPlugin ----------------------------
(* A small instance of AuthzPlugin for TLC.  One request is enough: requests*)
(* share nothing but the tags, which move in every way beside it.           *)
EXTENDS AuthzPlugin, TLC

Symmetry == Permutations(Digests)
=============================================================================
