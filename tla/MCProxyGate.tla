----------------------------- MODULE MCProxyGate -----------------------------
(* Small instances of ProxyGate for TLC.                                    *)
EXTENDS ProxyGate, TLC

CONSTANTS d1, d2, base, l1, l2

(* Two images over a common base layer.                                     *)
TwoImages == d1 :> {base, l1} @@ d2 :> {base, l2}

Symmetry == Permutations(Calls)

(* docs/content/user/proxy-mode.md:29: a client does not get layers of a    *)
(* manifest that Ribat denied.  The tag may move to the denied manifest     *)
(* between the decision for another one and the fetch.                      *)
DeniedLayersNotServed ==
    \A c, e \in Calls : call[c].status = "200" /\ call[e].status = "403" =>
        \/ call[c].blob \notin UNION {Contents[d] : d \in {call[e].decided} \ {None}}
        \/ \E d \in admissible : call[c].blob \in Contents[d]
=============================================================================
