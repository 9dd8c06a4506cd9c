---------------------------- MODULE MCQuarantine ----------------------------
(* Small instances of Quarantine for TLC.                                   *)
EXTENDS QuarantineDocs, QuarantineRefinement, TLC

Symmetry == Permutations(Requests) \cup Permutations(Digests)

BasePolicy ==
    [mutable |-> "quarantine", failedResolution |-> "deny", pinned |-> "allow",
     allowFirstSeen |-> FALSE, minAge |-> 3, cosign |-> FALSE, key |-> "k1",
     audit |-> TRUE]

(* Quarantine alone: only age can admit.                                    *)
AgePolicies == {BasePolicy}

(* Two configurations that require different signers.  One quarantines     *)
(* tags and refuses pinned references; the other allows both and has no     *)
(* audit log.                                                               *)
GatePolicies ==
    {[BasePolicy EXCEPT !.minAge = 0, !.cosign = TRUE, !.pinned = "deny"],
     [BasePolicy EXCEPT !.mutable = "allow", !.cosign = TRUE, !.key = "k2",
                        !.audit = FALSE]}

(* A tag the policy allows outright, one allowed when the registry is down. *)
AllowPolicies ==
    {[BasePolicy EXCEPT !.mutable = "allow", !.cosign = TRUE],
     [BasePolicy EXCEPT !.failedResolution = "allow", !.cosign = TRUE]}

NoLifetime == {Never}
=============================================================================
