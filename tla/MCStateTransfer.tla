--------------------------- MODULE MCStateTransfer ---------------------------
(* Small instances of StateTransfer for TLC.                                *)
EXTENDS StateTransfer

CONSTANTS t1, d1, d2

TransferPolicies ==
    {[mutable |-> "quarantine", failedResolution |-> "deny", pinned |-> "allow",
      allowFirstSeen |-> FALSE, minAge |-> 1, cosign |-> FALSE, key |-> "k1",
      audit |-> TRUE]}

NoLifetime == {Never}

Seen(id, digest, at) ==
    [id |-> id, tag |-> t1, digest |-> digest, firstSeenAt |-> at,
     lastSeenAt |-> at, lastAllowedAt |-> Never]

(* A host that observed the digests in another order, by its own clock, and *)
(* has frozen, approved and allowed something of its own.                   *)
Peers ==
    {[NoRows EXCEPT !.observations = {Seen(1, d2, 0), Seen(2, d1, 1)},
                    !.freezes = {[id |-> 1, tag |-> t1, digest |-> d2,
                                  expiresAt |-> Never]},
                    !.approvals = {[id |-> 1, tag |-> t1, digest |-> d2,
                                    expiresAt |-> Never]},
                    !.decisions = {[id |-> 1, req |-> "peer", tag |-> t1,
                                    digest |-> d1, decision |-> "allow"]}]}
=============================================================================
