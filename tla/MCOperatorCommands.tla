------------------------- MODULE MCOperatorCommands -------------------------
(* A small instance of OperatorCommands for TLC.                            *)
EXTENDS OperatorCommands, TLC

Symmetry == Permutations(Commands) \cup Permutations(Digests)

(* An age no call can reach: only an override admits.                       *)
OverridePolicies ==
    {[mutable |-> "quarantine", failedResolution |-> "deny", pinned |-> "allow",
      allowFirstSeen |-> FALSE, minAge |-> 3, cosign |-> FALSE, key |-> "k1",
      audit |-> TRUE]}

(* Two ticks are a second: a lifetime of three ends with the second tick.   *)
ShortAndOpen == {3, Never}
=============================================================================
