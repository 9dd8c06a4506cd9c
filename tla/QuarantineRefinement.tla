------------------------ MODULE QuarantineRefinement ------------------------
(***************************************************************************)
(* Quarantine implements PullGate: what Decide does in a dozen statements,  *)
(* beside other calls, the operator and crashes, a caller cannot tell from  *)
(* one step that answers on grounds present at that moment.                 *)
(*                                                                         *)
(* A call is asked where Decide reads the clock and answered where its      *)
(* audit event is written; everything in between is hidden, and what it     *)
(* stores on the way counts as grounds or as nothing.                       *)
(***************************************************************************)
EXTENDS QuarantineInvariant

StateOf(j) ==
    IF j.pc = "new" THEN "idle" ELSE IF j.pc = "done" THEN "answered" ELSE "asked"

(* The digest Decide works on shows only once it is part of an answer.      *)
CallOf(j) ==
    [state |-> StateOf(j), tag |-> j.tag, pin |-> j.pin, policy |-> j.policy,
     now |-> j.now, frozen |-> j.held.freezes, answer |-> j.answer,
     digest |-> IF j.answer \in {"allow", "deny"} THEN j.digest ELSE NoDigest]

Gate == INSTANCE PullGate WITH
    call <- [r \in Requests |-> CallOf(job[r])],
    log <- auditLog,
    accepted <- verified,
    learnt <- resolvedAt,
    inserted <- insertedAt

(* Decide is the gate: every call is answered at most once, by an allow     *)
(* with grounds that hold as it is answered, by a deny the policy permits,  *)
(* or not at all, and the audit log grows by exactly the answers of the     *)
(* processes that have one.                                                 *)
GateImplemented == Gate!Spec
=============================================================================
