------------------------ MODULE QuarantineInvariant ------------------------
(***************************************************************************)
(* The inductive invariant behind the safety properties of Quarantine: what *)
(* is true of a call at every step of Decide, and of the rows it reads.     *)
(* Each part is preserved by every step once TypeOK and CallShape are known.*)
(***************************************************************************)
EXTENDS Quarantine

(* Steps at which the digest is known, and those reached past the freeze.   *)
DigestSteps == ReadSteps \cup {"create", "touch"} \cup VerifySteps
UnfrozenSteps == {"get", "create", "reget", "touch"} \cup VerifySteps
ObservationSteps == {"get", "create", "reget", "touch", "mark"}
OverrideSteps == {"get", "create", "reget", "touch"}

(* The gate applies to the call: it knows its digest and no policy action   *)
(* decides alone.                                                           *)
Gated(j) ==
    /\ j.digest # NoDigest
    /\ j.pin # NoDigest \/ j.policy.mutable = "quarantine"

(* The call has an allow to record, or has given it.                        *)
Allowing(j) ==
    (j.pc \in {"record", "audit"} /\ j.outcome = "allow") \/ j.answer = "allow"

CallShape(j) ==
    /\ j.pc = "resolve" =>
          /\ j.pin = NoDigest /\ j.digest = NoDigest
          /\ j.tag \in Tags /\ j.policy.mutable = "quarantine"
    /\ j.pc \in DigestSteps => j.digest \in Digests
    /\ j.pc \in DigestSteps /\ j.pin = NoDigest =>
          j.tag \in Tags /\ j.policy.mutable = "quarantine"
    /\ j.pc \in ObservationSteps => j.pin = NoDigest
    /\ j.pin # NoDigest => j.digest = j.pin
    /\ j.pin = NoDigest /\ j.digest # NoDigest => j.tag \in Tags
    /\ j.pc \in {"record", "audit"} => j.outcome \in {"allow", "deny"}
    /\ j.answer # "none" => j.pc = "done"

(* A cached success, and an allow in the making, were accepted by cosign.   *)
CacheSound == \A c \in cosign : c.success => <<c.digest, c.key>> \in verified

RestsOnCosign(j) ==
    \/ j.pc = "save" /\ j.success
    \/ j.pc = "mark" /\ j.policy.cosign
    \/ Allowing(j) /\ Gated(j) /\ j.policy.cosign

CallVerified(j, accepted) ==
    RestsOnCosign(j) => <<j.digest, j.policy.key>> \in accepted

(* Past the freeze query, no freeze the call began with covers it, but for  *)
(* those that are gone (none is, except where an import replaced it).       *)
RestsOnNoFreeze(j) ==
    \/ j.pc \in {"approval", "bypass"} /\ j.freeze = {}
    \/ j.pc \in UnfrozenSteps
    \/ Allowing(j) /\ Gated(j)

CallUnfrozen(j, stored, gone) ==
    /\ j.held.freezes \ gone \subseteq stored
    /\ RestsOnNoFreeze(j) => ~FreezeFor(j.held.freezes \ gone, j)

(* Times: a row dates from a call that began at most Slack before somebody  *)
(* learnt of its digest.                                                    *)
RowsDated ==
    \A o \in observations :
        /\ resolvedAt[<<o.tag, o.digest>>] # Never
        /\ o.firstSeenAt >= resolvedAt[<<o.tag, o.digest>>] - Slack
InsertedWithRow ==
    \A t \in Tags, d \in Digests :
        insertedAt[<<t, d>>] # Never <=> ObservationsOf(observations, t, d) # {}
ResolvedBefore == \A k \in Tags \X Digests : resolvedAt[k] <= clock

CallDated(j, time, resolved, inserted) ==
    LET k == <<j.tag, j.digest>> IN
    /\ j.now <= time
    /\ j.pc = "resolve" => time <= j.now + MaxResolve
    /\ j.pc \in DigestSteps /\ j.pin = NoDigest =>
          resolved[k] # Never /\ resolved[k] <= j.now + MaxResolve
    /\ j.pc = "create" => inserted[k] = Never \/ inserted[k] >= j.now
    /\ j.pc = "reget" => inserted[k] >= j.now
    /\ j.pc = "touch" => j.obs.firstSeenAt >= resolved[k] - Slack

(* Why a quarantined call may be allowed.                                   *)
Justified(j, approved, bypassed, resolved, inserted) ==
    LET k == <<j.tag, j.digest>> IN
    \/ ApprovalFor(approved, j)
    \/ BypassFor(bypassed, j)
    \/ j.policy.allowFirstSeen /\ inserted[k] >= j.now
    \/ resolved[k] # Never /\ j.now - resolved[k] >= j.policy.minAge - Slack

PastTheGate(j) ==
    /\ j.pin = NoDigest
    /\ j.pc \in VerifySteps \/ (Allowing(j) /\ Gated(j))

CallJustified(j, approved, bypassed, resolved, inserted) ==
    /\ j.pc \in {"bypass"} \cup OverrideSteps /\ j.approval # {} => ApprovalFor(approved, j)
    /\ j.pc \in OverrideSteps /\ j.bypass # {} => BypassFor(bypassed, j)
    /\ PastTheGate(j) => Justified(j, approved, bypassed, resolved, inserted)

(* Why a quarantined call may be refused, where nothing disturbed it.       *)
Refusing(j) ==
    (j.pc \in {"record", "audit"} /\ j.outcome = "deny") \/ j.answer = "deny"

RefusedFor(j, frozen, inserted) ==
    LET k == <<j.tag, j.digest>> IN
    \/ FreezeFor(frozen, j)
    \/ /\ ~ApprovalFor(j.held.approvals, j) /\ ~BypassFor(j.held.bypasses, j)
       /\ \/ j.now - inserted[k] < j.policy.minAge
          \/ inserted[k] >= j.now

(* No row is dated after its insertion.                                     *)
RowsInserted ==
    \A o \in observations : o.firstSeenAt <= insertedAt[<<o.tag, o.digest>>]

(* The queries of the overrides miss none that the call began with, and the *)
(* row a call has read is still there to be touched and marked.             *)
CallRefused(j, approved, bypassed, frozen, rows, inserted) ==
    /\ j.held.approvals \subseteq approved /\ j.held.bypasses \subseteq bypassed
    /\ j.pc \in {"approval", "bypass"} /\ j.freeze # {} => FreezeFor(frozen, j)
    /\ j.pc \in {"bypass"} \cup OverrideSteps /\ j.approval = {} =>
          ~ApprovalFor(j.held.approvals, j)
    /\ j.pc \in OverrideSteps /\ j.bypass = {} => ~BypassFor(j.held.bypasses, j)
    /\ j.pc = "touch" => j.obs.firstSeenAt <= inserted[<<j.tag, j.digest>>]
    /\ j.pc \in {"touch"} \cup VerifySteps /\ j.pin = NoDigest =>
          RowsWithId(rows, j.obs.id) # {}
    /\ j.pc = "save" => j.success \/ j.disturbed
    /\ Refusing(j) /\ Gated(j) /\ j.pin = NoDigest /\ ~j.disturbed =>
          RefusedFor(j, frozen, inserted)

(* The parts that hold of every call.                                       *)
AllShaped    == \A r \in Requests : CallShape(job[r])
AllVerified  == CacheSound /\ \A r \in Requests : CallVerified(job[r], verified)
AllUnfrozen  == \A r \in Requests : CallUnfrozen(job[r], freezes, {})
AllDated     ==
    /\ RowsDated /\ InsertedWithRow /\ ResolvedBefore
    /\ \A r \in Requests : CallDated(job[r], clock, resolvedAt, insertedAt)
AllJustified ==
    \A r \in Requests :
        CallJustified(job[r], approvals, bypasses, resolvedAt, insertedAt)

AllRefused ==
    /\ RowsInserted
    /\ \A r \in Requests :
          CallRefused(job[r], approvals, bypasses, freezes, observations, insertedAt)

(* TypeOK and the shape of every call, then the rest: each part is          *)
(* inductive with those two, the last two with the times as well.           *)
GateInvariant ==
    /\ TypeOK /\ AllShaped
    /\ AllVerified /\ AllUnfrozen /\ AllDated /\ AllJustified /\ AllRefused
=============================================================================
