------------------------------ MODULE PullGate ------------------------------
(***************************************************************************)
(* What a caller of Decide may rely on, whatever Decide does inside: a call *)
(* is asked once, and answered once in one step that finds its grounds in   *)
(* the state of that moment and leaves the audit event behind, where an     *)
(* audit log is configured.  A call that is given up leaves nothing.        *)
(*                                                                         *)
(* The grounds are what the operator, cosign, the registry and the clock    *)
(* have said so far.  Nothing they said is taken back.                      *)
(***************************************************************************)
EXTENDS RibatStore

CONSTANTS
    Requests,   \* calls
    Policies,   \* configurations
    Slack       \* what an age may be overstated by

VARIABLES
    call,       \* call[r]: what was asked, and what was answered
    log,        \* audit events of answered calls
    clock, approvals, freezes, bypasses,
    accepted,   \* <<digest, key>> cosign accepted
    learnt,     \* learnt[<<tag, digest>>]: when the digest of the tag was learnt
    inserted    \* inserted[<<tag, digest>>]: when it was first observed

grounds == <<clock, approvals, freezes, bypasses, accepted, learnt, inserted>>
vars == <<call, log, grounds>>

Init ==
    /\ \A r \in Requests : call[r].state = "idle" /\ call[r].answer = "none"
    /\ log = {}

Pinned(c) == c.pin # NoDigest
InForce(row, c) == row.expiresAt = Never \/ row.expiresAt > Unix(c.now)

(* A freeze stored when the call was asked covers d.                        *)
Frozen(c, d) ==
    \E f \in c.frozen : FreezeCovers(f, c.tag, d) /\ InForce(f, c)

Verified(c, d) == c.policy.cosign => <<d, c.policy.key>> \in accepted

Approved(c, d) ==
    \E a \in approvals : a.tag = c.tag /\ a.digest = d /\ InForce(a, c)
Bypassed(c) == \E b \in bypasses : b.tag = c.tag /\ InForce(b, c)
FirstSight(c, d) == c.policy.allowFirstSeen /\ inserted[<<c.tag, d>>] >= c.now
Aged(c, d) ==
    /\ learnt[<<c.tag, d>>] # Never
    /\ c.now - learnt[<<c.tag, d>>] >= c.policy.minAge - Slack

(* The policy answers by itself, without a digest.                          *)
Outright(c, verdict) ==
    /\ ~Pinned(c)
    /\ \/ c.policy.mutable = verdict
       \/ c.policy.mutable = "quarantine" /\ c.policy.failedResolution = verdict

MayAdmit(c, d) ==
    /\ ~Frozen(c, d) /\ Verified(c, d)
    /\ \/ d = c.pin /\ c.policy.pinned = "allow"
       \/ /\ ~Pinned(c) /\ c.policy.mutable = "quarantine"
          /\ Approved(c, d) \/ Bypassed(c) \/ FirstSight(c, d) \/ Aged(c, d)

MayRefuse(c, d) == d = c.pin \/ (~Pinned(c) /\ c.policy.mutable = "quarantine")

-----------------------------------------------------------------------------
Ask(r) ==
    /\ call[r].state = "idle"
    /\ \E tag \in AnyTag, pin \in AnyDigest, p \in Policies :
          /\ pin = NoDigest => tag # NoTag
          /\ call' = [call EXCEPT ![r] =
                [state |-> "asked", tag |-> tag, pin |-> pin, policy |-> p,
                 now |-> clock, frozen |-> freezes, digest |-> NoDigest,
                 answer |-> "none"]]
    /\ UNCHANGED <<log, grounds>>

Close(r, d, answer) ==
    call' = [call EXCEPT ![r].state = "answered", ![r].digest = d,
                         ![r].answer = answer]

Decided(r, d, verdict) ==
    /\ Close(r, d, verdict)
    /\ log' = IF call[r].policy.audit
              THEN log \cup {[req |-> r, digest |-> d, decision |-> verdict]}
              ELSE log
    /\ UNCHANGED grounds

Admit(r) ==
    /\ call[r].state = "asked"
    /\ \/ Outright(call[r], "allow") /\ Decided(r, NoDigest, "allow")
       \/ \E d \in Digests : MayAdmit(call[r], d) /\ Decided(r, d, "allow")

Refuse(r) ==
    /\ call[r].state = "asked"
    /\ \/ Outright(call[r], "deny") /\ Decided(r, NoDigest, "deny")
       \/ \E d \in Digests : MayRefuse(call[r], d) /\ Decided(r, d, "deny")

(* A malformed reference, an error, a panic, a crash.                       *)
GiveUp(r) ==
    /\ call[r].state \in {"idle", "asked"}
    /\ \E answer \in {"error", "panic", "killed"} : Close(r, NoDigest, answer)
    /\ UNCHANGED <<log, grounds>>

(* More grounds.                                                            *)
World ==
    /\ clock <= clock'
    /\ approvals \subseteq approvals' /\ freezes \subseteq freezes'
    /\ bypasses \subseteq bypasses' /\ accepted \subseteq accepted'
    /\ \A k \in Tags \X Digests :
          /\ learnt[k] # Never => learnt'[k] = learnt[k]
          /\ inserted[k] # Never => inserted'[k] = inserted[k]
    /\ UNCHANGED <<call, log>>

Next ==
    \/ \E r \in Requests : Ask(r) \/ Admit(r) \/ Refuse(r) \/ GiveUp(r)
    \/ World

Spec == Init /\ [][Next]_vars
=============================================================================
