----------------------------- MODULE Quarantine -----------------------------
(***************************************************************************)
(* The pull decision: Engine.Decide of internal/quarantine/engine.go, run   *)
(* by any number of goroutines of any number of processes (the proxy, the   *)
(* Docker authorization plugin, `ribat decide`) that share one SQLite file, *)
(* while an operator approves, bypasses and freezes, the registry moves     *)
(* tags and the clock runs.                                                 *)
(*                                                                         *)
(* A member of Requests is one call of Decide.  Every call that leaves the  *)
(* goroutine (a SQL statement, the registry, cosign, the audit log) is a    *)
(* step of its own, so anything may happen between two of them.  Every      *)
(* statement commits by itself and may fail (SQLITE_BUSY, I/O); a process   *)
(* may die before any step, taking its goroutines with it.                  *)
(***************************************************************************)
EXTENDS RibatStore

CONSTANTS
    Requests,       \* calls of Decide
    Policies,       \* configurations the processes run with
    Lifetimes,      \* --ttl values of approvals and freezes, Never if omitted
    MaxResolve,     \* longest time Begin .. registry answer, in ticks
    MaxClock,       \* bound: the clock stops here
    MaxOverrides    \* bound: approvals, bypasses and freezes created in all

Actions == {"allow", "deny", "quarantine"}

(* The effective policy of a reference, and audit: whether audit.path is    *)
(* set, which validation does not ask for.                                  *)
Policy ==
    [mutable : Actions, failedResolution : {"allow", "deny"},
     pinned : {"allow", "deny"}, allowFirstSeen : BOOLEAN, minAge : Nat,
     cosign : BOOLEAN, key : PolicyKeys, audit : BOOLEAN]

ASSUME PoliciesAssumption == Policies \subseteq Policy /\ Policies # {}
ASSUME LifetimesAssumption == Lifetimes \subseteq (Nat \ {0}) \cup {Never}
ASSUME BoundsAssumption ==
    MaxResolve \in Nat /\ MaxClock \in Nat /\ MaxOverrides \in Nat

VARIABLES
    clock,         \* wall clock, never set back
    registry,      \* registry[t]: the digest tag t points to now
    observations, approvals, freezes, bypasses, cosign, decisions, \* tables
    seq,           \* last AUTOINCREMENT value of each table
    auditLog,      \* the JSONL audit file
    job,           \* job[r]: the local variables of call r
    resolvedAt,    \* history: when a Decide first learnt <<tag, digest>>
    insertedAt,    \* history: when the row of <<tag, digest>> was inserted
    verified       \* history: <<digest, key>> cosign ever accepted

tables == <<observations, approvals, freezes, bypasses, cosign, decisions, seq>>
history == <<resolvedAt, insertedAt, verified>>
vars == <<clock, registry, tables, auditLog, job, history>>

NoRow == [id |-> 0, firstSeenAt |-> 0]
Snapshot == [id : Nat, firstSeenAt : Nat]

AnyPolicy == CHOOSE p \in Policies : TRUE

(* The steps of Decide, named for the call the goroutine makes next.        *)
ReadSteps   == {"freeze", "approval", "bypass", "get", "reget"}
WriteSteps  == {"create", "touch", "record"}
VerifySteps == {"cache", "verify", "save", "mark"}
Running == {"resolve", "audit"} \cup ReadSteps \cup WriteSteps \cup VerifySteps

Overrides ==
    [freezes : SUBSET FreezeRow, approvals : SUBSET ApprovalRow,
     bypasses : SUBSET BypassRow]

Job ==
    [pc : {"new", "done"} \cup Running,
     tag : AnyTag, pin : AnyDigest, policy : Policies, now : Nat,
     digest : AnyDigest, freeze : SUBSET FreezeRow,
     approval : SUBSET ApprovalRow, bypass : SUBSET BypassRow,
     obs : Snapshot, success : BOOLEAN,
     outcome : {"none", "allow", "deny"},
     answer : {"none", "allow", "deny", "error", "panic", "killed"},
     held : Overrides,          \* history: overrides stored when the call began
     disturbed : BOOLEAN]       \* history: a call it made failed or refused

NewJob ==
    [pc |-> "new", tag |-> NoTag, pin |-> NoDigest, policy |-> AnyPolicy,
     now |-> 0, digest |-> NoDigest, freeze |-> {}, approval |-> {},
     bypass |-> {}, obs |-> NoRow, success |-> FALSE, outcome |-> "none",
     answer |-> "none",
     held |-> [freezes |-> {}, approvals |-> {}, bypasses |-> {}],
     disturbed |-> FALSE]

(* The rows that an import brings in tell of decisions of another host.     *)
DecisionRow ==
    [id : Nat, req : Requests \cup {"peer"}, tag : AnyTag, digest : AnyDigest,
     decision : {"allow", "deny"}]
Counters ==
    [observations : Nat, approvals : Nat, freezes : Nat, bypasses : Nat,
     cosign : Nat, decisions : Nat]
AuditEvent == [req : Requests, digest : AnyDigest, decision : {"allow", "deny"}]


(* Faulty form of Pinned: a digest counts only behind a tag.                *)
PinnedBehindTag(r) == job[r].pin # NoDigest /\ job[r].tag # NoTag

Pinned(r) == job[r].pin # NoDigest
Overridden(r) == job[r].approval # {} \/ job[r].bypass # {}
At(r, step) == job[r].pc = step
Snap(o) == [id |-> o.id, firstSeenAt |-> o.firstSeenAt]
Row(r) == ObservationsOf(observations, job[r].tag, job[r].digest)

Init ==
    /\ clock = 0
    /\ registry \in [Tags -> Digests]
    /\ observations = {} /\ approvals = {} /\ freezes = {} /\ bypasses = {}
    /\ cosign = {} /\ decisions = {} /\ auditLog = {}
    /\ seq = [observations |-> 0, approvals |-> 0, freezes |-> 0,
              bypasses |-> 0, cosign |-> 0, decisions |-> 0]
    /\ job = [r \in Requests |-> NewJob]
    /\ resolvedAt = [k \in Tags \X Digests |-> Never]
    /\ insertedAt = [k \in Tags \X Digests |-> Never]
    /\ verified = {}

-----------------------------------------------------------------------------
(* How a step of call r ends: with the next call to make, with the verdict  *)
(* that record() will store, or with what Decide returns.                   *)
Becomes(r, j) == job' = [job EXCEPT ![r] = j]
Goto(r, step) == Becomes(r, [job[r] EXCEPT !.pc = step])

(* Faulty form of Conclude: the verdict goes to the audit log only.         *)
ConcludeUnrecorded(r, verdict) ==
    Becomes(r, [job[r] EXCEPT !.pc = "audit", !.outcome = verdict])

Conclude(r, verdict) ==
    Becomes(r, [job[r] EXCEPT !.pc = "record", !.outcome = verdict])
Return(r, value) == Becomes(r, [job[r] EXCEPT !.pc = "done", !.answer = value])
Break(r, value) ==
    Becomes(r, [job[r] EXCEPT !.pc = "done", !.answer = value, !.disturbed = TRUE])

(* After a successful verification, or where none is required: a pinned     *)
(* reference has no observation to mark.                                    *)
Passed(r) == IF Pinned(r) THEN Conclude(r, "allow") ELSE Goto(r, "mark")

AllowWithVerification(r) ==
    IF job[r].policy.cosign THEN Goto(r, "cache") ELSE Passed(r)

-----------------------------------------------------------------------------
(* Parse the reference, find its policy, read the clock, and branch on the  *)
(* kind of reference and the policy's action.  A reference without a digest *)
(* has a tag ("latest" by default).                                         *)
Started(tag, pin, policy) ==
    [NewJob EXCEPT !.tag = tag, !.pin = pin, !.digest = pin, !.policy = policy,
                   !.now = clock,
                   !.held = [freezes |-> freezes, approvals |-> approvals,
                             bypasses |-> bypasses]]

Begin(r, tag, pin, policy) ==
    /\ At(r, "new")
    /\ pin = NoDigest => tag # NoTag
    /\ LET start == Started(tag, pin, policy)
       IN  \/ /\ pin # NoDigest
              /\ Becomes(r, [start EXCEPT !.pc = "freeze"])
           \/ /\ pin = NoDigest /\ policy.mutable = "quarantine"
              /\ Becomes(r, [start EXCEPT !.pc = "resolve"])
           \/ /\ pin = NoDigest /\ policy.mutable # "quarantine"
              /\ Becomes(r, [start EXCEPT !.pc = "record",
                                            !.outcome = policy.mutable])
    /\ UNCHANGED <<clock, registry, tables, auditLog, history>>

(* A reference ParseReference rejects: nothing is recorded.                 *)
BeginMalformed(r) ==
    /\ At(r, "new")
    /\ Break(r, "error")
    /\ UNCHANGED <<clock, registry, tables, auditLog, history>>

ResolveDigest(r) ==
    /\ At(r, "resolve")
    /\ LET d == registry[job[r].tag]
           k == <<job[r].tag, d>>
       IN  /\ Becomes(r, [job[r] EXCEPT !.pc = "freeze", !.digest = d])
           /\ resolvedAt' = IF resolvedAt[k] = Never
                            THEN [resolvedAt EXCEPT ![k] = clock] ELSE resolvedAt
    /\ UNCHANGED <<clock, registry, tables, auditLog, insertedAt, verified>>

(* Faulty form of ResolveFails: fails open whatever the policy says.        *)
ResolveFailsOpen(r) ==
    /\ At(r, "resolve")
    /\ Becomes(r, [job[r] EXCEPT !.pc = "record", !.disturbed = TRUE,
                                 !.outcome = "allow"])
    /\ UNCHANGED <<clock, registry, tables, auditLog, history>>

ResolveFails(r) ==
    /\ At(r, "resolve")
    /\ Becomes(r, [job[r] EXCEPT !.pc = "record", !.disturbed = TRUE,
                                 !.outcome = job[r].policy.failedResolution])
    /\ UNCHANGED <<clock, registry, tables, auditLog, history>>

(* LocalOverride: three SELECTs, each keeping the rows it may return (nil   *)
(* is {}).  Approval and bypass are read even when a freeze was found; the  *)
(* freeze wins.                                                             *)
ReadFreeze(r) ==
    /\ At(r, "freeze")
    /\ LET found == ActiveFreezes(freezes, job[r].tag, job[r].digest, job[r].now)
       IN  Becomes(r, [job[r] EXCEPT !.pc = "approval", !.freeze = found])
    /\ UNCHANGED <<clock, registry, tables, auditLog, history>>

ReadApproval(r) ==
    /\ At(r, "approval")
    /\ LET found == ActiveApprovals(approvals, job[r].tag, job[r].digest, job[r].now)
       IN  Becomes(r, [job[r] EXCEPT !.pc = "bypass", !.approval = found])
    /\ UNCHANGED <<clock, registry, tables, auditLog, history>>

ReadBypass(r) ==
    /\ At(r, "bypass")
    /\ LET found == ActiveBypasses(bypasses, job[r].tag, job[r].now)
           j == [job[r] EXCEPT !.bypass = found]
       IN  \/ /\ j.freeze # {} \/ (Pinned(r) /\ j.policy.pinned = "deny")
              /\ Becomes(r, [j EXCEPT !.pc = "record", !.outcome = "deny"])
           \/ /\ j.freeze = {} /\ Pinned(r) /\ j.policy.pinned = "allow"
              /\ IF j.policy.cosign
                 THEN Becomes(r, [j EXCEPT !.pc = "cache"])
                 ELSE Becomes(r, [j EXCEPT !.pc = "record", !.outcome = "allow"])
           \/ /\ j.freeze = {} /\ ~Pinned(r)
              /\ Becomes(r, [j EXCEPT !.pc = "get"])
    /\ UNCHANGED <<clock, registry, tables, auditLog, history>>

(* GetObservation.                                                          *)
ReadObservation(r) ==
    /\ At(r, "get")
    /\ \/ /\ Row(r) = {}
          /\ Goto(r, "create")
       \/ \E o \in Row(r) :
             Becomes(r, [job[r] EXCEPT !.pc = "touch", !.obs = Snap(o)])
    /\ UNCHANGED <<clock, registry, tables, auditLog, history>>

(* CreateObservation is two statements: the insert ...                      *)
CreateObservation(r) ==
    /\ At(r, "create")
    /\ LET k   == <<job[r].tag, job[r].digest>>
           row == FreshObservation(seq.observations + 1, job[r].tag,
                                   job[r].digest, job[r].now)
       IN  /\ observations' = InsertOrIgnore(observations, row)
           /\ IF Row(r) = {}
              THEN /\ seq' = [seq EXCEPT !.observations = @ + 1]
                   /\ insertedAt' = [insertedAt EXCEPT ![k] = clock]
              ELSE UNCHANGED <<seq, insertedAt>>
    /\ Goto(r, "reget")
    /\ UNCHANGED <<clock, registry, approvals, freezes, bypasses, cosign,
                   decisions, auditLog, resolvedAt, verified>>

(* ... and reading the row back.  Decide dereferences the result, so it     *)
(* panics if the row is gone.                                               *)
ReadCreated(r) ==
    /\ At(r, "reget")
    /\ \/ /\ Row(r) = {}
          /\ Return(r, "panic")
       \/ /\ Overridden(r) \/ job[r].policy.allowFirstSeen
          /\ \E o \in Row(r) :
                Becomes(r, [job[r] EXCEPT !.obs = Snap(o),
                    !.pc = IF job[r].policy.cosign THEN "cache" ELSE "mark"])
       \/ /\ Row(r) # {}
          /\ ~Overridden(r) /\ ~job[r].policy.allowFirstSeen
          /\ Conclude(r, "deny")
    /\ UNCHANGED <<clock, registry, tables, auditLog, history>>

(* Faulty form of TooYoung: exactly the minimum age is not enough.          *)
NotOlder(r) == job[r].now - job[r].obs.firstSeenAt <= job[r].policy.minAge

TooYoung(r) == job[r].now - job[r].obs.firstSeenAt < job[r].policy.minAge

(* TouchObservation, then the age test on the row read before it.           *)
TouchObservation(r) ==
    /\ At(r, "touch")
    /\ \/ /\ RowsWithId(observations, job[r].obs.id) = {}
          /\ Return(r, "error")
       \/ /\ RowsWithId(observations, job[r].obs.id) # {}
          /\ IF ~Overridden(r) /\ TooYoung(r)
             THEN Conclude(r, "deny") ELSE AllowWithVerification(r)
    /\ observations' = Touched(observations, job[r].obs.id, job[r].now)
    /\ UNCHANGED <<clock, registry, approvals, freezes, bypasses, cosign,
                   decisions, seq, auditLog, history>>

-----------------------------------------------------------------------------
(* verifyCosign.  Only a cached success is used.                            *)
ReadCosignCache(r) ==
    /\ At(r, "cache")
    /\ LET hit == {c \in CosignOf(cosign, job[r].digest, job[r].policy.key) :
                        c.success}
       IN  IF hit # {} THEN Passed(r) ELSE Goto(r, "verify")
    /\ UNCHANGED <<clock, registry, tables, auditLog, history>>

CosignAnswers(r, success) ==
    /\ At(r, "verify")
    /\ Becomes(r, [job[r] EXCEPT !.pc = "save", !.success = success,
                                 !.disturbed = ~success])
    /\ verified' = IF success
                   THEN verified \cup {<<job[r].digest, job[r].policy.key>>}
                   ELSE verified
    /\ UNCHANGED <<clock, registry, tables, auditLog, resolvedAt, insertedAt>>

(* Faulty form of AfterCosign: a refusal is tried again.                    *)
RetryCosign(r) == IF job[r].success THEN Passed(r) ELSE Goto(r, "cache")

AfterCosign(r) == IF job[r].success THEN Passed(r) ELSE Conclude(r, "deny")

(* Success and refusal are both stored, over whatever the row said.         *)
RecordCosign(r) ==
    /\ At(r, "save")
    /\ cosign' = UpsertCosign(cosign,
                    [id |-> seq.cosign + 1, digest |-> job[r].digest,
                     key |-> job[r].policy.key, success |-> job[r].success])
    /\ seq' = IF CosignOf(cosign, job[r].digest, job[r].policy.key) = {}
              THEN [seq EXCEPT !.cosign = @ + 1] ELSE seq
    /\ AfterCosign(r)
    /\ UNCHANGED <<clock, registry, observations, approvals, freezes, bypasses,
                   decisions, auditLog, history>>

(* MarkObservationAllowed: no matching row turns the allow into a deny.     *)
MarkAllowed(r) ==
    /\ At(r, "mark")
    /\ IF RowsWithId(observations, job[r].obs.id) = {}
       THEN Conclude(r, "deny") ELSE Conclude(r, "allow")
    /\ observations' = MarkedAllowed(observations, job[r].obs.id, job[r].now)
    /\ UNCHANGED <<clock, registry, approvals, freezes, bypasses, cosign,
                   decisions, seq, auditLog, history>>

-----------------------------------------------------------------------------
(* record(): the SQLite row, then the audit event.                          *)
RecordDecision(r) ==
    /\ At(r, "record")
    /\ decisions' = decisions \cup
          {[id |-> seq.decisions + 1, req |-> r, tag |-> job[r].tag,
            digest |-> job[r].digest, decision |-> job[r].outcome]}
    /\ seq' = [seq EXCEPT !.decisions = @ + 1]
    /\ Goto(r, "audit")
    /\ UNCHANGED <<clock, registry, observations, approvals, freezes, bypasses,
                   cosign, auditLog, history>>

(* Record returns before it opens the file where there is no path.          *)
WriteAudit(r) ==
    /\ At(r, "audit")
    /\ LET event == [req |-> r, digest |-> job[r].digest,
                     decision |-> job[r].outcome]
       IN  auditLog' = IF job[r].policy.audit
                       THEN auditLog \cup {event} ELSE auditLog
    /\ Return(r, job[r].outcome)
    /\ UNCHANGED <<clock, registry, tables, history>>

-----------------------------------------------------------------------------
(* A call out of the goroutine fails.  Where Decide returns the error its   *)
(* callers refuse the pull; inside allowWithVerification the error becomes  *)
(* a deny that is recorded.                                                 *)
CallFails(r) ==
    /\ job[r].pc \in ReadSteps \cup WriteSteps \cup {"audit"}
    /\ At(r, "audit") => job[r].policy.audit
    /\ Break(r, "error")
    /\ UNCHANGED <<clock, registry, tables, auditLog, history>>

VerificationFails(r) ==
    /\ job[r].pc \in VerifySteps
    /\ Becomes(r, [job[r] EXCEPT !.pc = "record", !.outcome = "deny",
                                 !.disturbed = TRUE])
    /\ UNCHANGED <<clock, registry, tables, auditLog, history>>

(* The process dies: the call is never answered, what it wrote stays.       *)
Die(r) ==
    /\ job[r].pc \in Running
    /\ Break(r, "killed")
    /\ UNCHANGED <<clock, registry, tables, auditLog, history>>

-----------------------------------------------------------------------------
(* The operator's rows.  A command (ribat approve, bypass, freeze) reads    *)
(* the clock, at, before it writes, and a bypass always has a --ttl.        *)
MayOverride == seq.approvals + seq.freezes + seq.bypasses < MaxOverrides

ApproveDigest(tag, digest, at, ttl) ==
    /\ MayOverride
    /\ approvals' = approvals \cup
          {[id |-> seq.approvals + 1, tag |-> tag, digest |-> digest,
            expiresAt |-> Expiry(at, ttl)]}
    /\ seq' = [seq EXCEPT !.approvals = @ + 1]
    /\ UNCHANGED <<clock, registry, observations, freezes, bypasses, cosign,
                   decisions, auditLog, job, history>>

FreezeTag(tag, digest, at, ttl) ==
    /\ MayOverride
    /\ freezes' = freezes \cup
          {[id |-> seq.freezes + 1, tag |-> tag, digest |-> digest,
            expiresAt |-> Expiry(at, ttl)]}
    /\ seq' = [seq EXCEPT !.freezes = @ + 1]
    /\ UNCHANGED <<clock, registry, observations, approvals, bypasses, cosign,
                   decisions, auditLog, job, history>>

BypassTag(tag, at, ttl) ==
    /\ MayOverride /\ ttl # Never
    /\ bypasses' = bypasses \cup
          {[id |-> seq.bypasses + 1, tag |-> tag,
            expiresAt |-> Expiry(at, ttl)]}
    /\ seq' = [seq EXCEPT !.bypasses = @ + 1]
    /\ UNCHANGED <<clock, registry, observations, approvals, freezes, cosign,
                   decisions, auditLog, job, history>>

(* The publisher points a tag at another digest.                            *)
MoveTag(tag, digest) ==
    /\ registry[tag] # digest
    /\ registry' = [registry EXCEPT ![tag] = digest]
    /\ UNCHANGED <<clock, tables, auditLog, job, history>>

(* The registry client gives up on its own, so a call that waits for the    *)
(* registry holds the clock back.                                           *)
Tick ==
    /\ clock < MaxClock
    /\ \A r \in Requests : At(r, "resolve") => clock < job[r].now + MaxResolve
    /\ clock' = clock + 1
    /\ UNCHANGED <<registry, tables, auditLog, job, history>>

-----------------------------------------------------------------------------
BeginAny(r) ==
    \/ BeginMalformed(r)
    \/ \E tag \in AnyTag, pin \in AnyDigest, p \in Policies : Begin(r, tag, pin, p)

(* The goroutine of call r makes progress.                                  *)
Progress(r) ==
    \/ ResolveDigest(r) \/ ResolveFails(r)
    \/ ReadFreeze(r) \/ ReadApproval(r) \/ ReadBypass(r)
    \/ ReadObservation(r) \/ CreateObservation(r) \/ ReadCreated(r)
    \/ TouchObservation(r)
    \/ ReadCosignCache(r) \/ RecordCosign(r)
    \/ \E s \in BOOLEAN : CosignAnswers(r, s)
    \/ MarkAllowed(r)
    \/ RecordDecision(r) \/ WriteAudit(r)
    \/ CallFails(r) \/ VerificationFails(r)

Operator ==
    \E t \in Tags, at \in 0..clock, ttl \in Lifetimes :
        \/ \E d \in Digests : ApproveDigest(t, d, at, ttl)
        \/ \E d \in AnyDigest : FreezeTag(t, d, at, ttl)
        \/ BypassTag(t, at, ttl)

Environment == Tick \/ \E t \in Tags, d \in Digests : MoveTag(t, d)

Next ==
    \/ \E r \in Requests : BeginAny(r) \/ Progress(r) \/ Die(r)
    \/ Operator
    \/ Environment

Spec == Init /\ [][Next]_vars

(* The Go scheduler runs every goroutine and every call out of one returns. *)
Fairness == \A r \in Requests : WF_vars(Progress(r))
FairSpec == Spec /\ Fairness

-----------------------------------------------------------------------------
Key(r) == <<job[r].tag, job[r].digest>>
Admitted(r) == job[r].answer = "allow"
Quarantined(r) ==
    ~Pinned(r) /\ job[r].policy.mutable = "quarantine" /\ job[r].digest # NoDigest

(* What a first_seen_at may precede the first observation by: the time the  *)
(* registry took to answer, and the second unix() truncates to.             *)
Slack == MaxResolve + TicksPerSecond - 1

(* What the overrides in a set of rows say of call j, stated apart from the *)
(* queries the code runs.                                                   *)
InForce(row, j) == row.expiresAt = Never \/ row.expiresAt > Unix(j.now)
ApprovalFor(rows, j) ==
    \E a \in rows : a.tag = j.tag /\ a.digest = j.digest /\ InForce(a, j)
BypassFor(rows, j) == \E b \in rows : b.tag = j.tag /\ InForce(b, j)
FreezeFor(rows, j) ==
    \E f \in rows : /\ f.tag = j.tag /\ f.digest \in {NoDigest, j.digest}
                    /\ InForce(f, j)

(* Every variable has the shape the code gives it.                          *)
TypeOK ==
    /\ clock \in Nat
    /\ registry \in [Tags -> Digests]
    /\ observations \subseteq ObservationRow
    /\ approvals \subseteq ApprovalRow
    /\ freezes \subseteq FreezeRow
    /\ bypasses \subseteq BypassRow
    /\ cosign \subseteq CosignRow
    /\ decisions \subseteq DecisionRow
    /\ seq \in Counters
    /\ auditLog \subseteq AuditEvent
    /\ job \in [Requests -> Job]
    /\ resolvedAt \in [Tags \X Digests -> Time]
    /\ insertedAt \in [Tags \X Digests -> Time]
    /\ verified \subseteq Digests \X PolicyKeys

(* The gate.  A pull of a quarantined tag is allowed only for the digest    *)
(* that is approved, under a bypass of the tag, at its first sight where    *)
(* policy says so, or when some call learnt of that tag and digest minAge   *)
(* earlier, up to Slack: whichever calls created, touched and re-read the   *)
(* row, and however they interleaved with this one.                         *)
AdmittedForAReason ==
    \A r \in Requests : Admitted(r) /\ Quarantined(r) =>
        LET j == job[r] IN
        \/ ApprovalFor(approvals, j)
        \/ BypassFor(bypasses, j)
        \/ j.policy.allowFirstSeen /\ insertedAt[Key(r)] >= j.now
        \/ /\ resolvedAt[Key(r)] # Never
           /\ j.now - resolvedAt[Key(r)] >= j.policy.minAge - Slack

(* A freeze stored before a call began refuses what it covers, whatever is  *)
(* approved or bypassed, for a pinned reference and for a quarantined tag.  *)
FreezeRespected ==
    \A r \in Requests : Admitted(r) /\ (Pinned(r) \/ Quarantined(r)) =>
        ~FreezeFor(job[r].held.freezes, job[r])

(* The policy admits by itself: tags are allowed, or the registry did not   *)
(* answer and that is no reason to refuse.                                  *)
AllowedOutright(r) ==
    /\ ~Pinned(r)
    /\ \/ job[r].policy.mutable = "allow"
       \/ /\ job[r].policy.mutable = "quarantine" /\ job[r].digest = NoDigest
          /\ job[r].policy.failedResolution = "allow"

(* Where Cosign is required, cosign itself has accepted the digest of every *)
(* call that is allowed, under that very policy key: a cached row of        *)
(* another digest, another policy or a refusal never stands in for it.  The *)
(* two branches of Decide that allow outright are the only ones that pass   *)
(* by the verification, although docs/content/reference/config.md:150 says  *)
(* that it comes before every allow.                                        *)
VerifiedBeforeAdmission ==
    \A r \in Requests : Admitted(r) /\ job[r].policy.cosign =>
        \/ <<job[r].digest, job[r].policy.key>> \in verified
        \/ AllowedOutright(r)

(* An answered allow is in the SQLite table, and in the audit log where     *)
(* there is one; the audit log never tells of a decision the table does not *)
(* hold.                                                                    *)
AdmissionRecorded ==
    /\ \A r \in Requests : Admitted(r) =>
          /\ \E d \in decisions : d.req = r /\ d.digest = job[r].digest
                                /\ d.decision = "allow"
          /\ job[r].policy.audit =>
                \E e \in auditLog : e.req = r /\ e.digest = job[r].digest
                                   /\ e.decision = "allow"
    /\ \A e \in auditLog : \E d \in decisions :
          d.req = e.req /\ d.digest = e.digest /\ d.decision = e.decision

(* No false refusal: a call nothing disturbed denies a quarantined tag only *)
(* under an active freeze, or when no override stored before the call       *)
(* covers it and its row is younger than minAge (or was not there).         *)
DenialJustified ==
    \A r \in Requests :
        job[r].answer = "deny" /\ Quarantined(r) /\ ~job[r].disturbed =>
        LET j == job[r] IN
        \/ FreezeFor(freezes, j)
        \/ /\ ~ApprovalFor(j.held.approvals, j)
           /\ ~BypassFor(j.held.bypasses, j)
           /\ \/ j.now - insertedAt[Key(r)] < j.policy.minAge
              \/ insertedAt[Key(r)] >= j.now

(* Calls that race to create the row of a tuple leave one row.              *)
OneRowPerTuple ==
    \A o, p \in observations : (o.tag = p.tag /\ o.digest = p.digest) => o = p

(* No step loses an observation or moves its first_seen_at: neither a       *)
(* second insert nor a late update by id.                                   *)
FirstSeenKept ==
    [][\A o \in observations : \E p \in observations' :
          /\ p.id = o.id /\ p.tag = o.tag /\ p.digest = o.digest
          /\ p.firstSeenAt = o.firstSeenAt]_vars

(* Every call of Decide that starts ends, whatever the other calls do.      *)
EveryCallEnds ==
    \A r \in Requests : job[r].pc # "new" ~> job[r].pc = "done"
=============================================================================
