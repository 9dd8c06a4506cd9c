-------------------------- MODULE QuarantineProofs --------------------------
(***************************************************************************)
(* Theorems about Quarantine, for every value of its constants.  First the  *)
(* type and the shape of every call, which every other invariant needs;     *)
(* then what a step makes of the call it moves; then a section for each     *)
(* part of GateInvariant that needs nothing else: cosign, the record, the   *)
(* freezes.                                                                 *)
(***************************************************************************)
EXTENDS QuarantineInvariant, TLAPS

(* unix() loses less than a second.                                         *)
LEMMA UnixBounds ==
    ASSUME NEW t \in Nat
    PROVE  /\ Unix(t) \in Nat
           /\ Unix(t) <= t
           /\ t - Unix(t) <= TicksPerSecond - 1
BY TicksAssumption DEF Unix

LEMMA ExpiryType ==
    ASSUME NEW t \in Nat, NEW ttl \in Lifetimes
    PROVE  Expiry(t, ttl) \in Time
<1>1. CASE ttl = Never
  BY <1>1 DEF Expiry, Time
<1>2. CASE ttl # Never
  <2>1. t + ttl \in Nat
    BY <1>2, LifetimesAssumption
  <2> QED BY <1>2, <2>1, UnixBounds DEF Expiry, Time
<1> QED BY <1>1, <1>2

LEMMA NewJobType == NewJob \in Job
<1>1. AnyPolicy \in Policies
  BY PoliciesAssumption DEF AnyPolicy
<1> QED BY <1>1 DEF NewJob, Job, NoRow, Snapshot, Overrides, AnyTag, AnyDigest

LEMMA InitType == Init => TypeOK
BY NewJobType DEF Init, TypeOK, Counters, Time, Never

(* A step of call r leaves the other calls alone.                           *)
LEMMA BecomesOnly ==
    ASSUME job \in [Requests -> Job], NEW r \in Requests, NEW j \in Job,
           Becomes(r, j)
    PROVE  /\ job' \in [Requests -> Job]
           /\ job'[r] = j
           /\ \A q \in Requests : q # r => job'[q] = job[q]
BY DEF Becomes

LEMMA ShapeStep ==
    ASSUME TypeOK, AllShaped, NEW r \in Requests, NEW j \in Job, CallShape(j),
           Becomes(r, j)
    PROVE  job' \in [Requests -> Job] /\ AllShaped'
<1>1. /\ job' \in [Requests -> Job] /\ job'[r] = j
      /\ \A q \in Requests : q # r => job'[q] = job[q]
  BY BecomesOnly DEF TypeOK
<1>2. ASSUME NEW q \in Requests PROVE CallShape(job'[q])
  BY <1>1 DEF AllShaped
<1> QED BY <1>1, <1>2 DEF AllShaped

(* What the type and the shape of a call say of its fields.                 *)
LEMMA JobFields ==
    ASSUME NEW j \in Job
    PROVE  /\ j.pc \in {"new", "done"} \cup Running
           /\ j.tag \in AnyTag /\ j.pin \in AnyDigest /\ j.digest \in AnyDigest
           /\ j.policy \in Policies /\ j.policy \in Policy
           /\ j.now \in Nat /\ j.obs \in Snapshot /\ j.success \in BOOLEAN
           /\ j.outcome \in {"none", "allow", "deny"}
BY PoliciesAssumption DEF Job

LEMMA StartedType ==
    ASSUME TypeOK, NEW tag \in AnyTag, NEW pin \in AnyDigest, NEW p \in Policies
    PROVE  Started(tag, pin, p) \in Job
BY NewJobType DEF Started, TypeOK, Job, Overrides

LEMMA StartedFields ==
    ASSUME TypeOK, NEW tag \in AnyTag, NEW pin \in AnyDigest, NEW p \in Policies
    PROVE  LET start == Started(tag, pin, p) IN
           /\ start.pin = pin /\ start.digest = pin /\ start.tag = tag
           /\ start.policy = p /\ start.now = clock
           /\ start.answer = "none" /\ start.outcome = "none"
           /\ start.held.freezes = freezes /\ start.held.approvals = approvals
           /\ start.held.bypasses = bypasses
BY NewJobType DEF Started, NewJob, Job

LEMMA BeginShape ==
    ASSUME TypeOK, AllShaped, NEW r \in Requests, NEW tag \in AnyTag,
           NEW pin \in AnyDigest, NEW p \in Policies, Begin(r, tag, pin, p)
    PROVE  TypeOK' /\ AllShaped'
<1> DEFINE start == Started(tag, pin, p)
<1>1. /\ start \in Job
      /\ start.pin = pin /\ start.digest = pin /\ start.tag = tag
      /\ start.policy = p /\ start.answer = "none" /\ start.outcome = "none"
  BY StartedType, StartedFields
<1>2. p.mutable # "quarantine" => p.mutable \in {"allow", "deny"}
  BY PoliciesAssumption DEF Policy, Actions
<1>3. pin = NoDigest => tag \in Tags
  BY DEF Begin, AnyTag
<1> HIDE DEF start
<1>4. CASE pin # NoDigest /\ Becomes(r, [start EXCEPT !.pc = "freeze"])
  <2>1. [start EXCEPT !.pc = "freeze"] \in Job
    BY <1>1 DEF Job, Running, ReadSteps
  <2>2. CallShape([start EXCEPT !.pc = "freeze"])
    BY <1>1, <1>4 DEF CallShape, Job, DigestSteps, ReadSteps, VerifySteps, ObservationSteps, AnyDigest
  <2> QED BY <1>4, <2>1, <2>2, ShapeStep DEF Begin, TypeOK, tables, history
<1>5. CASE /\ pin = NoDigest /\ p.mutable = "quarantine"
           /\ Becomes(r, [start EXCEPT !.pc = "resolve"])
  <2>1. [start EXCEPT !.pc = "resolve"] \in Job
    BY <1>1 DEF Job, Running
  <2>2. CallShape([start EXCEPT !.pc = "resolve"])
    BY <1>1, <1>3, <1>5 DEF CallShape, Job, DigestSteps, ReadSteps, VerifySteps, ObservationSteps
  <2> QED BY <1>5, <2>1, <2>2, ShapeStep DEF Begin, TypeOK, tables, history
<1>6. CASE /\ pin = NoDigest /\ p.mutable # "quarantine"
           /\ Becomes(r, [start EXCEPT !.pc = "record", !.outcome = p.mutable])
  <2>1. [start EXCEPT !.pc = "record", !.outcome = p.mutable] \in Job
    BY <1>1, <1>2, <1>6 DEF Job, Running, WriteSteps
  <2>2. CallShape([start EXCEPT !.pc = "record", !.outcome = p.mutable])
    BY <1>1, <1>2, <1>6 DEF CallShape, Job, DigestSteps, ReadSteps, VerifySteps, ObservationSteps
  <2> QED BY <1>6, <2>1, <2>2, ShapeStep DEF Begin, TypeOK, tables, history
<1> QED BY <1>4, <1>5, <1>6 DEF Begin, start

(* The ways a step of Decide ends, from a running call of the right shape:  *)
(* on to another step, a verdict, an answer, a failure.                     *)
LEMMA OnwardShape ==
    ASSUME NEW j \in Job, CallShape(j), j.pc \in DigestSteps,
           NEW step \in DigestSteps,
           step \in ObservationSteps => j.pin = NoDigest
    PROVE  [j EXCEPT !.pc = step] \in Job /\ CallShape([j EXCEPT !.pc = step])
BY DEF CallShape, Job, Running, DigestSteps, ReadSteps, WriteSteps, VerifySteps,
       ObservationSteps

LEMMA VerdictShape ==
    ASSUME NEW j \in Job, CallShape(j), j.pc \in Running,
           NEW v \in {"allow", "deny"}
    PROVE  /\ [j EXCEPT !.pc = "record", !.outcome = v] \in Job
           /\ CallShape([j EXCEPT !.pc = "record", !.outcome = v])
BY DEF CallShape, Job, Running, DigestSteps, ReadSteps, WriteSteps, VerifySteps,
       ObservationSteps

LEMMA AnswerShape ==
    ASSUME NEW j \in Job, CallShape(j), j.pc \in Running,
           NEW v \in {"allow", "deny", "error", "panic"}
    PROVE  /\ [j EXCEPT !.pc = "done", !.answer = v] \in Job
           /\ CallShape([j EXCEPT !.pc = "done", !.answer = v])
BY DEF CallShape, Job, Running, DigestSteps, ReadSteps, WriteSteps, VerifySteps,
       ObservationSteps

LEMMA BreakShape ==
    ASSUME NEW j \in Job, CallShape(j), NEW v \in {"error", "killed"}
    PROVE  /\ [j EXCEPT !.pc = "done", !.answer = v, !.disturbed = TRUE] \in Job
           /\ CallShape([j EXCEPT !.pc = "done", !.answer = v, !.disturbed = TRUE])
BY DEF CallShape, Job, Running, DigestSteps, ReadSteps, WriteSteps, VerifySteps,
       ObservationSteps

LEMMA PassedShape ==
    ASSUME TypeOK, AllShaped, NEW r \in Requests, job[r].pc \in DigestSteps,
           Passed(r) \/ AllowWithVerification(r)
    PROVE  job' \in [Requests -> Job] /\ AllShaped'
<1>0. job[r] \in Job /\ CallShape(job[r])
  BY DEF TypeOK, AllShaped
<1>1. CASE Conclude(r, "allow")
  <2>1. job[r].pc \in Running
    BY DEF DigestSteps, Running, WriteSteps
  <2> QED BY <1>0, <1>1, <2>1, VerdictShape, ShapeStep DEF Conclude
<1>2. CASE ~Pinned(r) /\ Goto(r, "mark")
  <2>1. job[r].pin = NoDigest
    BY <1>2 DEF Pinned
  <2> QED BY <1>0, <1>2, <2>1, OnwardShape, ShapeStep
          DEF Goto, DigestSteps, VerifySteps
<1>3. CASE Goto(r, "cache")
  BY <1>0, <1>3, OnwardShape, ShapeStep
  DEF Goto, DigestSteps, VerifySteps, ObservationSteps
<1> QED BY <1>1, <1>2, <1>3 DEF Passed, AllowWithVerification

LEMMA ResolveShape ==
    ASSUME TypeOK, AllShaped, NEW r \in Requests,
           ResolveDigest(r) \/ ResolveFails(r)
    PROVE  TypeOK' /\ AllShaped'
<1>0. job[r] \in Job /\ CallShape(job[r])
  BY DEF TypeOK, AllShaped
<1>1. CASE ResolveDigest(r)
  <2> DEFINE d == registry[job[r].tag]
             k == <<job[r].tag, d>>
             j == [job[r] EXCEPT !.pc = "freeze", !.digest = d]
  <2>1. job[r].pin = NoDigest /\ job[r].tag \in Tags /\ d \in Digests
    BY <1>0, <1>1 DEF ResolveDigest, At, CallShape, TypeOK
  <2>2. j \in Job
    BY <1>0, <2>1 DEF Job, Running, ReadSteps, AnyDigest
  <2>3. CallShape(j)
    BY <1>0, <1>1, <2>1, DigestsAssumption
    DEF ResolveDigest, At, CallShape, Job, DigestSteps, ReadSteps, VerifySteps,
        ObservationSteps
  <2>4. Becomes(r, j) /\ k \in Tags \X Digests
    BY <1>1, <2>1 DEF ResolveDigest
  <2>5. resolvedAt' \in [Tags \X Digests -> Time]
    BY <1>1, <2>4 DEF ResolveDigest, TypeOK, Time
  <2> HIDE DEF j
  <2> QED BY <1>1, <2>2, <2>3, <2>4, <2>5, ShapeStep DEF ResolveDigest, TypeOK, tables
<1>2. CASE ResolveFails(r)
  <2> DEFINE j == [job[r] EXCEPT !.pc = "record", !.disturbed = TRUE,
                                 !.outcome = job[r].policy.failedResolution]
  <2>1. job[r].policy.failedResolution \in {"allow", "deny"}
    BY <1>0, JobFields DEF Policy
  <2>2. j \in Job /\ CallShape(j)
    BY <1>0, <1>2, <2>1
    DEF ResolveFails, At, CallShape, Job, Running, WriteSteps, DigestSteps,
        ReadSteps, VerifySteps, ObservationSteps
  <2> QED BY <1>2, <2>2, ShapeStep DEF ResolveFails, TypeOK, tables, history
<1> QED BY <1>1, <1>2

LEMMA OverrideShape ==
    ASSUME TypeOK, AllShaped, NEW r \in Requests,
           ReadFreeze(r) \/ ReadApproval(r) \/ ReadBypass(r)
    PROVE  TypeOK' /\ AllShaped'
<1>0. /\ job[r] \in Job /\ CallShape(job[r])
      /\ job[r].pc \in DigestSteps /\ job[r].pc \in Running
  BY DEF TypeOK, AllShaped, ReadFreeze, ReadApproval, ReadBypass, At, DigestSteps,
         Running, ReadSteps
<1>1. CASE ReadFreeze(r)
  <2> DEFINE found == ActiveFreezes(freezes, job[r].tag, job[r].digest, job[r].now)
             j == [job[r] EXCEPT !.pc = "approval", !.freeze = found]
  <2>1. found \subseteq FreezeRow
    BY DEF ActiveFreezes, TypeOK
  <2> HIDE DEF found
  <2>2. j \in Job /\ CallShape(j)
    BY <1>0, <2>1 DEF CallShape, Job, Running, DigestSteps, ReadSteps, VerifySteps,
                      ObservationSteps
  <2> QED BY <1>1, <2>2, ShapeStep DEF ReadFreeze, TypeOK, tables, history, found
<1>2. CASE ReadApproval(r)
  <2> DEFINE found == ActiveApprovals(approvals, job[r].tag, job[r].digest, job[r].now)
             j == [job[r] EXCEPT !.pc = "bypass", !.approval = found]
  <2>1. found \subseteq ApprovalRow
    BY DEF ActiveApprovals, TypeOK
  <2> HIDE DEF found
  <2>2. j \in Job /\ CallShape(j)
    BY <1>0, <2>1 DEF CallShape, Job, Running, DigestSteps, ReadSteps, VerifySteps,
                      ObservationSteps
  <2> QED BY <1>2, <2>2, ShapeStep DEF ReadApproval, TypeOK, tables, history, found
<1>3. CASE ReadBypass(r)
  <2> DEFINE found == ActiveBypasses(bypasses, job[r].tag, job[r].now)
             j == [job[r] EXCEPT !.bypass = found]
  <2>0. found \subseteq BypassRow
    BY DEF ActiveBypasses, TypeOK
  <2> HIDE DEF found
  <2>1. /\ j \in Job /\ CallShape(j) /\ j.pc \in DigestSteps
        /\ j.pc \in Running /\ j.pin = job[r].pin
    BY <1>0, <2>0 DEF CallShape, Job
  <2>2. j.policy.pinned \in {"allow", "deny"}
    BY <2>1, JobFields DEF Policy
  <2> HIDE DEF j
  <2>3. CASE \E v \in {"allow", "deny"} :
                Becomes(r, [j EXCEPT !.pc = "record", !.outcome = v])
    BY <1>3, <2>1, <2>3, VerdictShape, ShapeStep
    DEF ReadBypass, TypeOK, tables, history
  <2>4. CASE Becomes(r, [j EXCEPT !.pc = "cache"])
    BY <1>3, <2>1, <2>4, OnwardShape, ShapeStep
    DEF ReadBypass, TypeOK, tables, history, DigestSteps, VerifySteps, ObservationSteps
  <2>5. CASE ~Pinned(r) /\ Becomes(r, [j EXCEPT !.pc = "get"])
    BY <1>3, <2>1, <2>5, OnwardShape, ShapeStep
    DEF ReadBypass, TypeOK, tables, history, DigestSteps, ReadSteps, Pinned
  <2> QED BY <1>3, <2>3, <2>4, <2>5 DEF ReadBypass, j, found
<1> QED BY <1>1, <1>2, <1>3

LEMMA SnapType == ASSUME NEW o \in ObservationRow PROVE Snap(o) \in Snapshot
BY DEF ObservationRow, Snap, Snapshot

LEMMA ObservationShape ==
    ASSUME TypeOK, AllShaped, NEW r \in Requests,
           ReadObservation(r) \/ CreateObservation(r) \/ ReadCreated(r)
    PROVE  TypeOK' /\ AllShaped'
<1>0. /\ job[r] \in Job /\ CallShape(job[r])
      /\ job[r].pc \in DigestSteps /\ job[r].pc \in Running
      /\ job[r].pin = NoDigest /\ job[r].tag \in Tags /\ job[r].digest \in Digests
  BY DEF TypeOK, AllShaped, ReadObservation, CreateObservation, ReadCreated, At,
         DigestSteps, Running, ReadSteps, WriteSteps, CallShape, ObservationSteps
<1>1. \A o \in Row(r) : Snap(o) \in Snapshot
  BY SnapType DEF Row, ObservationsOf, TypeOK
<1>2. CASE ReadObservation(r)
  <2>1. CASE Goto(r, "create")
    BY <1>0, <1>2, <2>1, OnwardShape, ShapeStep
    DEF Goto, ReadObservation, TypeOK, tables, history, DigestSteps
  <2>2. CASE \E o \in Row(r) :
               Becomes(r, [job[r] EXCEPT !.pc = "touch", !.obs = Snap(o)])
    <3>1. PICK o \in Row(r) :
               Becomes(r, [job[r] EXCEPT !.pc = "touch", !.obs = Snap(o)])
      BY <2>2
    <3> DEFINE j == [job[r] EXCEPT !.pc = "touch", !.obs = Snap(o)]
    <3>2. j \in Job /\ CallShape(j)
      BY <1>0, <1>1 DEF CallShape, Job, Running, DigestSteps, ReadSteps, WriteSteps,
                        VerifySteps, ObservationSteps
    <3> QED BY <1>2, <3>1, <3>2, ShapeStep DEF ReadObservation, TypeOK, tables, history
  <2> QED BY <1>2, <2>1, <2>2 DEF ReadObservation
<1>3. CASE CreateObservation(r)
  <2> DEFINE row == FreshObservation(seq.observations + 1, job[r].tag,
                                     job[r].digest, job[r].now)
  <2>1. row \in ObservationRow
    <3>1. job[r].now \in Nat /\ seq.observations + 1 \in Nat
      BY <1>0, JobFields DEF TypeOK, Counters
    <3>2. Unix(job[r].now) \in Nat
      BY <3>1, UnixBounds
    <3> QED BY <1>0, <3>1, <3>2 DEF FreshObservation, ObservationRow, Time
  <2>2. observations' \subseteq ObservationRow
    BY <1>3, <2>1 DEF CreateObservation, InsertOrIgnore, TypeOK
  <2>3. <<job[r].tag, job[r].digest>> \in Tags \X Digests
    BY <1>0
  <2>4. seq' \in Counters
    BY <1>3 DEF CreateObservation, TypeOK, Counters
  <2>5. insertedAt' \in [Tags \X Digests -> Time]
    BY <1>3, <2>3 DEF CreateObservation, TypeOK, Time
  <2>6. job' \in [Requests -> Job] /\ AllShaped'
    BY <1>0, <1>3, OnwardShape, ShapeStep
    DEF Goto, CreateObservation, DigestSteps, ReadSteps
  <2> QED BY <1>3, <2>2, <2>4, <2>5, <2>6 DEF CreateObservation, TypeOK
<1>4. CASE ReadCreated(r)
  <2>1. CASE Return(r, "panic")
    BY <1>0, <1>4, <2>1, AnswerShape, ShapeStep
    DEF Return, ReadCreated, TypeOK, tables, history
  <2>2. CASE Conclude(r, "deny")
    BY <1>0, <1>4, <2>2, VerdictShape, ShapeStep
    DEF Conclude, ReadCreated, TypeOK, tables, history
  <2>3. ASSUME NEW o \in Row(r), NEW step \in {"cache", "mark"},
               Becomes(r, [job[r] EXCEPT !.obs = Snap(o), !.pc = step])
        PROVE  TypeOK' /\ AllShaped'
    <3> DEFINE j == [job[r] EXCEPT !.obs = Snap(o), !.pc = step]
    <3>1. j \in Job /\ CallShape(j)
      BY <1>0, <1>1 DEF CallShape, Job, Running, DigestSteps, ReadSteps, WriteSteps,
                        VerifySteps, ObservationSteps
    <3> QED BY <1>4, <2>3, <3>1, ShapeStep DEF ReadCreated, TypeOK, tables, history
  <2> QED BY <1>4, <2>1, <2>2, <2>3 DEF ReadCreated
<1> QED BY <1>2, <1>3, <1>4

(* The two UPDATEs of an observation by id keep its row a row.              *)
LEMMA UpdateTypes ==
    ASSUME NEW rows \in SUBSET ObservationRow, NEW id \in Nat, NEW now \in Nat
    PROVE  /\ Touched(rows, id, now) \subseteq ObservationRow
           /\ MarkedAllowed(rows, id, now) \subseteq ObservationRow
<1>1. Unix(now) \in Nat
  BY UnixBounds
<1>2. ASSUME NEW o \in ObservationRow
      PROVE  /\ [o EXCEPT !.lastSeenAt = Unix(now)] \in ObservationRow
             /\ [o EXCEPT !.lastSeenAt = Unix(now), !.lastAllowedAt = Unix(now)]
                   \in ObservationRow
  BY <1>1 DEF ObservationRow, Time
<1>3. Touched(rows, id, now) \subseteq ObservationRow
  BY <1>2 DEF Touched
<1>4. MarkedAllowed(rows, id, now) \subseteq ObservationRow
  BY <1>2 DEF MarkedAllowed
<1> QED BY <1>3, <1>4

LEMMA TouchShape ==
    ASSUME TypeOK, AllShaped, NEW r \in Requests,
           TouchObservation(r) \/ MarkAllowed(r)
    PROVE  TypeOK' /\ AllShaped'
<1>0. /\ job[r] \in Job /\ CallShape(job[r])
      /\ job[r].pc \in DigestSteps /\ job[r].pc \in Running
  BY DEF TypeOK, AllShaped, TouchObservation, MarkAllowed, At, DigestSteps,
         Running, WriteSteps, VerifySteps
<1>1. job[r].obs.id \in Nat /\ job[r].now \in Nat
  BY <1>0, JobFields DEF Snapshot
<1>2. observations' \subseteq ObservationRow
  <2>1. observations \in SUBSET ObservationRow
    BY DEF TypeOK
  <2> QED BY <1>1, <2>1, UpdateTypes DEF TouchObservation, MarkAllowed
<1>3. CASE Return(r, "error")
  BY <1>0, <1>2, <1>3, AnswerShape, ShapeStep
  DEF Return, TouchObservation, MarkAllowed, TypeOK, history
<1>4. CASE \E v \in {"allow", "deny"} : Conclude(r, v)
  BY <1>0, <1>2, <1>4, VerdictShape, ShapeStep
  DEF Conclude, TouchObservation, MarkAllowed, TypeOK, history
<1>5. CASE AllowWithVerification(r)
  BY <1>0, <1>2, <1>5, PassedShape
  DEF TouchObservation, MarkAllowed, TypeOK, history
<1> QED BY <1>3, <1>4, <1>5 DEF TouchObservation, MarkAllowed

LEMMA CosignShape ==
    ASSUME TypeOK, AllShaped, NEW r \in Requests, NEW s \in BOOLEAN,
           ReadCosignCache(r) \/ CosignAnswers(r, s) \/ RecordCosign(r)
    PROVE  TypeOK' /\ AllShaped'
<1>0. /\ job[r] \in Job /\ CallShape(job[r])
      /\ job[r].pc \in DigestSteps /\ job[r].pc \in Running
      /\ job[r].digest \in Digests
  BY DEF TypeOK, AllShaped, ReadCosignCache, CosignAnswers, RecordCosign, At,
         DigestSteps, Running, VerifySteps, CallShape
<1>1. job[r].policy.key \in PolicyKeys /\ job[r].success \in BOOLEAN
  BY <1>0, JobFields DEF Policy
<1>2. CASE ReadCosignCache(r)
  <2>1. CASE Passed(r)
    BY <1>0, <1>2, <2>1, PassedShape DEF ReadCosignCache, TypeOK, tables, history
  <2>2. CASE Goto(r, "verify")
    BY <1>0, <1>2, <2>2, OnwardShape, ShapeStep
    DEF Goto, ReadCosignCache, TypeOK, tables, history, DigestSteps, VerifySteps,
        ObservationSteps
  <2> QED BY <1>2, <2>1, <2>2 DEF ReadCosignCache
<1>3. CASE CosignAnswers(r, s)
  <2> DEFINE j == [job[r] EXCEPT !.pc = "save", !.success = s, !.disturbed = ~s]
  <2>1. j \in Job /\ CallShape(j)
    BY <1>0 DEF CallShape, Job, Running, DigestSteps, ReadSteps, WriteSteps,
                VerifySteps, ObservationSteps
  <2>2. verified' \subseteq Digests \X PolicyKeys
    BY <1>0, <1>1, <1>3 DEF CosignAnswers, TypeOK
  <2>3. Becomes(r, j)
    BY <1>3 DEF CosignAnswers
  <2> HIDE DEF j
  <2> QED BY <1>3, <2>1, <2>2, <2>3, ShapeStep DEF CosignAnswers, TypeOK, tables
<1>4. CASE RecordCosign(r)
  <2>1. seq' \in Counters
    BY <1>4 DEF RecordCosign, TypeOK, Counters
  <2> DEFINE row == [id |-> seq.cosign + 1, digest |-> job[r].digest,
                     key |-> job[r].policy.key, success |-> job[r].success]
  <2>2. row \in CosignRow
    BY <1>0, <1>1 DEF CosignRow, TypeOK, Counters
  <2>3. \A c \in cosign : [c EXCEPT !.success = row.success] \in CosignRow
    BY <1>1 DEF CosignRow, TypeOK
  <2>4. cosign' = UpsertCosign(cosign, row)
    BY <1>4 DEF RecordCosign
  <2>5. cosign' \subseteq CosignRow
    <3> HIDE DEF row
    <3> QED BY <2>2, <2>3, <2>4 DEF UpsertCosign, CosignOf, TypeOK
  <2>6. job' \in [Requests -> Job] /\ AllShaped'
    BY <1>0, <1>4, PassedShape, VerdictShape, ShapeStep
    DEF RecordCosign, AfterCosign, Conclude
  <2> QED BY <1>4, <2>1, <2>5, <2>6 DEF RecordCosign, TypeOK, history
<1> QED BY <1>2, <1>3, <1>4

LEMMA RecordShape ==
    ASSUME TypeOK, AllShaped, NEW r \in Requests,
           RecordDecision(r) \/ WriteAudit(r)
    PROVE  TypeOK' /\ AllShaped'
<1>0. /\ job[r] \in Job /\ CallShape(job[r]) /\ job[r].pc \in Running
      /\ job[r].outcome \in {"allow", "deny"}
      /\ job[r].digest \in AnyDigest /\ job[r].tag \in AnyTag
  BY JobFields DEF TypeOK, AllShaped, RecordDecision, WriteAudit, At, Running,
                   WriteSteps, CallShape
<1>1. CASE RecordDecision(r)
  <2> DEFINE j == [job[r] EXCEPT !.pc = "audit"]
  <2>1. j \in Job /\ CallShape(j)
    BY <1>0 DEF CallShape, Job, Running, DigestSteps, ReadSteps, WriteSteps,
                VerifySteps, ObservationSteps
  <2>2. seq' \in Counters /\ seq.decisions + 1 \in Nat
    BY <1>1 DEF RecordDecision, TypeOK, Counters
  <2>3. decisions' \subseteq DecisionRow
    BY <1>0, <1>1, <2>2 DEF RecordDecision, TypeOK, DecisionRow
  <2> QED BY <1>1, <2>1, <2>2, <2>3, ShapeStep DEF RecordDecision, Goto, TypeOK, history
<1>2. CASE WriteAudit(r)
  <2>1. auditLog' \subseteq AuditEvent
    BY <1>0, <1>2 DEF WriteAudit, TypeOK, AuditEvent
  <2>2. job' \in [Requests -> Job] /\ AllShaped'
    BY <1>0, <1>2, AnswerShape, ShapeStep DEF WriteAudit, Return
  <2> QED BY <1>2, <2>1, <2>2 DEF WriteAudit, TypeOK, tables, history
<1> QED BY <1>1, <1>2

LEMMA FailureShape ==
    ASSUME TypeOK, AllShaped, NEW r \in Requests,
           BeginMalformed(r) \/ CallFails(r) \/ VerificationFails(r) \/ Die(r)
    PROVE  TypeOK' /\ AllShaped'
<1>0. job[r] \in Job /\ CallShape(job[r])
  BY DEF TypeOK, AllShaped
<1>1. CASE \E v \in {"error", "killed"} : Break(r, v)
  BY <1>0, <1>1, BreakShape, ShapeStep
  DEF Break, BeginMalformed, CallFails, VerificationFails, Die, TypeOK, tables, history
<1>2. CASE VerificationFails(r)
  <2> DEFINE j == [job[r] EXCEPT !.pc = "record", !.outcome = "deny",
                                 !.disturbed = TRUE]
  <2>1. j \in Job /\ CallShape(j)
    BY <1>0, <1>2 DEF VerificationFails, CallShape, Job, Running, DigestSteps,
                ReadSteps, WriteSteps, VerifySteps, ObservationSteps
  <2> QED BY <1>2, <2>1, ShapeStep DEF VerificationFails, TypeOK, tables, history
<1> QED BY <1>1, <1>2 DEF BeginMalformed, CallFails, Die

LEMMA OperatorShape ==
    ASSUME TypeOK, AllShaped, Operator
    PROVE  TypeOK' /\ AllShaped'
<1>0. ASSUME NEW at \in 0..clock PROVE at \in Nat
  BY <1>0 DEF TypeOK
<1>1. ASSUME NEW t \in Tags, NEW d \in Digests, NEW at \in 0..clock,
             NEW ttl \in Lifetimes, ApproveDigest(t, d, at, ttl)
      PROVE  TypeOK' /\ AllShaped'
  <2>1. Expiry(at, ttl) \in Time /\ seq' \in Counters /\ seq.approvals + 1 \in Nat
    BY <1>0, <1>1, ExpiryType DEF ApproveDigest, TypeOK, Counters
  <2>2. approvals' \subseteq ApprovalRow
    BY <1>1, <2>1 DEF ApproveDigest, TypeOK, ApprovalRow
  <2> QED BY <1>1, <2>1, <2>2 DEF ApproveDigest, TypeOK, AllShaped, history
<1>2. ASSUME NEW t \in Tags, NEW d \in AnyDigest, NEW at \in 0..clock,
             NEW ttl \in Lifetimes, FreezeTag(t, d, at, ttl)
      PROVE  TypeOK' /\ AllShaped'
  <2>1. Expiry(at, ttl) \in Time /\ seq' \in Counters /\ seq.freezes + 1 \in Nat
    BY <1>0, <1>2, ExpiryType DEF FreezeTag, TypeOK, Counters
  <2>2. freezes' \subseteq FreezeRow
    BY <1>2, <2>1 DEF FreezeTag, TypeOK, FreezeRow
  <2> QED BY <1>2, <2>1, <2>2 DEF FreezeTag, TypeOK, AllShaped, history
<1>3. ASSUME NEW t \in Tags, NEW at \in 0..clock, NEW ttl \in Lifetimes,
             BypassTag(t, at, ttl)
      PROVE  TypeOK' /\ AllShaped'
  <2>1. Expiry(at, ttl) \in Time /\ seq' \in Counters /\ seq.bypasses + 1 \in Nat
    BY <1>0, <1>3, ExpiryType DEF BypassTag, TypeOK, Counters
  <2>2. bypasses' \subseteq BypassRow
    BY <1>3, <2>1 DEF BypassTag, TypeOK, BypassRow
  <2> QED BY <1>3, <2>1, <2>2 DEF BypassTag, TypeOK, AllShaped, history
<1> QED BY <1>1, <1>2, <1>3 DEF Operator

LEMMA EnvironmentShape ==
    ASSUME TypeOK, AllShaped, Environment \/ UNCHANGED vars
    PROVE  TypeOK' /\ AllShaped'
<1>1. CASE Tick
  BY <1>1 DEF Tick, TypeOK, AllShaped, tables, history
<1>2. ASSUME NEW t \in Tags, NEW d \in Digests, MoveTag(t, d)
      PROVE  TypeOK' /\ AllShaped'
  BY <1>2 DEF MoveTag, TypeOK, AllShaped, tables, history
<1>3. CASE UNCHANGED vars
  BY <1>3 DEF vars, TypeOK, AllShaped, tables, history
<1> QED BY <1>1, <1>2, <1>3 DEF Environment

LEMMA NextShape == TypeOK /\ AllShaped /\ [Next]_vars => TypeOK' /\ AllShaped'
<1> SUFFICES ASSUME TypeOK, AllShaped, [Next]_vars
             PROVE  TypeOK' /\ AllShaped'
  OBVIOUS
<1>1. ASSUME NEW r \in Requests, BeginAny(r) \/ Die(r)
      PROVE  TypeOK' /\ AllShaped'
  BY <1>1, BeginShape, FailureShape DEF BeginAny
<1>2. ASSUME NEW r \in Requests, Progress(r)
      PROVE  TypeOK' /\ AllShaped'
  BY <1>2, ResolveShape, OverrideShape, ObservationShape, TouchShape, CosignShape,
     RecordShape, FailureShape DEF Progress
<1> QED BY <1>1, <1>2, OperatorShape, EnvironmentShape DEF Next

LEMMA InitShape == Init => AllShaped
BY DEF Init, AllShaped, CallShape, NewJob, DigestSteps, ReadSteps, VerifySteps,
       ObservationSteps

(* Type correctness, with the shape of every call it needs to be inductive. *)
THEOREM ShapeInvariant == Spec => [](TypeOK /\ AllShaped)
<1>1. Init => TypeOK /\ AllShaped
  BY InitType, InitShape
<1>2. TypeOK /\ AllShaped /\ [Next]_vars => (TypeOK /\ AllShaped)'
  BY NextShape
<1> QED BY <1>1, <1>2, PTL DEF Spec

(* Every variable keeps its type in every behaviour of Quarantine.          *)
THEOREM TypeCorrect == Spec => []TypeOK
BY ShapeInvariant, PTL

-----------------------------------------------------------------------------
USE DEF Becomes, At

(* What a step makes of the call it moves.                                  *)

LEMMA BeginForms ==
    ASSUME TypeOK, NEW r \in Requests, NEW tag \in AnyTag, NEW pin \in AnyDigest,
           NEW p \in Policies, Begin(r, tag, pin, p)
    PROVE  LET n == job'[r] IN
           /\ n.pin = pin /\ n.digest = pin /\ n.tag = tag /\ n.policy = p
           /\ n.now = clock /\ n.answer = "none" /\ n.held.freezes = freezes
           /\ n.held.approvals = approvals /\ n.held.bypasses = bypasses
           /\ \/ n.pc = "freeze" /\ pin # NoDigest
              \/ n.pc = "resolve" /\ pin = NoDigest /\ p.mutable = "quarantine"
              \/ n.pc = "record" /\ pin = NoDigest /\ n.outcome = p.mutable
<1> DEFINE start == Started(tag, pin, p)
<1>1. start \in Job
  BY StartedType
<1>2. /\ start.pin = pin /\ start.digest = pin /\ start.tag = tag
      /\ start.now = clock /\ start.answer = "none" /\ start.policy = p
      /\ start.held.freezes = freezes /\ start.held.approvals = approvals
      /\ start.held.bypasses = bypasses
  BY StartedFields
<1>3. \/ job'[r] = [start EXCEPT !.pc = "freeze"] /\ pin # NoDigest
      \/ /\ pin = NoDigest /\ p.mutable = "quarantine"
         /\ job'[r] = [start EXCEPT !.pc = "resolve"]
      \/ pin = NoDigest
         /\ job'[r] = [start EXCEPT !.pc = "record", !.outcome = p.mutable]
  BY DEF Begin, TypeOK
<1> HIDE DEF start
<1> QED BY <1>1, <1>2, <1>3 DEF Job

(* n is the call j further on, with the same request and what it has read.  *)
Same(n, j) ==
    /\ n.tag = j.tag /\ n.pin = j.pin /\ n.policy = j.policy /\ n.now = j.now
    /\ n.held = j.held /\ n.answer = j.answer
Reads(n, j) ==
    /\ n.digest = j.digest /\ n.freeze = j.freeze
    /\ n.approval = j.approval /\ n.bypass = j.bypass /\ n.obs = j.obs
    /\ n.success = j.success
Keeps(n, j) == Same(n, j) /\ Reads(n, j)

(* n is the call j answered v, or broken off with v.                        *)
Stops(n, j, v) ==
    /\ n.tag = j.tag /\ n.pin = j.pin /\ n.policy = j.policy /\ n.now = j.now
    /\ n.held = j.held /\ n.digest = j.digest /\ n.outcome = j.outcome
    /\ n.pc = "done" /\ n.answer = v

LEMMA EndForms ==
    ASSUME TypeOK, NEW r \in Requests
    PROVE  LET j == job[r]
               n == job'[r]
           IN
           /\ \A s : Goto(r, s) => /\ Keeps(n, j) /\ n.pc = s /\ n.outcome = j.outcome
                                    /\ n.disturbed = j.disturbed
           /\ \A v : Conclude(r, v) => /\ Keeps(n, j) /\ n.pc = "record"
                                       /\ n.outcome = v /\ n.disturbed = j.disturbed
           /\ \A v : Return(r, v) => Stops(n, j, v) /\ n.disturbed = j.disturbed
           /\ \A v : Break(r, v) => Stops(n, j, v)
<1>1. job[r] \in Job
  BY DEF TypeOK
<1>2. ASSUME NEW s, Goto(r, s)
      PROVE  /\ Keeps(job'[r], job[r]) /\ job'[r].pc = s
             /\ job'[r].outcome = job[r].outcome
             /\ job'[r].disturbed = job[r].disturbed
  BY <1>1, <1>2 DEF Goto, Keeps, Reads, Same, Job, TypeOK
<1>3. ASSUME NEW v, Conclude(r, v)
      PROVE  /\ Keeps(job'[r], job[r]) /\ job'[r].pc = "record"
             /\ job'[r].outcome = v /\ job'[r].disturbed = job[r].disturbed
  BY <1>1, <1>3 DEF Conclude, Keeps, Reads, Same, Job, TypeOK
<1>4. ASSUME NEW v, Return(r, v)
      PROVE  Stops(job'[r], job[r], v) /\ job'[r].disturbed = job[r].disturbed
  BY <1>1, <1>4 DEF Return, Stops, Job, TypeOK
<1>5. ASSUME NEW v, Break(r, v)
      PROVE  Stops(job'[r], job[r], v)
  BY <1>1, <1>5 DEF Break, Stops, Job, TypeOK
<1> QED BY <1>2, <1>3, <1>4, <1>5

LEMMA ResolveForms ==
    ASSUME TypeOK, NEW r \in Requests, ResolveDigest(r)
    PROVE  /\ Same(job'[r], job[r]) /\ job'[r].digest = registry[job[r].tag]
           /\ job'[r].pc = "freeze"
<1> DEFINE d == registry[job[r].tag]
<1>1. job'[r] = [job[r] EXCEPT !.pc = "freeze", !.digest = d] /\ job[r] \in Job
  BY DEF ResolveDigest, TypeOK
<1> HIDE DEF d
<1>2. /\ Same(job'[r], job[r]) /\ job'[r].digest = d /\ job'[r].pc = "freeze"
  BY <1>1 DEF Same, Job
<1> QED BY <1>2 DEF d

LEMMA ResolveFailsForms ==
    ASSUME TypeOK, NEW r \in Requests, ResolveFails(r)
    PROVE  /\ Keeps(job'[r], job[r]) /\ job'[r].pc = "record"
           /\ job'[r].outcome = job[r].policy.failedResolution /\ job'[r].disturbed
<1>1. /\ job'[r] = [job[r] EXCEPT !.pc = "record", !.disturbed = TRUE,
                                  !.outcome = job[r].policy.failedResolution]
      /\ job[r] \in Job
  BY DEF ResolveFails, TypeOK
<1> QED BY <1>1 DEF Keeps, Same, Reads, Job

LEMMA FreezeForms ==
    ASSUME TypeOK, NEW r \in Requests, ReadFreeze(r)
    PROVE  LET j == job[r]
               n == job'[r]
           IN  /\ Same(n, j) /\ n.digest = j.digest /\ n.pc = "approval"
               /\ n.freeze = ActiveFreezes(freezes, j.tag, j.digest, j.now)
<1> DEFINE found == ActiveFreezes(freezes, job[r].tag, job[r].digest, job[r].now)
<1>1. job'[r] = [job[r] EXCEPT !.pc = "approval", !.freeze = found] /\ job[r] \in Job
  BY DEF ReadFreeze, TypeOK
<1> HIDE DEF found
<1>2. /\ Same(job'[r], job[r]) /\ job'[r].digest = job[r].digest
      /\ job'[r].pc = "approval" /\ job'[r].freeze = found
  BY <1>1 DEF Same, Job
<1> QED BY <1>2 DEF found

LEMMA ApprovalForms ==
    ASSUME TypeOK, NEW r \in Requests, ReadApproval(r)
    PROVE  LET j == job[r]
               n == job'[r]
           IN  /\ Same(n, j) /\ n.digest = j.digest /\ n.pc = "bypass"
               /\ n.freeze = j.freeze
               /\ n.approval = ActiveApprovals(approvals, j.tag, j.digest, j.now)
<1> DEFINE found == ActiveApprovals(approvals, job[r].tag, job[r].digest, job[r].now)
<1>1. job'[r] = [job[r] EXCEPT !.pc = "bypass", !.approval = found] /\ job[r] \in Job
  BY DEF ReadApproval, TypeOK
<1> HIDE DEF found
<1>2. /\ Same(job'[r], job[r]) /\ job'[r].digest = job[r].digest
      /\ job'[r].pc = "bypass" /\ job'[r].freeze = job[r].freeze
      /\ job'[r].approval = found
  BY <1>1 DEF Same, Job
<1> QED BY <1>2 DEF found

LEMMA BypassForms ==
    ASSUME TypeOK, NEW r \in Requests, ReadBypass(r)
    PROVE  LET j == job[r]
               n == job'[r]
           IN  /\ Same(n, j) /\ n.digest = j.digest
               /\ n.freeze = j.freeze /\ n.approval = j.approval
               /\ n.bypass = ActiveBypasses(bypasses, j.tag, j.now)
               /\ \/ /\ n.pc = "record" /\ n.outcome = "deny"
                     /\ j.freeze # {} \/ j.pin # NoDigest
                  \/ /\ n.pc = "cache" /\ j.freeze = {} /\ j.pin # NoDigest
                     /\ j.policy.pinned = "allow"
                  \/ /\ n.pc = "record" /\ j.freeze = {} /\ j.pin # NoDigest
                     /\ ~j.policy.cosign /\ j.policy.pinned = "allow"
                  \/ n.pc = "get" /\ j.freeze = {} /\ j.pin = NoDigest
<1> DEFINE found == ActiveBypasses(bypasses, job[r].tag, job[r].now)
           b == [job[r] EXCEPT !.bypass = found]
<1>0. job[r] \in Job
  BY DEF TypeOK
<1>1. \/ /\ job'[r] = [b EXCEPT !.pc = "record", !.outcome = "deny"]
         /\ b.freeze # {} \/ job[r].pin # NoDigest
      \/ /\ b.freeze = {} /\ job[r].pin # NoDigest /\ b.policy.pinned = "allow"
         /\ \/ job'[r] = [b EXCEPT !.pc = "cache"]
            \/ ~b.policy.cosign
               /\ job'[r] = [b EXCEPT !.pc = "record", !.outcome = "allow"]
      \/ /\ b.freeze = {} /\ job[r].pin = NoDigest
         /\ job'[r] = [b EXCEPT !.pc = "get"]
  BY DEF ReadBypass, Pinned, TypeOK
<1>2. /\ Same(b, job[r]) /\ b.digest = job[r].digest /\ b.freeze = job[r].freeze
      /\ b.approval = job[r].approval /\ b.bypass = found
      /\ DOMAIN b = DOMAIN job[r]
  <2> HIDE DEF found
  <2> QED BY <1>0 DEF Same, Job
<1>3. DOMAIN job[r] = DOMAIN NewJob
  BY <1>0 DEF Job, NewJob
<1> HIDE DEF found, b
<1> QED BY <1>1, <1>2, <1>3 DEF Same, NewJob, found

LEMMA PassedForms ==
    ASSUME TypeOK, NEW r \in Requests, Passed(r)
    PROVE  /\ Keeps(job'[r], job[r])
           /\ \/ /\ job[r].pin # NoDigest
                 /\ job'[r].pc = "record" /\ job'[r].outcome = "allow"
              \/ job[r].pin = NoDigest /\ job'[r].pc = "mark"
BY EndForms DEF Passed, Pinned

LEMMA ObservationForms ==
    ASSUME TypeOK, NEW r \in Requests, ReadObservation(r)
    PROVE  LET j == job[r]
               n == job'[r]
           IN  /\ Same(n, j) /\ n.digest = j.digest
               /\ n.approval = j.approval /\ n.bypass = j.bypass
               /\ \/ n.pc = "create" /\ Row(r) = {}
                  \/ n.pc = "touch" /\ \E o \in Row(r) : n.obs = Snap(o)
<1>0. job[r] \in Job
  BY DEF TypeOK
<1>1. CASE Row(r) = {} /\ Goto(r, "create")
  BY <1>1, EndForms DEF Keeps, Reads
<1>2. ASSUME NEW o \in Row(r),
             Becomes(r, [job[r] EXCEPT !.pc = "touch", !.obs = Snap(o)])
      PROVE  /\ Same(job'[r], job[r]) /\ job'[r].digest = job[r].digest
             /\ job'[r].approval = job[r].approval /\ job'[r].bypass = job[r].bypass
             /\ job'[r].pc = "touch" /\ job'[r].obs = Snap(o)
  <2>1. job'[r] = [job[r] EXCEPT !.pc = "touch", !.obs = Snap(o)]
    BY <1>2 DEF TypeOK
  <2> QED BY <1>0, <2>1 DEF Same, Job
<1> QED BY <1>1, <1>2 DEF ReadObservation

LEMMA CreatedForms ==
    ASSUME TypeOK, NEW r \in Requests, ReadCreated(r)
    PROVE  LET j == job[r]
               n == job'[r]
           IN  \/ Stops(n, j, "panic")
               \/ /\ Keeps(n, j) /\ n.pc = "record" /\ n.outcome = "deny"
                  /\ ~Overridden(r)
               \/ /\ Same(n, j) /\ n.digest = j.digest
                  /\ n.approval = j.approval /\ n.bypass = j.bypass
                  /\ \E o \in Row(r) : n.obs = Snap(o)
                  /\ n.pc = IF j.policy.cosign THEN "cache" ELSE "mark"
                  /\ Overridden(r) \/ j.policy.allowFirstSeen
<1>0. job[r] \in Job
  BY DEF TypeOK
<1> DEFINE step == IF job[r].policy.cosign THEN "cache" ELSE "mark"
<1>1. ASSUME NEW o \in Row(r),
             Becomes(r, [job[r] EXCEPT !.obs = Snap(o), !.pc = step])
      PROVE  /\ Same(job'[r], job[r]) /\ job'[r].digest = job[r].digest
             /\ job'[r].approval = job[r].approval /\ job'[r].bypass = job[r].bypass
             /\ job'[r].pc = step /\ job'[r].obs = Snap(o)
  <2>1. job'[r] = [job[r] EXCEPT !.obs = Snap(o), !.pc = step]
    BY <1>1 DEF TypeOK
  <2> HIDE DEF step
  <2> QED BY <1>0, <2>1 DEF Same, Job
<1> QED BY <1>1, EndForms DEF ReadCreated

LEMMA AnswerForms ==
    ASSUME TypeOK, NEW r \in Requests, NEW s \in BOOLEAN, CosignAnswers(r, s)
    PROVE  /\ Same(job'[r], job[r]) /\ job'[r].digest = job[r].digest
           /\ job'[r].pc = "save" /\ job'[r].success = s
           /\ job'[r].disturbed = ~s /\ job'[r].obs = job[r].obs
<1>1. /\ job'[r] = [job[r] EXCEPT !.pc = "save", !.success = s, !.disturbed = ~s]
      /\ job[r] \in Job
  BY DEF CosignAnswers, TypeOK
<1> QED BY <1>1 DEF Same, Job

LEMMA RefusedForms ==
    ASSUME TypeOK, NEW r \in Requests, VerificationFails(r)
    PROVE  /\ Keeps(job'[r], job[r]) /\ job'[r].pc = "record"
           /\ job'[r].outcome = "deny" /\ job'[r].disturbed
<1>1. /\ job'[r] = [job[r] EXCEPT !.pc = "record", !.outcome = "deny",
                                  !.disturbed = TRUE]
      /\ job[r] \in Job
  BY DEF VerificationFails, TypeOK
<1> QED BY <1>1 DEF Keeps, Same, Reads, Job

(* A call that is running has not been answered.                            *)
LEMMA Unanswered ==
    ASSUME AllShaped, NEW r \in Requests, job[r].pc # "done"
    PROVE  job[r].answer = "none"
BY DEF AllShaped, CallShape

(* A step of a call moves that call and no other.                           *)
LEMMA OneMoves ==
    ASSUME TypeOK, TypeOK', NEW r \in Requests, BeginAny(r) \/ Progress(r) \/ Die(r)
    PROVE  \A q \in Requests : q # r => job'[q] = job[q]
<1>1. Becomes(r, job'[r])
  <2>1. CASE BeginAny(r)
    BY <2>1 DEF BeginAny, BeginMalformed, Begin, Break, TypeOK
  <2>2. CASE \/ ResolveDigest(r) \/ ResolveFails(r)
             \/ ReadFreeze(r) \/ ReadApproval(r) \/ ReadBypass(r)
             \/ ReadObservation(r) \/ CreateObservation(r) \/ ReadCreated(r)
    BY <2>2 DEF ResolveDigest, ResolveFails, ReadFreeze, ReadApproval, ReadBypass,
                ReadObservation, CreateObservation, ReadCreated, Goto, Conclude,
                Return, TypeOK
  <2>3. CASE \/ TouchObservation(r) \/ ReadCosignCache(r) \/ RecordCosign(r)
             \/ (\E s \in BOOLEAN : CosignAnswers(r, s)) \/ MarkAllowed(r)
    BY <2>3 DEF TouchObservation, ReadCosignCache, RecordCosign, CosignAnswers,
                MarkAllowed, AfterCosign, AllowWithVerification, Passed, Goto,
                Conclude, Return, TypeOK
  <2>4. CASE \/ RecordDecision(r) \/ WriteAudit(r) \/ CallFails(r)
             \/ VerificationFails(r) \/ Die(r)
    BY <2>4 DEF RecordDecision, WriteAudit, CallFails, VerificationFails, Die, Goto,
                Return, Break, TypeOK
  <2> QED BY <2>1, <2>2, <2>3, <2>4 DEF Progress
<1>2. job'[r] \in Job
  BY DEF TypeOK
<1> QED BY <1>1, <1>2, BecomesOnly DEF TypeOK

-----------------------------------------------------------------------------
(* Cosign.                                                                  *)

(* A call that is not about to use or to record an allow owes nothing.      *)
LEMMA VerifiedIdle ==
    ASSUME NEW j, NEW accepted,
           j.pc \notin {"save", "mark"},
           j.pc \in {"record", "audit"} => j.outcome # "allow",
           j.answer # "allow"
    PROVE  CallVerified(j, accepted)
BY DEF CallVerified, RestsOnCosign, Allowing

LEMMA VerifiedStep ==
    ASSUME TypeOK, AllVerified, NEW r \in Requests, NEW j \in Job,
           Becomes(r, j), CallVerified(j, verified'),
           verified \subseteq verified', CacheSound'
    PROVE  AllVerified'
<1>1. /\ job'[r] = j
      /\ \A q \in Requests : q # r => job'[q] = job[q]
  BY BecomesOnly DEF TypeOK
<1>2. ASSUME NEW q \in Requests
      PROVE  CallVerified(job'[q], verified')
  <2>1. CASE q = r
    BY <1>1, <2>1
  <2>2. CASE q # r
    <3>1. CallVerified(job[q], verified) /\ job'[q] = job[q]
      BY <1>1, <2>2 DEF AllVerified
    <3> QED BY <3>1 DEF CallVerified
  <2> QED BY <2>1, <2>2
<1> QED BY <1>2 DEF AllVerified

(* Steps that touch neither the cache nor cosign.                           *)
LEMMA VerifiedQuiet ==
    ASSUME TypeOK, AllVerified, NEW r \in Requests, NEW j \in Job, Becomes(r, j),
           UNCHANGED <<cosign, verified>>, CallVerified(j, verified)
    PROVE  AllVerified'
<1>1. CacheSound'
  BY DEF AllVerified, CacheSound
<1> QED BY <1>1, VerifiedStep

LEMMA VerifiedBegin ==
    ASSUME TypeOK, AllVerified, NEW r \in Requests, NEW tag \in AnyTag,
           NEW pin \in AnyDigest, NEW p \in Policies, Begin(r, tag, pin, p),
           TypeOK'
    PROVE  AllVerified'
<1>1. job'[r] \in Job /\ Becomes(r, job'[r])
  BY DEF Begin, TypeOK
<1>2. CallVerified(job'[r], verified)
  BY BeginForms DEF CallVerified, RestsOnCosign, Allowing, Gated
<1> QED BY <1>1, <1>2, VerifiedQuiet DEF Begin, tables, history

(* Where a verification passed.                                             *)
LEMMA VerifiedPassed ==
    ASSUME TypeOK, AllShaped, NEW r \in Requests, job[r].pc # "done", Passed(r),
           NEW accepted,
           job[r].policy.cosign => <<job[r].digest, job[r].policy.key>> \in accepted
    PROVE  CallVerified(job'[r], accepted)
BY PassedForms, Unanswered DEF Keeps, Same, Reads, CallVerified, RestsOnCosign, Allowing

(* A call stopped by an answer or a failure keeps what it was owed.         *)
LEMMA VerifiedStops ==
    ASSUME NEW j, NEW n, NEW v, NEW accepted, CallVerified(j, accepted),
           Stops(n, j, v), v = "allow" => j.pc = "audit" /\ j.outcome = "allow"
    PROVE  CallVerified(n, accepted)
BY DEF CallVerified, RestsOnCosign, Allowing, Gated, Stops

(* Steps of a call that read or write no Cosign state.                      *)
LEMMA VerifiedPlain ==
    ASSUME TypeOK, AllShaped, AllVerified, NEW r \in Requests,
           \/ ResolveDigest(r) \/ ResolveFails(r)
           \/ ReadFreeze(r) \/ ReadApproval(r) \/ ReadBypass(r)
           \/ ReadObservation(r) \/ CreateObservation(r) \/ ReadCreated(r)
           \/ TouchObservation(r) \/ ReadCosignCache(r) \/ MarkAllowed(r)
           \/ RecordDecision(r) \/ WriteAudit(r)
           \/ CallFails(r) \/ VerificationFails(r)
           \/ BeginMalformed(r) \/ Die(r)
    PROVE  CallVerified(job'[r], verified)
<1>0. /\ job[r] \in Job /\ CallShape(job[r]) /\ CallVerified(job[r], verified)
      /\ CacheSound
  BY DEF TypeOK, AllShaped, AllVerified
<1>1. CASE ResolveDigest(r) \/ ReadFreeze(r) \/ ReadApproval(r)
  BY <1>1, ResolveForms, FreezeForms, ApprovalForms, Unanswered
  DEF ResolveDigest, ReadFreeze, ReadApproval, Same, CallVerified, RestsOnCosign, Allowing
<1>2. CASE ResolveFails(r)
  BY <1>0, <1>2, ResolveFailsForms, Unanswered
  DEF ResolveFails, Keeps, Same, Reads, CallVerified, RestsOnCosign, CallShape, Allowing, Gated
<1>3. CASE ReadBypass(r)
  BY <1>3, BypassForms, Unanswered DEF ReadBypass, Same, CallVerified, RestsOnCosign, Allowing
<1>4. CASE ReadObservation(r) \/ CreateObservation(r)
  <2>1. CASE ReadObservation(r)
    BY <2>1, ObservationForms, Unanswered
    DEF ReadObservation, Same, CallVerified, RestsOnCosign, Allowing
  <2>2. CASE CreateObservation(r)
    <3>1. Keeps(job'[r], job[r]) /\ job'[r].pc = "reget"
      BY <2>2, EndForms DEF CreateObservation
    <3> QED BY <2>2, <3>1, Unanswered
            DEF CreateObservation, Keeps, Same, CallVerified, RestsOnCosign, Allowing
  <2> QED BY <1>4, <2>1, <2>2
<1>5. CASE ReadCreated(r)
  <2>1. CASE Stops(job'[r], job[r], "panic")
    BY <1>0, <2>1, VerifiedStops
  <2>2. CASE ~Stops(job'[r], job[r], "panic")
    BY <1>5, <2>2, CreatedForms, Unanswered
    DEF ReadCreated, Keeps, Same, CallVerified, RestsOnCosign, Allowing
  <2> QED BY <2>1, <2>2
<1>6. CASE TouchObservation(r)
  <2>1. CASE Return(r, "error")
    BY <1>0, <2>1, VerifiedStops, EndForms
  <2>2. CASE Conclude(r, "deny") \/ Goto(r, "cache")
    BY <1>6, <2>2, EndForms, Unanswered
    DEF TouchObservation, Keeps, Same, CallVerified, RestsOnCosign, Allowing
  <2>3. CASE Passed(r) /\ ~job[r].policy.cosign
    BY <1>6, <2>3, VerifiedPassed DEF TouchObservation
  <2> QED BY <1>6, <2>1, <2>2, <2>3 DEF TouchObservation, AllowWithVerification
<1>7. CASE ReadCosignCache(r)
  <2>1. CASE Goto(r, "verify")
    BY <1>7, <2>1, EndForms, Unanswered
    DEF ReadCosignCache, Keeps, Same, CallVerified, RestsOnCosign, Allowing
  <2>2. ASSUME Passed(r), NEW c \in CosignOf(cosign, job[r].digest, job[r].policy.key),
               c.success
        PROVE  CallVerified(job'[r], verified)
    <3>1. <<job[r].digest, job[r].policy.key>> \in verified
      BY <1>0, <2>2 DEF CosignOf, CacheSound
    <3> QED BY <1>7, <2>2, <3>1, VerifiedPassed DEF ReadCosignCache
  <2> QED BY <1>7, <2>1, <2>2 DEF ReadCosignCache
<1>8. CASE MarkAllowed(r)
  <2>1. Keeps(job'[r], job[r]) /\ job'[r].pc = "record"
    BY <1>8, EndForms DEF MarkAllowed
  <2>2. job[r].policy.cosign => <<job[r].digest, job[r].policy.key>> \in verified
    BY <1>0, <1>8 DEF MarkAllowed, CallVerified, RestsOnCosign
  <2> QED BY <1>8, <2>1, <2>2, Unanswered
          DEF MarkAllowed, Keeps, Same, Reads, CallVerified, RestsOnCosign, Allowing
<1>9. CASE RecordDecision(r)
  BY <1>0, <1>9, EndForms, Unanswered
  DEF RecordDecision, Keeps, Same, Reads, CallVerified, RestsOnCosign, Allowing, Gated
<1>10. CASE WriteAudit(r)
  <2>1. Stops(job'[r], job[r], job[r].outcome)
    BY <1>10, EndForms DEF WriteAudit
  <2> QED BY <1>0, <1>10, <2>1, VerifiedStops DEF WriteAudit
<1>11. CASE CallFails(r) \/ BeginMalformed(r) \/ Die(r)
  BY <1>0, <1>11, VerifiedStops, EndForms DEF CallFails, BeginMalformed, Die
<1>12. CASE VerificationFails(r)
  BY <1>12, RefusedForms, Unanswered
  DEF VerificationFails, VerifySteps, Keeps, Same, CallVerified, RestsOnCosign, Allowing
<1> QED BY <1>1, <1>2, <1>3, <1>4, <1>5, <1>6, <1>7, <1>8, <1>9, <1>10, <1>11, <1>12

LEMMA VerifiedNext ==
    ASSUME TypeOK, TypeOK', AllShaped, AllVerified, [Next]_vars
    PROVE  AllVerified'
<1>0. \A r \in Requests : job[r] \in Job /\ job'[r] \in Job
  BY DEF TypeOK
<1>1. ASSUME NEW r \in Requests, NEW tag \in AnyTag, NEW pin \in AnyDigest,
             NEW p \in Policies, Begin(r, tag, pin, p)
      PROVE  AllVerified'
  BY <1>1, VerifiedBegin
<1>2. ASSUME NEW r \in Requests,
             \/ ResolveDigest(r) \/ ResolveFails(r)
             \/ ReadFreeze(r) \/ ReadApproval(r) \/ ReadBypass(r)
             \/ ReadObservation(r) \/ CreateObservation(r) \/ ReadCreated(r)
             \/ TouchObservation(r) \/ ReadCosignCache(r) \/ MarkAllowed(r)
             \/ RecordDecision(r) \/ WriteAudit(r)
             \/ CallFails(r) \/ VerificationFails(r)
             \/ BeginMalformed(r) \/ Die(r)
      PROVE  AllVerified'
  <2>1. CallVerified(job'[r], verified)
    BY <1>2, VerifiedPlain
  <2>2. UNCHANGED <<cosign, verified>>
    BY <1>2 DEF ResolveDigest, ResolveFails, ReadFreeze, ReadApproval, ReadBypass,
                ReadObservation, CreateObservation, ReadCreated, TouchObservation,
                ReadCosignCache, MarkAllowed, RecordDecision, WriteAudit, CallFails,
                VerificationFails, BeginMalformed, Die, tables, history
  <2>3. Becomes(r, job'[r])
    BY <1>2 DEF ResolveDigest, ResolveFails, ReadFreeze, ReadApproval, ReadBypass,
                ReadObservation, CreateObservation, ReadCreated, TouchObservation,
                ReadCosignCache, MarkAllowed, RecordDecision, WriteAudit, CallFails,
                VerificationFails, BeginMalformed, Die, Goto, Conclude, Return, Break,
                Passed, AllowWithVerification, TypeOK
  <2> QED BY <1>0, <2>1, <2>2, <2>3, VerifiedQuiet
<1>3. ASSUME NEW r \in Requests, NEW s \in BOOLEAN, CosignAnswers(r, s)
      PROVE  AllVerified'
  <2>1. Becomes(r, job'[r])
    BY <1>3 DEF CosignAnswers, TypeOK
  <2>2. /\ verified \subseteq verified' /\ cosign' = cosign
        /\ s => <<job[r].digest, job[r].policy.key>> \in verified'
    BY <1>3 DEF CosignAnswers, tables
  <2>3. CacheSound'
    BY <2>2 DEF AllVerified, CacheSound
  <2>4. CallVerified(job'[r], verified')
    BY <1>3, <2>2, AnswerForms, Unanswered
    DEF CosignAnswers, Same, CallVerified, RestsOnCosign, Allowing
  <2> QED BY <1>0, <2>1, <2>2, <2>3, <2>4, VerifiedStep
<1>4. ASSUME NEW r \in Requests, RecordCosign(r)
      PROVE  AllVerified'
  <2>0. CallVerified(job[r], verified) /\ CacheSound
    BY DEF AllVerified
  <2>1. /\ Becomes(r, job'[r]) /\ verified' = verified
        /\ job[r].success => <<job[r].digest, job[r].policy.key>> \in verified
    BY <1>4, <2>0 DEF RecordCosign, AfterCosign, Passed, Conclude, Goto, TypeOK,
                      history, CallVerified, RestsOnCosign
  <2>2. CacheSound'
    <3> DEFINE key == job[r].policy.key
               old == CosignOf(cosign, job[r].digest, key)
    <3>1. ASSUME NEW c \in cosign', c.success
          PROVE  <<c.digest, c.key>> \in verified
      <4>1. CASE old = {}
        BY <1>4, <2>0, <2>1, <3>1, <4>1 DEF RecordCosign, UpsertCosign, CacheSound
      <4>2. CASE old # {}
        <5>1. \/ c \in cosign
              \/ \E b \in old : c = [b EXCEPT !.success = job[r].success]
          BY <1>4, <3>1, <4>2 DEF RecordCosign, UpsertCosign
        <5>2. ASSUME NEW b \in old, c = [b EXCEPT !.success = job[r].success]
              PROVE  /\ c.digest = job[r].digest /\ c.key = key
                     /\ c.success = job[r].success
          BY <5>2 DEF CosignOf, TypeOK, CosignRow
        <5> QED BY <2>0, <2>1, <3>1, <5>1, <5>2 DEF CacheSound
      <4> QED BY <4>1, <4>2
    <3> QED BY <2>1, <3>1 DEF CacheSound
  <2>3. CallVerified(job'[r], verified')
    <3>1. CASE job[r].success /\ Passed(r)
      BY <1>4, <2>1, <3>1, VerifiedPassed DEF RecordCosign
    <3>2. CASE Conclude(r, "deny")
      BY <1>4, <3>2, EndForms, Unanswered
      DEF RecordCosign, Keeps, Same, CallVerified, RestsOnCosign, Allowing
    <3> QED BY <1>4, <3>1, <3>2 DEF RecordCosign, AfterCosign
  <2> QED BY <1>0, <2>1, <2>2, <2>3, VerifiedStep
<1>5. CASE Operator \/ Environment \/ UNCHANGED vars
  <2>1. UNCHANGED <<job, cosign, verified>>
    BY <1>5 DEF Operator, Environment, ApproveDigest, FreezeTag, BypassTag, Tick,
                MoveTag, vars, tables, history
  <2> QED BY <2>1 DEF AllVerified, CacheSound
<1>6. CASE \E r \in Requests : BeginAny(r) \/ Progress(r) \/ Die(r)
  BY <1>1, <1>2, <1>3, <1>4, <1>6 DEF BeginAny, Progress
<1> QED BY <1>5, <1>6 DEF Next

(* A cached success, and an allow in the making, rest on a verification     *)
(* cosign itself answered (verifyCosign, engine.go:232-283).                *)
THEOREM VerifiedInvariant == Spec => []AllVerified
<1>1. Init => AllVerified
  BY DEF Init, AllVerified, CacheSound, CallVerified, RestsOnCosign, Allowing, NewJob
<1>2. TypeOK /\ TypeOK' /\ AllShaped /\ AllVerified /\ [Next]_vars => AllVerified'
  BY VerifiedNext
<1> QED BY <1>1, <1>2, ShapeInvariant, PTL DEF Spec

-----------------------------------------------------------------------------
(* The record.                                                              *)

(* A call about to write its audit event has its row, and so has one that   *)
(* was answered an allow, which has its event as well if there is a log.    *)
CallRecorded(r, j, rows, events) ==
    /\ j.pc = "audit" => \E d \in rows :
          d.req = r /\ d.digest = j.digest /\ d.decision = j.outcome
    /\ j.answer = "allow" =>
          /\ \E d \in rows :
                d.req = r /\ d.digest = j.digest /\ d.decision = "allow"
          /\ j.policy.audit => \E e \in events :
                e.req = r /\ e.digest = j.digest /\ e.decision = "allow"

EventsBacked ==
    \A e \in auditLog : \E d \in decisions :
        d.req = e.req /\ d.digest = e.digest /\ d.decision = e.decision

AllRecorded ==
    EventsBacked /\ \A r \in Requests : CallRecorded(r, job[r], decisions, auditLog)

LEMMA RecordedLater ==
    ASSUME NEW r, NEW j, NEW rows, NEW events, NEW rows2, NEW events2,
           CallRecorded(r, j, rows, events), rows \subseteq rows2,
           events \subseteq events2
    PROVE  CallRecorded(r, j, rows2, events2)
BY DEF CallRecorded

LEMMA RecordedPlain ==
    ASSUME TypeOK, AllShaped, NEW r \in Requests,
           \/ BeginAny(r) \/ ResolveDigest(r) \/ ResolveFails(r)
           \/ ReadFreeze(r) \/ ReadApproval(r) \/ ReadBypass(r)
           \/ ReadObservation(r) \/ CreateObservation(r) \/ ReadCreated(r)
           \/ TouchObservation(r) \/ ReadCosignCache(r) \/ RecordCosign(r)
           \/ (\E s \in BOOLEAN : CosignAnswers(r, s))
           \/ MarkAllowed(r) \/ CallFails(r) \/ VerificationFails(r) \/ Die(r)
    PROVE  job'[r].pc # "audit" /\ job'[r].answer # "allow"
<1>1. CASE BeginAny(r)
  BY <1>1, BeginForms, EndForms DEF BeginAny, BeginMalformed, Stops
<1>2. CASE CallFails(r) \/ Die(r)
  BY <1>2, EndForms DEF CallFails, Die, Stops
<1>3. CASE \/ ResolveDigest(r) \/ ResolveFails(r)
           \/ ReadFreeze(r) \/ ReadApproval(r) \/ ReadBypass(r)
  <2>1. job[r].answer = "none"
    BY <1>3, Unanswered DEF ResolveDigest, ResolveFails, ReadFreeze, ReadApproval, ReadBypass
  <2> QED BY <1>3, <2>1, ResolveForms, ResolveFailsForms, FreezeForms, ApprovalForms,
             BypassForms DEF Keeps, Same
<1>4. CASE ReadObservation(r) \/ CreateObservation(r) \/ ReadCreated(r)
  <2>1. job[r].answer = "none"
    BY <1>4, Unanswered DEF ReadObservation, CreateObservation, ReadCreated
  <2>2. CASE ReadObservation(r)
    BY <2>1, <2>2, ObservationForms DEF Same
  <2>3. CASE CreateObservation(r)
    BY <2>1, <2>3, EndForms DEF CreateObservation, Keeps, Same
  <2>4. CASE ReadCreated(r)
    BY <2>1, <2>4, CreatedForms DEF Keeps, Same, Stops
  <2> QED BY <1>4, <2>2, <2>3, <2>4
<1>5. CASE \/ TouchObservation(r) \/ ReadCosignCache(r) \/ RecordCosign(r)
           \/ MarkAllowed(r)
  <2>1. job[r].answer = "none"
    BY <1>5, Unanswered DEF TouchObservation, ReadCosignCache, RecordCosign, MarkAllowed
  <2>2. \/ Stops(job'[r], job[r], "error")
        \/ Keeps(job'[r], job[r]) /\ job'[r].pc \in {"record", "cache", "verify", "mark"}
    BY <1>5, EndForms, PassedForms
    DEF TouchObservation, ReadCosignCache, RecordCosign, MarkAllowed, AfterCosign,
        AllowWithVerification
  <2> QED BY <2>1, <2>2 DEF Keeps, Same, Stops
<1>6. CASE (\E s \in BOOLEAN : CosignAnswers(r, s)) \/ VerificationFails(r)
  <2>1. job[r].answer = "none"
    BY <1>6, Unanswered DEF CosignAnswers, VerificationFails, VerifySteps
  <2> QED BY <1>6, <2>1, AnswerForms, RefusedForms DEF Keeps, Same
<1> QED BY <1>1, <1>2, <1>3, <1>4, <1>5, <1>6

LEMMA RecordedNext ==
    ASSUME TypeOK, TypeOK', AllShaped, AllRecorded, [Next]_vars
    PROVE  AllRecorded'
<1>0. EventsBacked /\ \A r \in Requests : CallRecorded(r, job[r], decisions, auditLog)
  BY DEF AllRecorded
<1>1. ASSUME NEW r \in Requests, BeginAny(r) \/ Progress(r) \/ Die(r),
             decisions \subseteq decisions', auditLog \subseteq auditLog',
             CallRecorded(r, job'[r], decisions', auditLog'), EventsBacked'
      PROVE  AllRecorded'
  <2>1. ASSUME NEW q \in Requests
        PROVE  CallRecorded(q, job'[q], decisions', auditLog')
    <3>1. CASE q = r
      BY <1>1, <3>1
    <3>2. CASE q # r
      <4>1. job'[q] = job[q] /\ CallRecorded(q, job[q], decisions, auditLog)
        BY <1>0, <1>1, <3>2, OneMoves
      <4>2. CallRecorded(q, job[q], decisions', auditLog')
        BY <1>1, <4>1, RecordedLater
      <4> QED BY <4>1, <4>2
    <3> QED BY <3>1, <3>2
  <2> QED BY <1>1, <2>1 DEF AllRecorded
<1>2. ASSUME NEW r \in Requests, RecordDecision(r)
      PROVE  AllRecorded'
  <2>1. /\ Keeps(job'[r], job[r]) /\ job'[r].pc = "audit"
        /\ job'[r].outcome = job[r].outcome /\ job[r].answer = "none"
    BY <1>2, EndForms, Unanswered DEF RecordDecision
  <2> DEFINE row == [id |-> seq.decisions + 1, req |-> r, tag |-> job[r].tag,
                     digest |-> job[r].digest, decision |-> job[r].outcome]
  <2>2. /\ auditLog' = auditLog /\ decisions' = decisions \cup {row}
        /\ row.req = r /\ row.digest = job[r].digest /\ row.decision = job[r].outcome
    BY <1>2 DEF RecordDecision
  <2> HIDE DEF row
  <2>3. CallRecorded(r, job'[r], decisions', auditLog')
    <3>1. /\ job'[r].digest = job[r].digest /\ job'[r].answer # "allow"
          /\ row \in decisions'
      BY <2>1, <2>2 DEF Keeps, Same, Reads
    <3> QED BY <2>1, <2>2, <3>1 DEF CallRecorded
  <2>4. EventsBacked'
    BY <1>0, <2>2 DEF EventsBacked
  <2> QED BY <1>1, <1>2, <2>2, <2>3, <2>4 DEF Progress
<1>3. ASSUME NEW r \in Requests, WriteAudit(r)
      PROVE  AllRecorded'
  <2>1. Stops(job'[r], job[r], job[r].outcome) /\ job[r].pc = "audit"
    BY <1>3, EndForms DEF WriteAudit
  <2> DEFINE event == [req |-> r, digest |-> job[r].digest,
                       decision |-> job[r].outcome]
  <2>2. /\ decisions' = decisions
        /\ auditLog' = IF job[r].policy.audit THEN auditLog \cup {event}
                       ELSE auditLog
        /\ event.req = r /\ event.digest = job[r].digest
        /\ event.decision = job[r].outcome
    BY <1>3 DEF WriteAudit, tables
  <2> HIDE DEF event
  <2>3. \E d \in decisions : d.req = r /\ d.digest = job[r].digest
                            /\ d.decision = job[r].outcome
    BY <1>0, <2>1 DEF CallRecorded
  <2>4. CallRecorded(r, job'[r], decisions', auditLog')
    <3>1. /\ job'[r].digest = job[r].digest /\ job'[r].answer = job[r].outcome
          /\ job'[r].pc = "done" /\ job'[r].policy = job[r].policy
          /\ job[r].policy.audit => event \in auditLog'
      BY <2>1, <2>2 DEF Stops
    <3> QED BY <2>2, <2>3, <3>1 DEF CallRecorded
  <2>5. EventsBacked'
    BY <1>0, <2>2, <2>3 DEF EventsBacked
  <2> QED BY <1>1, <1>3, <2>2, <2>4, <2>5 DEF Progress
<1>4. ASSUME NEW r \in Requests, BeginAny(r) \/ Progress(r) \/ Die(r),
             ~RecordDecision(r), ~WriteAudit(r)
      PROVE  AllRecorded'
  <2>1. job'[r].pc # "audit" /\ job'[r].answer # "allow"
    BY <1>4, RecordedPlain DEF Progress
  <2>2. UNCHANGED <<decisions, auditLog>>
    <3>1. CASE \/ BeginAny(r) \/ ResolveDigest(r) \/ ResolveFails(r)
               \/ ReadFreeze(r) \/ ReadApproval(r) \/ ReadBypass(r)
               \/ ReadObservation(r) \/ CreateObservation(r) \/ ReadCreated(r)
      BY <3>1 DEF BeginAny, Begin, BeginMalformed, ResolveDigest, ResolveFails,
                  ReadFreeze, ReadApproval, ReadBypass, ReadObservation,
                  CreateObservation, ReadCreated, tables
    <3>2. CASE \/ TouchObservation(r) \/ ReadCosignCache(r) \/ RecordCosign(r)
               \/ (\E s \in BOOLEAN : CosignAnswers(r, s))
               \/ MarkAllowed(r) \/ CallFails(r) \/ VerificationFails(r) \/ Die(r)
      BY <3>2 DEF TouchObservation, ReadCosignCache, RecordCosign, CosignAnswers,
                  MarkAllowed, CallFails, VerificationFails, Die, tables
    <3> QED BY <1>4, <3>1, <3>2 DEF Progress
  <2>3. CallRecorded(r, job'[r], decisions', auditLog') /\ EventsBacked'
    BY <1>0, <2>1, <2>2 DEF CallRecorded, EventsBacked
  <2> QED BY <1>1, <1>4, <2>2, <2>3
<1>5. CASE Operator \/ Environment \/ UNCHANGED vars
  <2>1. UNCHANGED <<job, decisions, auditLog>>
    BY <1>5 DEF Operator, Environment, ApproveDigest, FreezeTag, BypassTag, Tick,
                MoveTag, vars, tables
  <2> QED BY <1>0, <2>1 DEF AllRecorded, EventsBacked
<1> QED BY <1>2, <1>3, <1>4, <1>5 DEF Next

(* No call is answered an allow that is not in SQLite, and in the audit log *)
(* where there is one, and no audit event lacks its row, for any number of  *)
(* calls that fail or die between the two writes (record, engine.go:285-324;*)
(* Record, logger.go:36-57).                                                *)
THEOREM AdmissionsAreRecorded == Spec => []AdmissionRecorded
<1>1. Init => AllRecorded
  BY DEF Init, AllRecorded, EventsBacked, CallRecorded, NewJob
<1>2. TypeOK /\ TypeOK' /\ AllShaped /\ AllRecorded /\ [Next]_vars => AllRecorded'
  BY RecordedNext
<1>3. AllRecorded => AdmissionRecorded
  BY DEF AllRecorded, EventsBacked, CallRecorded, AdmissionRecorded, Admitted
<1> QED BY <1>1, <1>2, <1>3, ShapeInvariant, PTL DEF Spec

-----------------------------------------------------------------------------
(* Freezes.                                                                 *)

(* No call rests on having missed a freeze that is not gone.                *)
Unfrozen(gone) == \A q \in Requests : CallUnfrozen(job[q], freezes, gone)

(* No row found by the query of ActiveFreeze: no freeze is in force.        *)
LEMMA NoneFound ==
    ASSUME NEW rows, NEW stored, NEW j, rows \subseteq stored,
           ActiveFreezes(stored, j.tag, j.digest, j.now) = {}
    PROVE  ~FreezeFor(rows, j)
BY DEF ActiveFreezes, FreezeCovers, Unexpired, FreezeFor, InForce

(* A call that goes on with its digest, where it was past the freeze.       *)
LEMMA UnfrozenOnward ==
    ASSUME NEW j, NEW n, NEW stored, NEW gone, CallUnfrozen(j, stored, gone),
           Same(n, j), n.digest = j.digest,
           RestsOnNoFreeze(n) => RestsOnNoFreeze(j)
    PROVE  CallUnfrozen(n, stored, gone)
BY DEF CallUnfrozen, FreezeFor, InForce, Same

LEMMA UnfrozenStops ==
    ASSUME NEW j, NEW n, NEW v, NEW stored, NEW gone, CallUnfrozen(j, stored, gone),
           Stops(n, j, v), v = "allow" => j.pc = "audit" /\ j.outcome = "allow"
    PROVE  CallUnfrozen(n, stored, gone)
<1>1. RestsOnNoFreeze(n) => RestsOnNoFreeze(j)
  BY DEF RestsOnNoFreeze, UnfrozenSteps, VerifySteps, Allowing, Gated, Stops
<1> QED BY <1>1 DEF CallUnfrozen, FreezeFor, InForce, Stops

(* Every step past the freeze query that keeps the digest is sound.         *)
LEMMA UnfrozenLater ==
    ASSUME NEW j, NEW n, NEW stored, NEW gone, CallUnfrozen(j, stored, gone),
           j.pc \in UnfrozenSteps, Same(n, j), n.digest = j.digest
    PROVE  CallUnfrozen(n, stored, gone)
BY UnfrozenOnward DEF RestsOnNoFreeze

LEMMA UnfrozenBegin ==
    ASSUME TypeOK, NEW r \in Requests, NEW tag \in AnyTag, NEW gone,
           NEW pin \in AnyDigest, NEW p \in Policies, Begin(r, tag, pin, p)
    PROVE  CallUnfrozen(job'[r], freezes, gone)
BY BeginForms
DEF CallUnfrozen, RestsOnNoFreeze, UnfrozenSteps, VerifySteps, Allowing, Gated

(* The steps up to the verdict of the overrides.                            *)
LEMMA UnfrozenEarly ==
    ASSUME TypeOK, AllShaped, NEW gone, Unfrozen(gone), NEW r \in Requests,
           \/ ResolveDigest(r) \/ ResolveFails(r)
           \/ ReadFreeze(r) \/ ReadApproval(r) \/ ReadBypass(r)
    PROVE  CallUnfrozen(job'[r], freezes, gone)
<1>0. /\ job[r] \in Job /\ CallShape(job[r]) /\ CallUnfrozen(job[r], freezes, gone)
  BY DEF TypeOK, AllShaped, Unfrozen
<1>1. CASE ResolveDigest(r)
  <2>1. ~RestsOnNoFreeze(job'[r])
    BY <1>1, ResolveForms, Unanswered
    DEF ResolveDigest, Same, RestsOnNoFreeze, UnfrozenSteps, VerifySteps, Allowing
  <2> QED BY <1>0, <1>1, <2>1, ResolveForms DEF Same, CallUnfrozen
<1>2. CASE ResolveFails(r)
  <2>1. ~RestsOnNoFreeze(job'[r])
    BY <1>0, <1>2, ResolveFailsForms
    DEF ResolveFails, Keeps, Same, Reads, CallShape, RestsOnNoFreeze, UnfrozenSteps,
        VerifySteps, Gated
  <2> QED BY <1>0, <1>2, <2>1, ResolveFailsForms DEF Keeps, Same, CallUnfrozen
<1>3. CASE ReadFreeze(r)
  <2> DEFINE n == job'[r]
  <2>1. /\ Same(n, job[r]) /\ n.digest = job[r].digest /\ n.pc = "approval"
        /\ n.freeze = ActiveFreezes(freezes, n.tag, n.digest, n.now)
    BY <1>3, FreezeForms DEF Same
  <2>2. n.held.freezes \ gone \subseteq freezes
    BY <1>0, <2>1 DEF Same, CallUnfrozen
  <2>3. n.answer = "none"
    BY <1>3, <2>1, Unanswered DEF ReadFreeze, Same
  <2> HIDE DEF n
  <2>4. n.freeze = {} => ~FreezeFor(n.held.freezes \ gone, n)
    BY <2>1, <2>2, NoneFound
  <2>5. CallUnfrozen(n, freezes, gone)
    BY <2>1, <2>2, <2>3, <2>4
    DEF CallUnfrozen, RestsOnNoFreeze, UnfrozenSteps, VerifySteps, Allowing
  <2> QED BY <2>5 DEF n
<1>4. CASE ReadApproval(r)
  <2>1. RestsOnNoFreeze(job'[r]) => RestsOnNoFreeze(job[r])
    BY <1>4, ApprovalForms, Unanswered
    DEF ReadApproval, Same, RestsOnNoFreeze, UnfrozenSteps, VerifySteps, Allowing
  <2> QED BY <1>0, <1>4, <2>1, ApprovalForms, UnfrozenOnward
<1>5. CASE ReadBypass(r)
  <2>1. RestsOnNoFreeze(job'[r]) => RestsOnNoFreeze(job[r])
    BY <1>5, BypassForms, Unanswered
    DEF ReadBypass, Same, RestsOnNoFreeze, UnfrozenSteps, VerifySteps, Allowing
  <2> QED BY <1>0, <1>5, <2>1, BypassForms, UnfrozenOnward
<1> QED BY <1>1, <1>2, <1>3, <1>4, <1>5

(* The steps after it, up to the verdict.                                   *)
LEMMA UnfrozenMiddle ==
    ASSUME TypeOK, NEW gone, Unfrozen(gone), NEW r \in Requests,
           \/ ReadObservation(r) \/ CreateObservation(r) \/ ReadCreated(r)
           \/ TouchObservation(r) \/ ReadCosignCache(r) \/ RecordCosign(r)
           \/ (\E s \in BOOLEAN : CosignAnswers(r, s))
           \/ MarkAllowed(r) \/ VerificationFails(r)
    PROVE  CallUnfrozen(job'[r], freezes, gone)
<1>0. CallUnfrozen(job[r], freezes, gone) /\ job[r].pc \in UnfrozenSteps
  BY DEF Unfrozen, UnfrozenSteps, VerifySteps, ReadObservation, CreateObservation,
         ReadCreated, TouchObservation, ReadCosignCache, RecordCosign, CosignAnswers,
         MarkAllowed, VerificationFails
<1>1. \/ Same(job'[r], job[r]) /\ job'[r].digest = job[r].digest
      \/ Stops(job'[r], job[r], "panic")
      \/ Stops(job'[r], job[r], "error")
  <2>1. CASE ReadObservation(r)
    BY <2>1, ObservationForms
  <2>2. CASE ReadCreated(r)
    BY <2>2, CreatedForms DEF Keeps, Reads
  <2>3. CASE CreateObservation(r) \/ MarkAllowed(r)
    BY <2>3, EndForms DEF CreateObservation, MarkAllowed, Keeps, Reads
  <2>4. CASE TouchObservation(r) \/ ReadCosignCache(r) \/ RecordCosign(r)
    BY <2>4, EndForms, PassedForms
    DEF TouchObservation, ReadCosignCache, RecordCosign, AfterCosign,
        AllowWithVerification, Keeps, Reads
  <2>5. CASE \E s \in BOOLEAN : CosignAnswers(r, s)
    BY <2>5, AnswerForms
  <2>6. CASE VerificationFails(r)
    BY <2>6, RefusedForms DEF Keeps, Reads
  <2> QED BY <2>1, <2>2, <2>3, <2>4, <2>5, <2>6
<1> QED BY <1>0, <1>1, UnfrozenLater, UnfrozenStops

(* The record, and every end.                                               *)
LEMMA UnfrozenEnd ==
    ASSUME TypeOK, AllShaped, NEW gone, Unfrozen(gone), NEW r \in Requests,
           \/ RecordDecision(r) \/ WriteAudit(r) \/ CallFails(r)
           \/ BeginMalformed(r) \/ Die(r)
    PROVE  CallUnfrozen(job'[r], freezes, gone)
<1>0. CallUnfrozen(job[r], freezes, gone)
  BY DEF Unfrozen
<1>1. CASE RecordDecision(r)
  <2>1. /\ Keeps(job'[r], job[r]) /\ job'[r].pc = "audit"
        /\ job'[r].outcome = job[r].outcome /\ job[r].answer = "none"
    BY <1>1, EndForms, Unanswered DEF RecordDecision
  <2>2. RestsOnNoFreeze(job'[r]) => RestsOnNoFreeze(job[r])
    BY <1>1, <2>1 DEF RecordDecision, Keeps, Same, Reads, RestsOnNoFreeze,
                      UnfrozenSteps, VerifySteps, Allowing, Gated
  <2> QED BY <1>0, <2>1, <2>2, UnfrozenOnward DEF Keeps, Reads
<1>2. CASE WriteAudit(r)
  <2>1. Stops(job'[r], job[r], job[r].outcome)
    BY <1>2, EndForms DEF WriteAudit
  <2> QED BY <1>0, <1>2, <2>1, UnfrozenStops DEF WriteAudit
<1>3. CASE CallFails(r) \/ BeginMalformed(r) \/ Die(r)
  BY <1>0, <1>3, UnfrozenStops, EndForms DEF CallFails, BeginMalformed, Die
<1> QED BY <1>1, <1>2, <1>3

LEMMA UnfrozenNext ==
    ASSUME TypeOK, TypeOK', AllShaped, NEW gone, Unfrozen(gone), [Next]_vars
    PROVE  \A q \in Requests : CallUnfrozen(job'[q], freezes', gone)
<1>1. ASSUME NEW r \in Requests, BeginAny(r) \/ Progress(r) \/ Die(r)
      PROVE  \A q \in Requests : CallUnfrozen(job'[q], freezes', gone)
  <2>1. CallUnfrozen(job'[r], freezes, gone)
    BY <1>1, UnfrozenBegin, UnfrozenEarly, UnfrozenMiddle, UnfrozenEnd
    DEF BeginAny, Progress
  <2>2. UNCHANGED freezes
    <3>1. CASE BeginAny(r) \/ Die(r)
      BY <3>1 DEF BeginAny, BeginMalformed, Begin, Die, tables
    <3>2. CASE \/ ResolveDigest(r) \/ ResolveFails(r)
               \/ ReadFreeze(r) \/ ReadApproval(r) \/ ReadBypass(r)
               \/ ReadObservation(r) \/ CreateObservation(r) \/ ReadCreated(r)
      BY <3>2 DEF ResolveDigest, ResolveFails, ReadFreeze, ReadApproval, ReadBypass,
                  ReadObservation, CreateObservation, ReadCreated, tables
    <3>3. CASE \/ TouchObservation(r) \/ ReadCosignCache(r) \/ RecordCosign(r)
               \/ (\E s \in BOOLEAN : CosignAnswers(r, s)) \/ MarkAllowed(r)
               \/ RecordDecision(r) \/ WriteAudit(r)
               \/ CallFails(r) \/ VerificationFails(r)
      BY <3>3 DEF TouchObservation, ReadCosignCache, RecordCosign, CosignAnswers,
                  MarkAllowed, RecordDecision, WriteAudit, CallFails,
                  VerificationFails, tables
    <3> QED BY <1>1, <3>1, <3>2, <3>3 DEF Progress
  <2>3. \A q \in Requests : CallUnfrozen(job'[q], freezes, gone)
    BY <1>1, <2>1, OneMoves DEF Unfrozen
  <2> QED BY <2>2, <2>3
<1>2. CASE Operator \/ Environment \/ UNCHANGED vars
  <2>1. UNCHANGED job /\ freezes \subseteq freezes'
    BY <1>2 DEF Operator, Environment, ApproveDigest, FreezeTag, BypassTag, Tick,
                MoveTag, vars, tables
  <2> QED BY <2>1 DEF Unfrozen, CallUnfrozen
<1> QED BY <1>1, <1>2 DEF Next

(* Past the freeze query no freeze the call began with covers it, at every  *)
(* step of Decide (LocalOverride, sqlite.go:472-494).                       *)
THEOREM UnfrozenInvariant == Spec => []AllUnfrozen
<1>1. Init => AllUnfrozen
  BY DEF Init, AllUnfrozen, CallUnfrozen, RestsOnNoFreeze, UnfrozenSteps, VerifySteps,
         Allowing, NewJob
<1>2. TypeOK /\ TypeOK' /\ AllShaped /\ AllUnfrozen /\ [Next]_vars => AllUnfrozen'
  BY UnfrozenNext DEF AllUnfrozen, Unfrozen
<1> QED BY <1>1, <1>2, TypeCorrect, ShapeInvariant, PTL DEF Spec

(* A freeze stored before a call began refuses every digest and tag it      *)
(* covers, whatever is approved, bypassed or cached, for a pinned reference *)
(* and for a quarantined tag (engine.go:121-129 and 174-184), with any      *)
(* number of calls, rows and digests.                                       *)
THEOREM FrozenRefused == Spec => []FreezeRespected
<1>1. AllShaped /\ AllUnfrozen => FreezeRespected
  BY DEF AllUnfrozen, CallUnfrozen, RestsOnNoFreeze, Allowing, Gated, Pinned,
         Quarantined, Admitted, FreezeRespected, AllShaped, CallShape
<1> QED BY <1>1, UnfrozenInvariant, ShapeInvariant, PTL
=============================================================================
